------------------------------ MODULE CollView ------------------------------
(***************************************************************************)
(* CollView of engine.rs, the pair (mutable segment, immutable segments)   *)
(* behind a collection's lock, and what each critical section of the       *)
(* engine does to it: apply_upsert, apply_delete, apply_payload,           *)
(* lookup_point, count, and the merges of compact and of a segment rebuild.*)
(*                                                                         *)
(* The batches of the API are unordered here: ids is the set of ids of a   *)
(* call and batch the last row it gives for each id.  ApplyLoops has the   *)
(* loops over the sequences and checks that they compute these operators.  *)
(***************************************************************************)
EXTENDS Segments, Sequences, FiniteSetsExt

View == [mutable : Mutable, immutables : Seq(Segment)]

EmptyView == [mutable |-> EmptyMutable, immutables |-> <<>>]

(* The positions of the immutable segments in which id is alive. *)
Holders(v, id) == {i \in DOMAIN v.immutables : Alive(v.immutables[i], id)}

(* What the write path keeps of a view: an id with a row in the mutable    *)
(* segment, even a dead one, is alive in no immutable segment, and every   *)
(* id is alive in at most one.  apply_upsert and apply_delete rely on it   *)
(* when they stop looking.                                                 *)
WellFormed(v) ==
    \A id \in Id :
      /\ id \in RowIds(v.mutable) => Holders(v, id) = {}
      /\ \A i, j \in Holders(v, id) : i = j

(* lookup_point: the mutable segment first, then the newest segment. *)
LookupPoint(v, id) ==
    IF Alive(v.mutable, id) THEN v.mutable.rows[id]
    ELSE IF Holders(v, id) # {}
      THEN PointOf(v.immutables[Max(Holders(v, id))], id)
      ELSE NoRow

LiveStore(v) == [id \in Id |-> LookupPoint(v, id)]

(* Collection::count: a sum over the segments. *)
Count(v) == AliveCount(v.mutable)
            + MapThenSumSet(LAMBDA i : AliveCount(v.immutables[i]), DOMAIN v.immutables)

(* Mutation: the row that is overwritten stays alive in its segment. *)
ApplyUpsertNoTombstones(v, batch) == [v EXCEPT !.mutable = MutableUpsert(@, batch)]

(* apply_upsert: an id that the mutable segment has no row for is          *)
(* tombstoned in every segment it is alive in; an id that has one, dead or *)
(* alive, is taken not to be alive in any segment.                         *)
ApplyUpsert(v, batch) ==
    LET overridden == BatchIds(batch) \ RowIds(v.mutable)
    IN  [mutable    |-> MutableUpsert(v.mutable, batch),
         immutables |-> [i \in DOMAIN v.immutables |-> TombstoneMany(v.immutables[i], overridden)]]

(* apply_delete, first part: an id alive in the mutable segment is deleted *)
(* there and nowhere else; any other, in the oldest segment that has it.   *)
ApplyDelete(v, ids) ==
    LET elsewhere == {id \in ids : ~Alive(v.mutable, id)}
        OldestIn(i) == {id \in elsewhere : i \in Holders(v, id) /\ i = Min(Holders(v, id))}
    IN  [mutable    |-> MutableDelete(v.mutable, ids),
         immutables |-> [i \in DOMAIN v.immutables |-> TombstoneMany(v.immutables[i], OldestIn(i))]]

(* apply_delete, second part: the positions of the segments to rebuild. *)
RebuildList(v) == {i \in DOMAIN v.immutables : OverThreshold(v.immutables[i])}

(* apply_payload: the same search as apply_delete. *)
ApplyPayload(v, ids, payload) ==
    LET elsewhere == {id \in ids : ~Alive(v.mutable, id)}
        OldestIn(i) == {id \in elsewhere : i \in Holders(v, id) /\ i = Min(Holders(v, id))}
    IN  [mutable    |-> MutableSetPayload(v.mutable, ids, payload),
         immutables |-> [i \in DOMAIN v.immutables |->
                           SetOverlayBatch(v.immutables[i], OldestIn(i), payload)]]

(* Mutation: the swap leaves the mutable segment as it is. *)
ApplyFlushKeepsMutable(v, seg) == [v EXCEPT !.immutables = Append(@, seg)]

(* The swap at the end of a flush. *)
ApplyFlush(v, seg) == [mutable |-> EmptyMutable, immutables |-> Append(v.immutables, seg)]

(* compact: the live rows of the segments from the oldest to the newest,   *)
(* then of the mutable one, upserted into an empty segment: the newest     *)
(* live row of an id stays.                                                *)
Merged(v) ==
    [rows    |-> [id \in Id |->
                    IF Alive(v.mutable, id) THEN v.mutable.rows[id]
                    ELSE IF Holders(v, id) # {}
                      THEN LiveRows(v.immutables[Max(Holders(v, id))])[id]
                      ELSE NoRow],
     deleted |-> {}]

ApplyCompact(v) ==
    [mutable    |-> EmptyMutable,
     immutables |-> IF IsEmpty(Merged(v)) THEN <<>> ELSE <<SegmentOf(Merged(v))>>]

(* Mutation: the segment after the one rebuilt is removed. *)
RemovePositionOffByOne(s, k) == SubSeq(s, 1, k) \o SubSeq(s, k + 2, Len(s))

(* rebuild_segment_locked: the live rows of one segment replace it, or it  *)
(* is removed when there is none, which moves the later ones down.         *)
Rebuilt(seg) == [rows |-> LiveRows(seg), deleted |-> {}]

RemovePosition(s, k) == SubSeq(s, 1, k - 1) \o SubSeq(s, k + 1, Len(s))

ApplyRebuild(v, si) ==
    IF si \notin DOMAIN v.immutables THEN v
    ELSE LET merged == Rebuilt(v.immutables[si])
         IN  [v EXCEPT !.immutables = IF IsEmpty(merged)
                                        THEN RemovePosition(@, si)
                                        ELSE [@ EXCEPT ![si] = SegmentOf(merged)]]
=============================================================================
