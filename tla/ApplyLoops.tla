----------------------------- MODULE ApplyLoops -----------------------------
(***************************************************************************)
(* The loops of engine.rs over the points and ids of a call, in the order  *)
(* the caller gives them and with the duplicates the API accepts, and the  *)
(* counts the calls return.  CollView states the net effect of each loop   *)
(* on unordered batches; the invariants here compare the two on every view *)
(* a collection can be in.                                                 *)
(***************************************************************************)
EXTENDS CollectionView, SequencesExt

CONSTANT MaxBatch  \* bound of the model: length of a call's list

ASSUME MaxBatchAssumption == MaxBatch \in Nat

Point == [id : Id, row : Row]
PointLists == UNION {[1..n -> Point] : n \in 1..MaxBatch}
IdLists == UNION {[1..n -> Id] : n \in 1..MaxBatch}

(* The batch of a list of points: the last row of each id. *)
Positions(points, id) == {k \in DOMAIN points : points[k].id = id}
BatchOf(points) ==
    [id \in Id |-> IF Positions(points, id) = {} THEN NoRow
                   ELSE points[Max(Positions(points, id))].row]

Single(id, row) == [x \in Id |-> IF x = id THEN row ELSE NoRow]

(* Mutation: the mutable segment is updated before it is asked for the id. *)
UpsertPointSwapped(v, p) ==
    LET m == MutableUpsert(v.mutable, Single(p.id, p.row))
        tombs == IF p.id \in RowIds(m) THEN {} ELSE Holders(v, p.id)
    IN  [mutable    |-> m,
         immutables |-> [i \in DOMAIN v.immutables |->
                           IF i \in tombs THEN TombstoneMany(v.immutables[i], {p.id})
                           ELSE v.immutables[i]]]

(* The body of apply_upsert's loop: the segments in which the point is     *)
(* alive are collected and tombstoned before the mutable upsert.           *)
UpsertPoint(v, p) ==
    LET tombs == IF p.id \in RowIds(v.mutable) THEN {} ELSE Holders(v, p.id)
    IN  [mutable    |-> MutableUpsert(v.mutable, Single(p.id, p.row)),
         immutables |-> [i \in DOMAIN v.immutables |->
                           IF i \in tombs THEN TombstoneMany(v.immutables[i], {p.id})
                           ELSE v.immutables[i]]]

UpsertLoop(v, points) == FoldLeft(UpsertPoint, v, points)

(* Mutation: a second id of a segment replaces the first in its group. *)
DeleteIdReplaces(v, acc, id) ==
    IF Alive(acc.mutable, id)
      THEN [acc EXCEPT !.mutable = MutableDelete(@, {id}), !.deleted = @ + 1]
    ELSE IF Holders(v, id) # {}
      THEN [acc EXCEPT !.tombs[Min(Holders(v, id))] = {id}, !.deleted = @ + 1]
      ELSE acc

(* apply_delete: the mutable segment is updated as the ids go by, the      *)
(* tombstones of the others are grouped by segment and written afterwards, *)
(* so that a duplicate id still finds its row alive.                       *)
DeleteId(v, acc, id) ==
    IF Alive(acc.mutable, id)
      THEN [acc EXCEPT !.mutable = MutableDelete(@, {id}), !.deleted = @ + 1]
    ELSE IF Holders(v, id) # {}
      THEN [acc EXCEPT !.tombs[Min(Holders(v, id))] = @ \cup {id}, !.deleted = @ + 1]
      ELSE acc

DeleteLoop(v, ids) ==
    LET none == [mutable |-> v.mutable, tombs |-> [i \in DOMAIN v.immutables |-> {}], deleted |-> 0]
        acc == FoldLeft(LAMBDA a, id : DeleteId(v, a, id), none, ids)
    IN  [view    |-> [mutable    |-> acc.mutable,
                      immutables |-> [i \in DOMAIN v.immutables |->
                                        TombstoneMany(v.immutables[i], acc.tombs[i])]],
         deleted |-> acc.deleted]

(* Mutation: a tombstoned row of the mutable segment counts as a hit. *)
PayloadIdHitsDead(v, acc, id, payload) ==
    IF id \in RowIds(acc.mutable)
      THEN [acc EXCEPT !.mutable = MutableSetPayload(@, {id}, payload), !.hit = @ + 1]
    ELSE IF Holders(v, id) # {}
      THEN [acc EXCEPT !.overlays[Min(Holders(v, id))] = @ \cup {id}, !.hit = @ + 1]
      ELSE acc

(* apply_payload: the same, with overlay entries in place of tombstones. *)
PayloadId(v, acc, id, payload) ==
    IF Alive(acc.mutable, id)
      THEN [acc EXCEPT !.mutable = MutableSetPayload(@, {id}, payload), !.hit = @ + 1]
    ELSE IF Holders(v, id) # {}
      THEN [acc EXCEPT !.overlays[Min(Holders(v, id))] = @ \cup {id}, !.hit = @ + 1]
      ELSE acc

PayloadLoop(v, ids, payload) ==
    LET none == [mutable |-> v.mutable, overlays |-> [i \in DOMAIN v.immutables |-> {}], hit |-> 0]
        acc == FoldLeft(LAMBDA a, id : PayloadId(v, a, id, payload), none, ids)
    IN  [view |-> [mutable    |-> acc.mutable,
                   immutables |-> [i \in DOMAIN v.immutables |->
                                     SetOverlayBatch(v.immutables[i], acc.overlays[i], payload)]],
         hit  |-> acc.hit]

(* Mutation: compaction copies the dead rows of the mutable segment too. *)
MutableLiveRowsAll(m) == m.rows

(* compact_locked: segment after segment into one mutable segment, then    *)
(* the live rows of the mutable segment.                                   *)
MutableLiveRows(m) == [id \in Id |-> IF Alive(m, id) THEN m.rows[id] ELSE NoRow]

CompactLoop(v) ==
    MutableUpsert(FoldLeft(LAMBDA m, seg : MutableUpsert(m, LiveRows(seg)), EmptyMutable, v.immutables),
                  MutableLiveRows(v.mutable))

-----------------------------------------------------------------------------
(* Properties. *)

(* A list of points, with two rows for one id or an id already overwritten *)
(* by the list, leaves the view that the unordered batch of its last rows  *)
(* leaves: tombstones are written once, whatever the order.                *)
UpsertLoopIsBatch ==
    \A points \in PointLists : UpsertLoop(view, points) = ApplyUpsert(view, BatchOf(points))

(* A delete of a list leaves the view that the set of its ids leaves; and  *)
(* without duplicates the number it returns is the number of points that   *)
(* disappear from the collection.                                          *)
DeleteLoopIsBatch ==
    \A ids \in IdLists :
      LET result == DeleteLoop(view, ids)
          gone == {id \in Id : LookupPoint(view, id) # NoRow /\ LookupPoint(result.view, id) = NoRow}
      IN  /\ result.view = ApplyDelete(view, ToSet(ids))
          /\ IsInjective(ids) => result.deleted = Cardinality(gone)

(* set_payload and clear_payload on a list give the payload to the set of  *)
(* its ids and count every listed id that exists, duplicates included, in  *)
(* the mutable segment as in the others.                                   *)
PayloadLoopIsBatch ==
    \A ids \in IdLists, payload \in OptPayload :
      LET result == PayloadLoop(view, ids, payload)
      IN  /\ result.view = ApplyPayload(view, ToSet(ids), payload)
          /\ result.hit = Cardinality({k \in DOMAIN ids : LookupPoint(view, ids[k]) # NoRow})

(* Merging the segments one after the other leaves for each id the row     *)
(* that a lookup finds, with nothing tombstoned.                           *)
CompactLoopIsMerge ==
    /\ CompactLoop(view) = Merged(view)
    /\ CompactLoop(view).rows = LiveStore(view)
=============================================================================
