------------------------------ MODULE Segments ------------------------------
(***************************************************************************)
(* The two kinds of segment a collection is made of, as values and pure    *)
(* operators: segment/core.rs, segment/mutable.rs and segment/immutable.rs.*)
(*                                                                         *)
(* A segment keeps one row per external id (ext2int maps an id to a row    *)
(* number, and rows are never duplicated), so the columns of SegmentCore   *)
(* are one function from ids to rows; the order of the rows is abstracted. *)
(* NoRow is an id that ext2int does not hold.  deleted is the roaring      *)
(* bitmap of tombstones, as the set of ids of the tombstoned rows.         *)
(***************************************************************************)
EXTENDS Integers, FiniteSets

CONSTANTS
    Id,         \* external ids
    Vector,     \* vectors of the collection's dimension
    Payload,    \* JSON payloads
    NoPayload,  \* Option::None of a payload
    NoRow,      \* no row for this id
    NoOverlay,  \* no overlay entry for this id
    RatioNum,   \* REBUILD_TOMBSTONE_RATIO = RatioNum / RatioDen (0.30 in the code)
    RatioDen

ASSUME IdAssumption == IsFiniteSet(Id)
ASSUME RatioAssumption == RatioNum \in Nat /\ RatioDen \in Nat \ {0}

OptPayload == Payload \cup {NoPayload}
Row == [vector : Vector, payload : OptPayload]
OptRow == Row \cup {NoRow}

ASSUME NoRowAssumption == NoRow \notin Row
ASSUME NoOverlayAssumption == NoOverlay \notin OptPayload

(* What a collection shows of each id: its row, or NoRow. *)
Rows == [Id -> OptRow]

(* The points of one upsert call: the last row given for each id.          *)
(* MutableSegment::upsert overwrites, so that row is the one that stays.   *)
Batch == Rows
BatchIds(batch) == {id \in Id : batch[id] # NoRow}

-----------------------------------------------------------------------------
(* Both kinds. *)

Mutable == [rows : Rows, deleted : SUBSET Id]
Segment == [rows : Rows, deleted : SUBSET Id, overlay : [Id -> OptPayload \cup {NoOverlay}]]

(* The ids with a row, dead or alive: MutableSegment::contains. *)
RowIds(seg) == {id \in Id : seg.rows[id] # NoRow}

(* alive_index(id).is_some() *)
Alive(seg, id) == seg.rows[id] # NoRow /\ id \notin seg.deleted

(* total() and alive(): the number of rows, and that less the tombstones. *)
Total(seg) == Cardinality(RowIds(seg))
AliveCount(seg) == Total(seg) - Cardinality(seg.deleted)

-----------------------------------------------------------------------------
(* MutableSegment. *)

EmptyMutable == [rows |-> [id \in Id |-> NoRow], deleted |-> {}]

IsEmpty(m) == RowIds(m) = {}

MutableUpsert(m, batch) ==
    [rows |-> [id \in Id |-> IF batch[id] # NoRow THEN batch[id] ELSE m.rows[id]],
     deleted |-> m.deleted \ BatchIds(batch)]

MutableDelete(m, ids) ==
    [m EXCEPT !.deleted = @ \cup {id \in ids : Alive(m, id)}]

MutableSetPayload(m, ids, payload) ==
    [m EXCEPT !.rows = [id \in Id |-> IF id \in ids /\ Alive(m, id)
                                        THEN [m.rows[id] EXCEPT !.payload = payload]
                                        ELSE m.rows[id]]]

-----------------------------------------------------------------------------
(* ImmutableSegment. *)

(* write_new of a mutable segment's core and tombstones, then open: no     *)
(* overlay file yet.                                                       *)
SegmentOf(m) ==
    [rows |-> m.rows, deleted |-> m.deleted, overlay |-> [id \in Id |-> NoOverlay]]

(* Mutation: no test that the row is there and alive. *)
TombstoneManyUnchecked(seg, ids) == [seg EXCEPT !.deleted = @ \cup ids]

TombstoneMany(seg, ids) ==
    [seg EXCEPT !.deleted = @ \cup {id \in ids : Alive(seg, id)}]

SetOverlayBatch(seg, ids, payload) ==
    [seg EXCEPT !.overlay = [id \in Id |-> IF id \in ids /\ Alive(seg, id)
                                             THEN payload ELSE seg.overlay[id]]]

(* point() and payload_of(): an overlay entry hides the stored payload. *)
PointOf(seg, id) ==
    IF seg.overlay[id] # NoOverlay
      THEN [seg.rows[id] EXCEPT !.payload = seg.overlay[id]]
      ELSE seg.rows[id]

(* Mutation: the test of the tombstone is inverted. *)
LiveRowsInverted(seg) == [id \in Id |-> IF id \in seg.deleted THEN PointOf(seg, id) ELSE NoRow]

(* The live rows with the overlay applied, what compaction keeps. *)
LiveRows(seg) == [id \in Id |-> IF Alive(seg, id) THEN PointOf(seg, id) ELSE NoRow]

(* tombstone_ratio() > REBUILD_TOMBSTONE_RATIO; the ratio of an empty      *)
(* segment is 0.                                                           *)
OverThreshold(seg) == Cardinality(seg.deleted) * RatioDen > Total(seg) * RatioNum
=============================================================================
