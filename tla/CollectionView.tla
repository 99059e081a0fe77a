--------------------------- MODULE CollectionView ---------------------------
(***************************************************************************)
(* One collection of an open database, as the threads that share it see    *)
(* it: engine.rs with no I/O failure and no crash (Durability adds those). *)
(*                                                                         *)
(* Writers are serialised by DbInner::write_mu.  A flush and a delete that *)
(* rebuilds segments hold write_mu over several critical sections of the   *)
(* collection's view lock, and readers may run in between; upsert releases *)
(* write_mu before it calls flush_locked for an automatic flush, so other  *)
(* writers may run in between.  One action is one critical section of the  *)
(* view lock.                                                              *)
(***************************************************************************)
EXTENDS CollView

CONSTANTS
    Writer,           \* threads that call the writing operations
    NoWriter,         \* write_mu is free
    AutoFlushPoints,  \* DatabaseOptions::auto_flush_points
    MaxSegments       \* bound of the model: upserts stop at this many segments

ASSUME NoWriterAssumption == NoWriter \notin Writer
ASSUME AutoFlushAssumption == AutoFlushPoints \in Nat \ {0}
ASSUME MaxSegmentsAssumption == MaxSegments \in Nat

VARIABLES
    view,     \* CollInner::view
    writeMu,  \* the holder of DbInner::write_mu, or NoWriter
    pc,       \* where each writer is
    staged,   \* flush_locked's staged segment, meaningful at "swap"
    rebuild   \* apply_delete's positions still to rebuild, at "rebuild"

vars == <<view, writeMu, pc, staged, rebuild>>

PC == {"idle",     \* in no call
       "due",      \* upsert has released write_mu and is about to flush
       "swap",     \* flush has written the segment, manifest and WAL
       "rebuild"}  \* delete has tombstoned and has segments to rebuild

NothingStaged == SegmentOf(EmptyMutable)

Free(w) == writeMu = NoWriter /\ pc[w] = "idle"

Goto(w, label) == pc' = [pc EXCEPT ![w] = label]

-----------------------------------------------------------------------------

Init ==
    /\ view = EmptyView
    /\ writeMu = NoWriter
    /\ pc = [w \in Writer |-> "idle"]
    /\ staged = NothingStaged
    /\ rebuild = {}

(* Mutations of an upsert: the threshold is off by one; write_mu is not    *)
(* taken.                                                                  *)
UpsertOffByOne(w, batch) ==
    /\ Free(w)
    /\ BatchIds(batch) # {}
    /\ Len(view.immutables) < MaxSegments
    /\ view' = ApplyUpsert(view, batch)
    /\ IF Total(view'.mutable) > AutoFlushPoints THEN Goto(w, "due") ELSE UNCHANGED pc
    /\ UNCHANGED <<writeMu, staged, rebuild>>

UpsertUnlocked(w, batch) ==
    /\ pc[w] = "idle"
    /\ BatchIds(batch) # {}
    /\ Len(view.immutables) < MaxSegments
    /\ view' = ApplyUpsert(view, batch)
    /\ UNCHANGED <<writeMu, pc, staged, rebuild>>

(* upsert.  The test of approx_bytes against auto_flush_bytes depends on   *)
(* the sizes of payloads, which the model leaves out: its outcome is free. *)
Upsert(w, batch) ==
    /\ Free(w)
    /\ BatchIds(batch) # {}
    /\ Len(view.immutables) < MaxSegments
    /\ view' = ApplyUpsert(view, batch)
    /\ \E bytesReached \in BOOLEAN :
         IF Total(view'.mutable) >= AutoFlushPoints \/ bytesReached
           THEN Goto(w, "due") ELSE UNCHANGED pc
    /\ UNCHANGED <<writeMu, staged, rebuild>>

(* delete.  It keeps write_mu when segments are to be rebuilt. *)
Delete(w, ids) ==
    /\ Free(w)
    /\ ids # {}
    /\ view' = ApplyDelete(view, ids)
    /\ rebuild' = RebuildList(view')
    /\ IF rebuild' = {}
         THEN UNCHANGED <<writeMu, pc>>
         ELSE writeMu' = w /\ Goto(w, "rebuild")
    /\ UNCHANGED staged

(* One iteration of apply_delete's last loop, in increasing position. *)
RebuildSegment(w) ==
    /\ writeMu = w
    /\ pc[w] = "rebuild"
    /\ view' = ApplyRebuild(view, Min(rebuild))
    /\ rebuild' = rebuild \ {Min(rebuild)}
    /\ IF rebuild' = {}
         THEN writeMu' = NoWriter /\ Goto(w, "idle")
         ELSE UNCHANGED <<writeMu, pc>>
    /\ UNCHANGED staged

(* set_payload, and clear_payload with NoPayload. *)
PayloadOp(w, ids, payload) ==
    /\ Free(w)
    /\ ids # {}
    /\ view' = ApplyPayload(view, ids, payload)
    /\ UNCHANGED <<writeMu, pc, staged, rebuild>>

(* flush_locked up to the swap, called by flush or at the end of an upsert:*)
(* the mutable segment is written out as it is now.                        *)
FlushStage(w) ==
    /\ writeMu = NoWriter
    /\ pc[w] \in {"idle", "due"}
    /\ ~IsEmpty(view.mutable)
    /\ staged' = SegmentOf(view.mutable)
    /\ writeMu' = w
    /\ Goto(w, "swap")
    /\ UNCHANGED <<view, rebuild>>

(* flush_locked when there is nothing to stage. *)
FlushNothing(w) ==
    /\ writeMu = NoWriter
    /\ pc[w] = "due"
    /\ IsEmpty(view.mutable)
    /\ Goto(w, "idle")
    /\ UNCHANGED <<view, writeMu, staged, rebuild>>

(* Mutation: write_mu is not released. *)
FlushSwapKeepsLock(w) ==
    /\ writeMu = w
    /\ pc[w] = "swap"
    /\ view' = ApplyFlush(view, staged)
    /\ Goto(w, "idle")
    /\ UNCHANGED <<writeMu, staged, rebuild>>

FlushSwap(w) ==
    /\ writeMu = w
    /\ pc[w] = "swap"
    /\ view' = ApplyFlush(view, staged)
    /\ staged' = NothingStaged
    /\ writeMu' = NoWriter
    /\ Goto(w, "idle")
    /\ UNCHANGED rebuild

(* compact: one critical section of the view. *)
Compact(w) ==
    /\ Free(w)
    /\ view' = ApplyCompact(view)
    /\ UNCHANGED <<writeMu, pc, staged, rebuild>>

WriterStep(w) ==
    \/ \E batch \in Batch : Upsert(w, batch)
    \/ \E ids \in SUBSET Id : Delete(w, ids)
    \/ RebuildSegment(w)
    \/ \E ids \in SUBSET Id, payload \in OptPayload : PayloadOp(w, ids, payload)
    \/ FlushStage(w)
    \/ FlushNothing(w)
    \/ FlushSwap(w)
    \/ Compact(w)

Next == \E w \in Writer : WriterStep(w)

Spec == Init /\ [][Next]_vars

-----------------------------------------------------------------------------
(* Properties. *)

(* The type of each variable, and where write_mu and pc agree: a writer    *)
(* holds the lock exactly between the critical sections of one call.       *)
TypeOK ==
    /\ view \in View
    /\ writeMu \in Writer \cup {NoWriter}
    /\ pc \in [Writer -> PC]
    /\ staged \in Segment
    /\ rebuild \in SUBSET (Nat \ {0})
    /\ \A w \in Writer : writeMu = w <=> pc[w] \in {"swap", "rebuild"}

(* engine.rs:789 and ADR 0002: whatever the order of overwrites, deletes,  *)
(* flushes, rebuilds and compactions, an external id has at most one live  *)
(* row over the mutable segment and all immutable ones.                    *)
AtMostOneAlive ==
    \A id \in Id :
      /\ Alive(view.mutable, id) => Holders(view, id) = {}
      /\ \A i, j \in Holders(view, id) : i = j

(* The number count() adds up over the segments is the number of ids a     *)
(* get() would find, at every point where a reader can take the view lock, *)
(* the middle of a flush or of a delete's rebuilds included.               *)
CountIsLive == Count(view) = Cardinality({id \in Id : LookupPoint(view, id) # NoRow})

(* Once a writer has filled the mutable segment up to auto_flush_points,   *)
(* some writer is on its way to flush it: no interleaving of writers, with *)
(* the lock released between an upsert and its flush, leaves a full        *)
(* mutable segment behind with nobody to flush it.                         *)
OverfullIsBeingFlushed ==
    Total(view.mutable) >= AutoFlushPoints =>
      \E w \in Writer : pc[w] \in {"due", "swap"}

(* What a flush swaps in is what it swaps out: the segment it wrote before *)
(* the manifest and WAL steps still holds every row, tombstone and payload *)
(* of the mutable segment that the swap clears.                            *)
StagedIsCurrent ==
    \A w \in Writer : pc[w] = "swap" => staged = SegmentOf(view.mutable)

(* The inductive invariant behind the others: the views the write path     *)
(* keeps, and the staged segment of a flush.                               *)
Inv == TypeOK /\ WellFormed(view) /\ StagedIsCurrent

(* The collection implements the point store: every step of a writer is    *)
(* one atomic call of the store or, for flushes, rebuilds and compactions, *)
(* invisible.                                                              *)
PS == INSTANCE PointStore WITH store <- LiveStore(view)
ImplementsPointStore == PS!Spec

(* The refinement call by call: the step in which a call takes effect does *)
(* to the store what the call says, to all of its ids, and the steps of    *)
(* flushes, rebuilds and compactions change no row a reader can see.       *)
TakesEffect(w) ==
    /\ \A batch \in Batch : Upsert(w, batch) => PS!Upsert(batch)
    /\ \A ids \in SUBSET Id : Delete(w, ids) => PS!Delete(ids)
    /\ \A ids \in SUBSET Id, payload \in OptPayload :
         PayloadOp(w, ids, payload) => PS!SetPayload(ids, payload)
    /\ RebuildSegment(w) \/ FlushSwap(w) \/ Compact(w) => UNCHANGED LiveStore(view)

CallsTakeEffect == [][\A w \in Writer : TakesEffect(w)]_vars
=============================================================================
