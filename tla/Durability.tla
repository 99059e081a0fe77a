----------------------------- MODULE Durability -----------------------------
(***************************************************************************)
(* The write path of engine.rs on disk: one collection, its directory      *)
(* (manifest, WAL, segment directories with their sidecars) and the steps  *)
(* in which the holder of write_mu changes it, with a crash possible       *)
(* between any two of them, inside a WAL append, and during recovery.      *)
(*                                                                         *)
(* A step is as large as it can be without hiding a crash: it makes at     *)
(* most one change that survives one (a WAL append, an atomic replacement  *)
(* of the manifest or of a sidecar, the rename of a segment directory, the *)
(* removal of one).  What it does in memory before or after that change is *)
(* lost by a crash anyway.  Writers exclude each other by write_mu, so one *)
(* program counter is enough; an automatic flush is a Flush that follows.  *)
(***************************************************************************)
EXTENDS CollView, WalLog, SequencesExt

CONSTANTS
    Ops,         \* the operations clients may call, a subset of ClientOp
    MaxLsn,      \* bound: appends stop at this LSN
    MaxSegId,    \* bound: flush and compact write segments up to this id
    MaxCrashes   \* bound on crashes

ClientOp == [kind : {"upsert"}, batch : Batch]
            \cup [kind : {"delete"}, ids : SUBSET Id]
            \cup [kind : {"payload"}, ids : SUBSET Id, payload : OptPayload]

Op == [kind : {"create"}] \cup ClientOp

(* A call without points returns before it does anything. *)
ASSUME OpsAssumption ==
    Ops \subseteq ClientOp /\ \A o \in Ops : o.kind = "upsert" => BatchIds(o.batch) # {}
ASSUME TornAssumption == Torn \notin [lsn : Nat, op : Op]
ASSUME BoundsAssumption == MaxLsn \in Nat /\ MaxSegId \in Nat /\ MaxCrashes \in Nat

NoSeg == 0

VARIABLES
    \* on disk
    manifest,   \* the collection's segment list and last_flushed_lsn
    walFile,    \* the frames of the WAL file
    dirs,       \* the seg-N directories that exist, by N
    \* in memory
    view,       \* CollInner::view
    segIds,     \* seg_id of each immutable segment of the view
    nextSegId,  \* DbInner::next_seg_id
    nextLsn,    \* Wal::next_lsn
    pc,         \* what the holder of write_mu, or open, does next
    op,         \* the operation being applied
    todo,       \* ids still to upsert, or positions still to rebuild
    fresh,      \* segment written and not yet in the manifest, or NoSeg
    old,        \* segment directories to remove
    records,    \* open: records still to replay, the first one in progress
    \* history
    promised,   \* the point store after every operation whose frame was logged
    reused,     \* an append has used an LSN at or below last_flushed_lsn
    crashes

history == <<promised, reused, crashes>>
memory == <<view, segIds, nextSegId, nextLsn, op, todo, fresh, old, records>>
vars == <<manifest, walFile, dirs, memory, pc, history>>

PC == {"down", "gc", "replay", "ready", "apply", "flush_publish", "flush_reset", "flush_swap",
       "compact_publish", "rebuild", "rebuild_publish", "clean", "failed"}

Create == [kind |-> "create"]

-----------------------------------------------------------------------------
(* What opening the directory would yield: the segments the manifest names *)
(* with their sidecars, and the log replayed over them.                    *)

ApplyOp(v, o) ==
    CASE o.kind = "create"  -> v
      [] o.kind = "upsert"  -> ApplyUpsert(v, o.batch)
      [] o.kind = "delete"  -> ApplyDelete(v, o.ids)
      [] o.kind = "payload" -> ApplyPayload(v, o.ids, o.payload)

PS == INSTANCE PointStore WITH store <- promised

PromisedAfter(o) ==
    CASE o.kind = "upsert"  -> PS!AfterUpsert(promised, o.batch)
      [] o.kind = "delete"  -> PS!AfterDelete(promised, o.ids)
      [] o.kind = "payload" -> PS!AfterSetPayload(promised, o.ids, o.payload)

OnDisk(ids) == [mutable    |-> EmptyMutable,
                immutables |-> [i \in DOMAIN ids |-> dirs[ids[i]]]]

(* after[n]: the view once replay_wal has done with the first n records. *)
Recovered ==
    LET log == Intact(walFile)
        after[n \in 0..Len(log)] ==
            IF n = 0 THEN OnDisk(manifest.segments)
            ELSE IF Skips(log[n], manifest.floor) THEN after[n - 1]
            ELSE ApplyOp(after[n - 1], log[n].op)
    IN  LiveStore(after[Len(log)])

-----------------------------------------------------------------------------

(* A new database in which the collection has just been created. *)
Init ==
    /\ manifest = [segments |-> <<>>, floor |-> 0]
    /\ walFile = <<Record(1, Create)>>
    /\ dirs = <<>>
    /\ view = EmptyView
    /\ segIds = <<>>
    /\ nextSegId = 1
    /\ nextLsn = 2
    /\ pc = "ready"
    /\ op = Create
    /\ todo = {}
    /\ fresh = NoSeg
    /\ old = {}
    /\ records = <<>>
    /\ promised = [id \in Id |-> NoRow]
    /\ reused = FALSE
    /\ crashes = 0

WriteDir(id, seg) == dirs' = [d \in DOMAIN dirs \cup {id} |-> IF d = id THEN seg ELSE dirs[d]]

(* Mutation: the sidecars are not written. *)
WriteSidecarsNot(v) == dirs' = dirs

(* Sidecars of the segments whose memory has changed. *)
WriteSidecars(v) ==
    dirs' = [d \in DOMAIN dirs |->
               IF d \in ToSet(segIds) THEN v.immutables[SelectInSeq(segIds, LAMBDA s : s = d)]
               ELSE dirs[d]]

(* Mutation: the replay does not go on to the next record. *)
FinishRepeats ==
    /\ pc' = IF records = <<>> THEN "ready" ELSE "replay"
    /\ UNCHANGED records

(* The end of a call, or of the replay of one record. *)
Finish ==
    /\ records' = IF records = <<>> THEN <<>> ELSE Tail(records)
    /\ pc' = IF records = <<>> THEN "ready" ELSE "replay"

Begin(o) ==
    /\ op' = o
    /\ todo' = IF o.kind = "upsert" THEN BatchIds(o.batch) ELSE {}
    /\ pc' = "apply"

-----------------------------------------------------------------------------
(* upsert, delete, set_payload, clear_payload: Wal::append, then apply.    *)

Log(o) ==
    /\ pc = "ready"
    /\ nextLsn <= MaxLsn
    /\ walFile' = Append(walFile, Record(nextLsn, o))
    /\ nextLsn' = nextLsn + 1
    /\ promised' = PromisedAfter(o)
    /\ reused' = (reused \/ nextLsn <= manifest.floor)
    /\ Begin(o)
    /\ UNCHANGED <<manifest, dirs, view, segIds, nextSegId, fresh, old, records, crashes>>

(* apply_upsert, one point: the id is alive in one segment at most, whose  *)
(* tombstone sidecar is replaced.                                          *)
UpsertOne(id) ==
    /\ pc = "apply"
    /\ op.kind = "upsert"
    /\ id \in todo
    /\ view' = ApplyUpsert(view, [x \in Id |-> IF x = id THEN op.batch[x] ELSE NoRow])
    /\ WriteSidecars(view')
    /\ todo' = todo \ {id}
    /\ IF todo' = {} THEN Finish ELSE UNCHANGED <<pc, records>>
    /\ UNCHANGED <<manifest, walFile, segIds, nextSegId, nextLsn, op, fresh, old, history>>

(* apply_delete and apply_payload: the segments they edit, one sidecar     *)
(* each.                                                                   *)
Goal == ApplyOp(view, op)
Edited == {i \in DOMAIN segIds : Goal.immutables[i] # view.immutables[i]}

EditSegment(i) ==
    /\ pc = "apply"
    /\ op.kind \in {"delete", "payload"}
    /\ i \in Edited
    /\ view' = [view EXCEPT !.immutables[i] = Goal.immutables[i]]
    /\ WriteSidecars(view')
    /\ UNCHANGED <<manifest, walFile, segIds, nextSegId, nextLsn, pc, op, todo, fresh, old, records, history>>

(* After the last sidecar; a delete goes on to rebuild segments. *)
EditsDone ==
    /\ pc = "apply"
    /\ op.kind \in {"delete", "payload"}
    /\ Edited = {}
    /\ view' = Goal
    /\ IF op.kind = "delete" /\ RebuildList(view') # {}
         THEN pc' = "rebuild" /\ todo' = RebuildList(view') /\ UNCHANGED records
         ELSE Finish /\ UNCHANGED todo
    /\ UNCHANGED <<manifest, walFile, dirs, segIds, nextSegId, nextLsn, op, fresh, old, history>>

-----------------------------------------------------------------------------
(* rebuild_segment_locked, for the least position left.  A position beyond *)
(* the end (an earlier rebuild removed a segment) is skipped.              *)

RebuildSkip ==
    /\ pc = "rebuild"
    /\ Min(todo) \notin DOMAIN segIds
    /\ todo' = todo \ {Min(todo)}
    /\ IF todo' = {} THEN Finish ELSE UNCHANGED <<pc, records>>
    /\ UNCHANGED <<manifest, walFile, dirs, view, segIds, nextSegId, nextLsn, op, fresh, old, history>>

RebuildWrite ==
    /\ pc = "rebuild"
    /\ Min(todo) \in DOMAIN segIds
    /\ LET si == Min(todo)
           merged == Rebuilt(view.immutables[si])
       IN  /\ view' = ApplyRebuild(view, si)
           /\ old' = {segIds[si]}
           /\ todo' = todo \ {si}
           /\ IF IsEmpty(merged)
                THEN /\ segIds' = RemovePosition(segIds, si)
                     /\ UNCHANGED <<dirs, fresh, nextSegId>>
                ELSE /\ WriteDir(nextSegId, SegmentOf(merged))
                     /\ segIds' = [segIds EXCEPT ![si] = nextSegId]
                     /\ fresh' = nextSegId
                     /\ nextSegId' = nextSegId + 1
    /\ pc' = "rebuild_publish"
    /\ UNCHANGED <<manifest, walFile, nextLsn, op, records, history>>

(* The manifest entry takes the new id at the old one's place, or at the   *)
(* end if it does not name the old one, or drops the old id.  (retain      *)
(* drops every copy of it; a list has one, by SegmentsAreListedOnce of     *)
(* DurabilityProofs.)                                                      *)
RebuildPublish ==
    /\ pc = "rebuild_publish"
    /\ LET segs == manifest.segments
           oldId == CHOOSE s \in old : TRUE
       IN  manifest' = [manifest EXCEPT !.segments =
             IF fresh = NoSeg THEN RemoveFirst(segs, oldId)
             ELSE IF oldId \in ToSet(segs)
               THEN [segs EXCEPT ![SelectInSeq(segs, LAMBDA s : s = oldId)] = fresh]
               ELSE Append(segs, fresh)]
    /\ fresh' = NoSeg
    /\ pc' = "clean"
    /\ UNCHANGED <<walFile, dirs, view, segIds, nextSegId, nextLsn, op, todo, old, records, history>>

(* remove_dir_all of the replaced segments, one by one. *)
Clean(id) ==
    /\ pc = "clean"
    /\ id \in old
    /\ dirs' = [d \in DOMAIN dirs \ {id} |-> dirs[d]]
    /\ old' = old \ {id}
    /\ IF old' # {} THEN UNCHANGED <<pc, records>>
       ELSE IF todo # {} THEN pc' = "rebuild" /\ UNCHANGED records
       ELSE Finish
    /\ UNCHANGED <<manifest, walFile, view, segIds, nextSegId, nextLsn, op, todo, fresh, history>>

-----------------------------------------------------------------------------
(* flush_locked: segment, manifest, WAL, view.                             *)

FlushWrite ==
    /\ pc = "ready"
    /\ ~IsEmpty(view.mutable)
    /\ nextSegId <= MaxSegId
    /\ WriteDir(nextSegId, SegmentOf(view.mutable))
    /\ fresh' = nextSegId
    /\ nextSegId' = nextSegId + 1
    /\ pc' = "flush_publish"
    /\ UNCHANGED <<manifest, walFile, view, segIds, nextLsn, op, todo, old, records, history>>

FlushPublish ==
    /\ pc = "flush_publish"
    /\ manifest' = [segments |-> Append(manifest.segments, fresh), floor |-> nextLsn - 1]
    /\ pc' = "flush_reset"
    /\ UNCHANGED <<walFile, dirs, memory, history>>

FlushReset ==
    /\ pc = "flush_reset"
    /\ walFile' = <<>>
    /\ pc' = "flush_swap"
    /\ UNCHANGED <<manifest, dirs, memory, history>>

(* Mutations of the swap: the view does not take the new segment's id; the *)
(* mutable segment is swapped in front of the others.                      *)
FlushSwapForgetsId ==
    /\ pc = "flush_swap"
    /\ view' = ApplyFlush(view, dirs[fresh])
    /\ fresh' = NoSeg
    /\ pc' = "ready"
    /\ UNCHANGED <<manifest, walFile, dirs, segIds, nextSegId, nextLsn, op, todo, old, records, history>>

FlushSwapInFront ==
    /\ pc = "flush_swap"
    /\ view' = [mutable |-> EmptyMutable, immutables |-> <<dirs[fresh]>> \o view.immutables]
    /\ segIds' = <<fresh>> \o segIds
    /\ fresh' = NoSeg
    /\ pc' = "ready"
    /\ UNCHANGED <<manifest, walFile, dirs, nextSegId, nextLsn, op, todo, old, records, history>>

FlushSwap ==
    /\ pc = "flush_swap"
    /\ view' = ApplyFlush(view, dirs[fresh])
    /\ segIds' = Append(segIds, fresh)
    /\ fresh' = NoSeg
    /\ pc' = "ready"
    /\ UNCHANGED <<manifest, walFile, dirs, nextSegId, nextLsn, op, todo, old, records, history>>

-----------------------------------------------------------------------------
(* compact_locked: segment and view, manifest, old directories.            *)

CompactWrite ==
    /\ pc = "ready"
    /\ nextSegId <= MaxSegId
    /\ view' = ApplyCompact(view)
    /\ old' = ToSet(segIds)
    /\ IF IsEmpty(Merged(view))
         THEN /\ segIds' = <<>>
              /\ UNCHANGED <<dirs, fresh, nextSegId>>
         ELSE /\ WriteDir(nextSegId, SegmentOf(Merged(view)))
              /\ segIds' = <<nextSegId>>
              /\ fresh' = nextSegId
              /\ nextSegId' = nextSegId + 1
    /\ pc' = "compact_publish"
    /\ UNCHANGED <<manifest, walFile, nextLsn, op, todo, records, history>>

(* Mutation: the merged segment is added to the old ones. *)
CompactPublishAppends ==
    /\ pc = "compact_publish"
    /\ manifest' = [manifest EXCEPT !.segments = IF fresh = NoSeg THEN @ ELSE Append(@, fresh)]
    /\ fresh' = NoSeg
    /\ pc' = IF old = {} THEN "ready" ELSE "clean"
    /\ UNCHANGED <<walFile, dirs, view, segIds, nextSegId, nextLsn, op, todo, old, records, history>>

CompactPublish ==
    /\ pc = "compact_publish"
    /\ manifest' = [manifest EXCEPT !.segments = IF fresh = NoSeg THEN <<>> ELSE <<fresh>>]
    /\ fresh' = NoSeg
    /\ pc' = IF old = {} THEN "ready" ELSE "clean"
    /\ UNCHANGED <<walFile, dirs, view, segIds, nextSegId, nextLsn, op, todo, old, records, history>>

-----------------------------------------------------------------------------
(* Crashes and Database::open_inner.                                       *)

LoseMemory ==
    /\ crashes < MaxCrashes
    /\ crashes' = crashes + 1
    /\ view' = EmptyView
    /\ segIds' = <<>>
    /\ nextSegId' = 0
    /\ nextLsn' = 0
    /\ op' = Create
    /\ todo' = {}
    /\ fresh' = NoSeg
    /\ old' = {}
    /\ records' = <<>>
    /\ pc' = "down"
    /\ UNCHANGED <<manifest, dirs, promised, reused>>

(* The process dies, or the Database is dropped: nothing is written then.  *)
Crash ==
    /\ pc \notin {"down", "failed"}
    /\ LoseMemory
    /\ UNCHANGED walFile

(* The process dies inside Wal::append.  When all of the frame has reached *)
(* the file this is Log and then Crash.                                    *)
CrashInAppend ==
    /\ pc = "ready"
    /\ nextLsn <= MaxLsn
    /\ LoseMemory
    /\ walFile' = Append(walFile, Torn)

Open ==
    /\ pc = "down"
    /\ LET intact == Intact(walFile)
       IN  /\ walFile' = intact
           /\ nextLsn' = NextLsnAtOpen(intact, manifest.floor)
           /\ IF ToSet(manifest.segments) \subseteq DOMAIN dirs
                THEN /\ view' = OnDisk(manifest.segments)
                     /\ segIds' = manifest.segments
                     /\ nextSegId' = Max({0} \cup ToSet(manifest.segments)) + 1
                     /\ records' = intact
                     /\ pc' = "gc"
                ELSE pc' = "failed" /\ UNCHANGED <<view, segIds, nextSegId, records>>
    /\ UNCHANGED <<manifest, dirs, op, todo, fresh, old, history>>

(* Mutation: nothing is removed. *)
GcOrphansKeepsAll ==
    /\ pc = "gc"
    /\ pc' = "replay"
    /\ UNCHANGED <<manifest, walFile, dirs, memory, history>>

GcOrphans ==
    /\ pc = "gc"
    /\ dirs' = [d \in DOMAIN dirs \cap ToSet(manifest.segments) |-> dirs[d]]
    /\ pc' = "replay"
    /\ UNCHANGED <<manifest, walFile, memory, history>>

(* replay_wal.  Records that are in the segments are skipped; the          *)
(* collection exists, so its creation changes nothing.                     *)
ChangesNothing(record) == Skips(record, manifest.floor) \/ record.op = Create

ReplaySkip ==
    /\ pc = "replay"
    /\ records # <<>>
    /\ ChangesNothing(Head(records))
    /\ records' = Tail(records)
    /\ UNCHANGED <<manifest, walFile, dirs, view, segIds, nextSegId, nextLsn, pc, op, todo,
                   fresh, old, history>>

ReplayRecord ==
    /\ pc = "replay"
    /\ records # <<>>
    /\ ~ChangesNothing(Head(records))
    /\ Begin(Head(records).op)
    /\ UNCHANGED <<manifest, walFile, dirs, view, segIds, nextSegId, nextLsn, fresh, old, records, history>>

ReplayEnd ==
    /\ pc = "replay"
    /\ records = <<>>
    /\ pc' = "ready"
    /\ UNCHANGED <<manifest, walFile, dirs, memory, history>>

(* get, scroll, query, count and a flush with nothing to flush. *)
Read == pc = "ready" /\ UNCHANGED vars

-----------------------------------------------------------------------------

Step ==
    \/ \E id \in Id : UpsertOne(id)
    \/ \E i \in DOMAIN segIds : EditSegment(i)
    \/ EditsDone
    \/ RebuildSkip
    \/ RebuildWrite
    \/ RebuildPublish
    \/ \E id \in old : Clean(id)
    \/ FlushPublish
    \/ FlushReset
    \/ FlushSwap
    \/ CompactPublish
    \/ Open
    \/ GcOrphans
    \/ ReplaySkip
    \/ ReplayRecord
    \/ ReplayEnd

Next ==
    \/ \E o \in Ops : Log(o)
    \/ FlushWrite
    \/ CompactWrite
    \/ Step
    \/ Crash
    \/ CrashInAppend
    \/ Read

Spec == Init /\ [][Next]_vars

(* A call, and an open, goes on to its next step. *)
FairSpec == Spec /\ WF_vars(Step)

-----------------------------------------------------------------------------
(* Properties. *)

TypeOK ==
    /\ manifest \in [segments : Seq(Nat), floor : Nat]
    /\ DOMAIN dirs \subseteq Nat \ {NoSeg}
    /\ \A d \in DOMAIN dirs : dirs[d] \in Segment
    /\ view \in View
    /\ segIds \in Seq(Nat)
    /\ Len(segIds) = Len(view.immutables)
    /\ nextSegId \in Nat /\ nextLsn \in Nat /\ fresh \in Nat
    /\ pc \in PC
    /\ op \in Op
    /\ todo \subseteq Id \/ todo \subseteq Nat
    /\ old \subseteq Nat

(* Whatever a crash would interrupt, the directory of each segment that the*)
(* manifest names is there, and open never fails on it.  The ids that open *)
(* hands out again, those of the orphans of crashed flushes, compactions   *)
(* and rebuilds, are free on disk before the first segment is written.     *)
SegmentsAreThere ==
    /\ ToSet(manifest.segments) \subseteq DOMAIN dirs
    /\ pc # "failed"
    /\ pc \notin {"down", "gc"} => \A d \in DOMAIN dirs : d < nextSegId

(* Between calls the manifest, the directories and their sidecars are      *)
(* those of the segments in memory, and no other directory is left.        *)
DiskMirrorsMemory ==
    pc = "ready" =>
      /\ manifest.segments = segIds
      /\ DOMAIN dirs = ToSet(segIds)
      /\ \A i \in DOMAIN segIds : dirs[segIds[i]] = view.immutables[i]

(* Recovery starts from segments that a crash left at any step and replays *)
(* operations some of them already contain; the views it goes through, and *)
(* ends with, still hold at most one live row per id.                      *)
RecoveredViewsAreWellFormed == WellFormed(view)

(* LSNs increase along the file. *)
LsnsIncrease ==
    LET intact == Intact(walFile)
    IN  \A i, j \in DOMAIN intact : i < j => intact[i].lsn < intact[j].lsn

(* ADR 0002: what a crash now would recover is what the logged operations  *)
(* made, at every step of every call and of recovery itself: nothing       *)
(* acknowledged is lost, nothing deleted returns.                          *)
Durable == Recovered = promised

(* The same as long as no append has been given an LSN at or below         *)
(* last_flushed_lsn, which makes open skip its record.                     *)
DurableUnlessLsnReused == ~reused => Durable

(* Between calls, and after recovery from a crash at any step, the         *)
(* collection shows what the logged operations made.  The same exception.  *)
ShowsWhatWasLogged == pc = "ready" /\ ~reused => LiveStore(view) = promised

(* Every call ends and every open succeeds, if crashes stop. *)
CallsEnd == pc # "ready" ~> pc = "ready"
=============================================================================
