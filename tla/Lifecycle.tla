------------------------------ MODULE Lifecycle ------------------------------
(***************************************************************************)
(* A database of several collections over its life: engine.rs from         *)
(* create_collection to drop_collection, the handles clients keep of a     *)
(* collection, the flush that takes all collections at once, and the       *)
(* recovery that brings the collections back.                              *)
(*                                                                         *)
(* A collection object (CollInner) lives as long as somebody has a handle  *)
(* on it, also after its name was dropped or given to another object; its  *)
(* writes reach the log under the name.  Durability has the crash points   *)
(* within the application of one operation and the torn log tail; here an  *)
(* application is one step, and so is the loading of the segments.         *)
(***************************************************************************)
EXTENDS CollView, WalLog, SequencesExt

CONSTANTS
    Name,          \* collection names
    Dim,           \* vector dimensions of the configurations
    StaleHandles,  \* TRUE when clients use handles of dropped collections
    MaxCreates,    \* bound on create_collection
    MaxLsn,        \* bound: calls stop at this LSN
    MaxSegId,      \* bound: flush and compact write segments up to this id
    MaxCrashes     \* bound on crashes

ASSUME StaleHandlesAssumption == StaleHandles \in BOOLEAN
ASSUME NameAssumption == IsFiniteSet(Name)
(* CollectionConfig::new refuses dimension 0 (collection.rs:49). *)
ASSUME DimAssumption == 0 \notin Dim
ASSUME VectorAssumption == Vector # {}

NoEntry == [dim |-> 0, segments |-> <<>>]
NoObj == 0

VARIABLES
    \* on disk
    manifest,   \* last_flushed_lsn, and the entry of each name
    walFile,
    dirs,       \* the seg-N directories, by N
    \* in memory
    objs,       \* the CollInner objects since the last open
    coll,       \* DbInner::collections: the object each name has, or NoObj
    nextSegId,
    nextLsn,
    pc,         \* what the holder of write_mu, or open, does next
    op,         \* the operation in progress
    target,     \* the object it is applied to
    todo,       \* positions still to rebuild
    fresh,      \* new segment of each object, written and not in the manifest
    old,        \* segment directories to remove
    records,    \* open: records still to replay
    \* history
    promised,   \* what the acknowledged calls have made of each name
    excused,    \* the ways in which the log has ceased to be replayable
    creates,
    crashes

disk == <<manifest, walFile, dirs>>
call == <<pc, op, target, todo, fresh, old, records>>
history == <<promised, excused, creates, crashes>>
vars == <<disk, objs, coll, nextSegId, nextLsn, call, history>>

PC == {"down", "replay", "ready", "create", "drop", "apply", "rebuild", "flush_publish",
       "flush_reset", "compact_publish", "clean", "failed"}

NoColl == [dim |-> 0, store |-> [id \in Id |-> NoRow]]
NoOp == [kind |-> "none"]

PS(s) == INSTANCE PointStore WITH store <- s

Object(name, dim, view, segIds) ==
    [name |-> name, dim |-> dim, view |-> view, segIds |-> segIds]

NewRow == [vector |-> CHOOSE v \in Vector : TRUE, payload |-> NoPayload]
BatchOf(ids) == [id \in Id |-> IF id \in ids THEN NewRow ELSE NoRow]

Entry(name) == manifest.colls[name]
IsCurrent(o) == coll[objs[o].name] = o

-----------------------------------------------------------------------------

Init ==
    /\ manifest = [floor |-> 0, colls |-> [n \in Name |-> NoEntry]]
    /\ walFile = <<>>
    /\ dirs = <<>>
    /\ objs = <<>>
    /\ coll = [n \in Name |-> NoObj]
    /\ nextSegId = 1
    /\ nextLsn = 1
    /\ pc = "ready"
    /\ op = NoOp
    /\ target = NoObj
    /\ todo = {}
    /\ fresh = <<>>
    /\ old = {}
    /\ records = <<>>
    /\ promised = [n \in Name |-> NoColl]
    /\ excused = {}
    /\ creates = 0
    /\ crashes = 0

(* The end of a call, or of the replay of one record. *)
Finish ==
    /\ records' = IF records = <<>> THEN <<>> ELSE Tail(records)
    /\ pc' = IF records = <<>> THEN "ready" ELSE "replay"

(* A call that ends with an error: an error during replay ends open. *)
Fail ==
    /\ records' = <<>>
    /\ pc' = IF records = <<>> THEN "ready" ELSE "failed"

(* Wal::append.  An LSN at or below the floor makes open skip the record.  *)
Log(o) ==
    /\ pc = "ready"
    /\ nextLsn <= MaxLsn
    /\ walFile' = Append(walFile, Record(nextLsn, o))
    /\ nextLsn' = nextLsn + 1
    /\ op' = o
    /\ UNCHANGED <<manifest, dirs, objs, coll, nextSegId, todo, fresh, old, records, crashes>>

Reuse == IF nextLsn <= manifest.floor THEN {"lsn"} ELSE {}

-----------------------------------------------------------------------------
(* create_collection and drop_collection. *)

(* Writes of another dimension to the name that a recovery would replay. *)
OfOtherDim(name, dim) ==
    LET live == ToReplay(walFile, manifest.floor)
    IN  {i \in DOMAIN live : /\ live[i].op.kind = "upsert"
                             /\ live[i].op.name = name /\ live[i].op.dim # dim}

Create(name, dim) ==
    /\ creates < MaxCreates
    /\ coll[name] = NoObj
    /\ Log([kind |-> "create", name |-> name, dim |-> dim])
    /\ pc' = "create"
    /\ promised' = [promised EXCEPT ![name] = [NoColl EXCEPT !.dim = dim]]
    /\ excused' = excused \cup Reuse \cup IF OfOtherDim(name, dim) # {} THEN {"dim"} ELSE {}
    /\ creates' = creates + 1
    /\ UNCHANGED target

(* Mutation: the name is bound to the object before its own. *)
CreatePublishOffByOne ==
    /\ pc = "create"
    /\ manifest' = [manifest EXCEPT !.colls[op.name] = [dim |-> op.dim, segments |-> <<>>]]
    /\ objs' = Append(objs, Object(op.name, op.dim, EmptyView, <<>>))
    /\ coll' = [coll EXCEPT ![op.name] = Len(objs)]
    /\ Finish
    /\ UNCHANGED <<walFile, dirs, nextSegId, nextLsn, op, target, todo, fresh, old, history>>

(* create_collection_locked *)
CreatePublish ==
    /\ pc = "create"
    /\ manifest' = [manifest EXCEPT !.colls[op.name] = [dim |-> op.dim, segments |-> <<>>]]
    /\ objs' = Append(objs, Object(op.name, op.dim, EmptyView, <<>>))
    /\ coll' = [coll EXCEPT ![op.name] = Len(objs) + 1]
    /\ Finish
    /\ UNCHANGED <<walFile, dirs, nextSegId, nextLsn, op, target, todo, fresh, old, history>>

(* A log with writes to the name whose creation is not in the log cannot   *)
(* be replayed once the manifest has no entry for the name.                *)
Orphans(name) ==
    LET live == ToReplay(walFile, manifest.floor)
        On(kinds) == {i \in DOMAIN live : live[i].op.name = name /\ live[i].op.kind \in kinds}
    IN  {i \in On({"upsert", "delete"}) : \A k \in On({"create"}) : k > i}

Drop(name) ==
    /\ coll[name] # NoObj
    /\ Log([kind |-> "drop", name |-> name])
    /\ pc' = "drop"
    /\ promised' = [promised EXCEPT ![name] = NoColl]
    /\ excused' = excused \cup Reuse \cup IF Orphans(name) # {} THEN {"orphans"} ELSE {}
    /\ UNCHANGED <<target, creates>>

(* Mutation: the entry stays in the manifest. *)
DropPublishKeepsEntry ==
    /\ pc = "drop"
    /\ coll' = [coll EXCEPT ![op.name] = NoObj]
    /\ old' = ToSet(Entry(op.name).segments)
    /\ IF old' = {} THEN Finish ELSE pc' = "clean" /\ UNCHANGED records
    /\ UNCHANGED <<manifest, walFile, dirs, objs, nextSegId, nextLsn, op, target, todo, fresh,
                   history>>

DropPublish ==
    /\ pc = "drop"
    /\ manifest' = [manifest EXCEPT !.colls[op.name] = NoEntry]
    /\ coll' = [coll EXCEPT ![op.name] = NoObj]
    /\ old' = ToSet(Entry(op.name).segments)
    /\ IF old' = {} THEN Finish ELSE pc' = "clean" /\ UNCHANGED records
    /\ UNCHANGED <<walFile, dirs, objs, nextSegId, nextLsn, op, target, todo, fresh, history>>

(* Mutation: the directories stay. *)
CleanNothing ==
    /\ pc = "clean"
    /\ old' = {}
    /\ IF todo # {} THEN pc' = "rebuild" /\ UNCHANGED records ELSE Finish
    /\ UNCHANGED <<disk, objs, coll, nextSegId, nextLsn, op, target, todo, fresh, history>>

(* remove_dir_all of what the manifest no longer names. *)
Clean ==
    /\ pc = "clean"
    /\ dirs' = [d \in DOMAIN dirs \ old |-> dirs[d]]
    /\ old' = {}
    /\ IF todo # {} THEN pc' = "rebuild" /\ UNCHANGED records ELSE Finish
    /\ UNCHANGED <<manifest, walFile, objs, coll, nextSegId, nextLsn, op, target, todo, fresh,
                   history>>

-----------------------------------------------------------------------------
(* upsert and delete through a handle on object o. *)

Write(o, kind, ids) ==
    /\ IsCurrent(o) \/ StaleHandles
    /\ Log([kind |-> kind, name |-> objs[o].name, dim |-> objs[o].dim, ids |-> ids])
    /\ pc' = "apply"
    /\ target' = o
    /\ promised' = IF ~IsCurrent(o) THEN promised
                   ELSE [promised EXCEPT ![objs[o].name].store =
                           IF kind = "upsert" THEN PS(@)!AfterUpsert(@, BatchOf(ids))
                           ELSE PS(@)!AfterDelete(@, ids)]
    /\ excused' = excused \cup Reuse \cup IF IsCurrent(o) THEN {} ELSE {"stale"}
    /\ UNCHANGED creates

(* apply_upsert and apply_delete, of one id.  The sidecar of the segment   *)
(* that holds it cannot be written when drop_collection has removed the    *)
(* directory: the tombstone stays in memory and the call fails.            *)
Apply ==
    /\ pc = "apply"
    /\ LET obj == objs[target]
           v == obj.view
           goal == IF op.kind = "upsert" THEN ApplyUpsert(v, BatchOf(op.ids))
                   ELSE ApplyDelete(v, op.ids)
           touched == {i \in DOMAIN obj.segIds : goal.immutables[i] # v.immutables[i]}
           written == {obj.segIds[i] : i \in touched}
           PosOf(d) == CHOOSE i \in touched : obj.segIds[i] = d
       IN  IF written \subseteq DOMAIN dirs
             THEN /\ objs' = [objs EXCEPT ![target].view = goal]
                  /\ dirs' = [d \in DOMAIN dirs |->
                                IF d \in written THEN goal.immutables[PosOf(d)] ELSE dirs[d]]
                  /\ IF op.kind = "delete" /\ RebuildList(goal) # {}
                       THEN pc' = "rebuild" /\ todo' = RebuildList(goal) /\ UNCHANGED records
                       ELSE Finish /\ UNCHANGED todo
             ELSE /\ objs' = [objs EXCEPT ![target].view = [goal EXCEPT !.mutable = v.mutable]]
                  /\ Fail
                  /\ UNCHANGED <<dirs, todo>>
    /\ UNCHANGED <<manifest, walFile, coll, nextSegId, nextLsn, op, target, fresh, old, history>>

(* rebuild_segment_locked for the least position left.  It edits the       *)
(* manifest entry that the name has now.  (retain drops every copy of an   *)
(* id; an entry has one, by SegmentsAreOwnedOnce.)                         *)
RebuildOne ==
    /\ pc = "rebuild"
    /\ LET si == Min(todo)
           obj == objs[target]
           merged == Rebuilt(obj.view.immutables[si])
           segs == Entry(obj.name).segments
           oldId == obj.segIds[si]
           new == nextSegId
           Written == [d \in DOMAIN dirs \cup {new} |-> IF d = new THEN SegmentOf(merged) ELSE dirs[d]]
           Replaced == IF oldId \in ToSet(segs)
                         THEN [segs EXCEPT ![SelectInSeq(segs, LAMBDA s : s = oldId)] = new]
                         ELSE Append(segs, new)
           rest == todo \ {si}
       IN  IF si \notin DOMAIN obj.segIds
             THEN /\ todo' = rest
                  /\ IF rest = {} THEN Finish ELSE UNCHANGED <<pc, records>>
                  /\ UNCHANGED <<manifest, dirs, objs, nextSegId, old>>
             ELSE /\ objs' = [objs EXCEPT
                                ![target].view = ApplyRebuild(@, si),
                                ![target].segIds = IF IsEmpty(merged) THEN RemovePosition(@, si)
                                                   ELSE [@ EXCEPT ![si] = new]]
                  /\ IF IsEmpty(merged) THEN UNCHANGED <<dirs, nextSegId>>
                     ELSE dirs' = Written /\ nextSegId' = nextSegId + 1
                  /\ IF Entry(obj.name) = NoEntry
                       THEN Fail /\ todo' = {} /\ UNCHANGED <<manifest, old>>
                       ELSE /\ todo' = rest
                            /\ manifest' = [manifest EXCEPT !.colls[obj.name].segments =
                                 IF IsEmpty(merged) THEN RemoveFirst(segs, oldId)
                                 ELSE Replaced]
                            /\ old' = {oldId}
                            /\ pc' = "clean"
                            /\ UNCHANGED records
    /\ UNCHANGED <<walFile, coll, nextLsn, op, target, fresh, history>>

-----------------------------------------------------------------------------
(* Mutation: only the first collection is flushed before the log is reset. *)
FlushedFirst ==
    LET due == {o \in DOMAIN objs : IsCurrent(o) /\ ~IsEmpty(objs[o].view.mutable)}
    IN  {o \in due : \A p \in due : o <= p}

(* flush_locked: every current object whose mutable segment has rows. *)

Flushed == {o \in DOMAIN objs : IsCurrent(o) /\ ~IsEmpty(objs[o].view.mutable)}

FlushWrite ==
    /\ pc = "ready"
    /\ Flushed # {}
    /\ nextSegId + Cardinality(Flushed) <= MaxSegId + 1
    /\ LET IdOf(o) == nextSegId + Cardinality({p \in Flushed : p < o})
       IN  /\ fresh' = [o \in Flushed |-> IdOf(o)]
           /\ dirs' = [d \in DOMAIN dirs \cup {IdOf(o) : o \in Flushed} |->
                         IF d < nextSegId THEN dirs[d]
                         ELSE SegmentOf(objs[CHOOSE o \in Flushed : IdOf(o) = d].view.mutable)]
           /\ nextSegId' = nextSegId + Cardinality(Flushed)
    /\ pc' = "flush_publish"
    /\ UNCHANGED <<manifest, walFile, objs, coll, nextLsn, op, target, todo, old, records, history>>

FlushPublish ==
    /\ pc = "flush_publish"
    /\ manifest' = [floor |-> nextLsn - 1,
                    colls |-> [n \in Name |->
                      IF coll[n] \in DOMAIN fresh
                        THEN [Entry(n) EXCEPT !.segments = Append(@, fresh[coll[n]])]
                        ELSE Entry(n)]]
    /\ pc' = "flush_reset"
    /\ UNCHANGED <<walFile, dirs, objs, coll, nextSegId, nextLsn, op, target, todo, fresh, old,
                   records, history>>

(* Wal::reset, and the swap of the views. *)
FlushReset ==
    /\ pc = "flush_reset"
    /\ walFile' = <<>>
    /\ objs' = [o \in DOMAIN objs |->
                  IF o \in DOMAIN fresh
                    THEN [objs[o] EXCEPT !.view = ApplyFlush(@, dirs[fresh[o]]),
                                         !.segIds = Append(@, fresh[o])]
                    ELSE objs[o]]
    /\ fresh' = <<>>
    /\ pc' = "ready"
    /\ UNCHANGED <<manifest, dirs, coll, nextSegId, nextLsn, op, target, todo, old, records, history>>

-----------------------------------------------------------------------------
(* compact_locked through a handle on object o. *)

CompactWrite(o) ==
    /\ pc = "ready"
    /\ IsCurrent(o) \/ StaleHandles
    /\ nextSegId <= MaxSegId
    /\ LET obj == objs[o]
           merged == Merged(obj.view)
           ids == IF IsEmpty(merged) THEN <<>> ELSE <<nextSegId>>
       IN  /\ objs' = [objs EXCEPT ![o].view = ApplyCompact(@), ![o].segIds = ids]
           /\ dirs' = [d \in DOMAIN dirs \cup ToSet(ids) |->
                         IF d \in ToSet(ids) THEN SegmentOf(merged) ELSE dirs[d]]
           /\ nextSegId' = nextSegId + Len(ids)
           /\ old' = ToSet(obj.segIds)
    /\ target' = o
    /\ excused' = excused \cup IF IsCurrent(o) THEN {} ELSE {"stale"}
    /\ pc' = "compact_publish"
    /\ UNCHANGED <<manifest, walFile, coll, nextLsn, op, todo, fresh, records, promised, creates,
                   crashes>>

CompactPublish ==
    /\ pc = "compact_publish"
    /\ LET obj == objs[target]
       IN  IF Entry(obj.name) = NoEntry
             THEN Fail /\ old' = {} /\ UNCHANGED manifest
             ELSE /\ manifest' = [manifest EXCEPT !.colls[obj.name].segments = obj.segIds]
                  /\ IF old = {} THEN Finish ELSE pc' = "clean" /\ UNCHANGED records
                  /\ UNCHANGED old
    /\ UNCHANGED <<walFile, dirs, objs, coll, nextSegId, nextLsn, op, target, todo, fresh, history>>

-----------------------------------------------------------------------------
(* The end of the process, and Database::open_inner. *)

LoseMemory ==
    /\ objs' = <<>>
    /\ coll' = [n \in Name |-> NoObj]
    /\ nextSegId' = 0
    /\ nextLsn' = 0
    /\ pc' = "down"
    /\ op' = NoOp
    /\ target' = NoObj
    /\ todo' = {}
    /\ fresh' = <<>>
    /\ old' = {}
    /\ records' = <<>>
    /\ UNCHANGED <<disk, promised, excused, creates>>

Crash ==
    /\ pc \notin {"down", "failed"}
    /\ crashes < MaxCrashes
    /\ crashes' = crashes + 1
    /\ LoseMemory

(* Open has returned an error; it can be tried again. *)
Retry == pc = "failed" /\ LoseMemory /\ UNCHANGED crashes

Loaded(names) == [i \in DOMAIN names |->
    LET ids == Entry(names[i]).segments
    IN  Object(names[i], Entry(names[i]).dim,
               [mutable |-> EmptyMutable, immutables |-> [k \in DOMAIN ids |-> dirs[ids[k]]]], ids)]

(* Mutation: the greatest id in use is handed out again. *)
NextSegIdAtOpenOffByOne(used) == Max({1} \cup used)

(* Manifest::max_segment_id, and the id after it. *)
NextSegIdAtOpen(used) == Max({0} \cup used) + 1

(* The manifest's collections with their segments, then gc_orphan_segments.*)
Open ==
    /\ pc = "down"
    /\ nextLsn' = NextLsnAtOpen(walFile, manifest.floor)
    /\ LET names == SetToSeq({n \in Name : Entry(n) # NoEntry})
           used == UNION {ToSet(Entry(n).segments) : n \in Name}
       IN  IF used \subseteq DOMAIN dirs
             THEN /\ objs' = Loaded(names)
                  /\ coll' = [n \in Name |-> SelectInSeq(names, LAMBDA x : x = n)]
                  /\ nextSegId' = NextSegIdAtOpen(used)
                  /\ dirs' = [d \in used |-> dirs[d]]
                  /\ records' = ToReplay(walFile, manifest.floor)
                  /\ pc' = "replay"
             ELSE pc' = "failed" /\ UNCHANGED <<objs, coll, nextSegId, dirs, records>>
    /\ UNCHANGED <<manifest, walFile, op, target, todo, fresh, old, history>>

(* replay_wal, one record: creating a collection that the manifest has     *)
(* changes nothing, a write to one that is missing is an error, and so     *)
(* (copy_from_slice panics) is overwriting a row of another dimension.     *)
ReplayRecord ==
    /\ pc = "replay"
    /\ records # <<>>
    /\ LET r == Head(records).op
           o == coll[r.name]
           Garbles == /\ r.kind = "upsert"
                      /\ r.dim # objs[o].dim
                      /\ r.ids \cap RowIds(objs[o].view.mutable) # {}
       IN  /\ op' = r
           /\ IF r.kind = "create" /\ o # NoObj THEN Finish /\ UNCHANGED target
              ELSE IF r.kind \in {"create", "drop"}
                THEN pc' = r.kind /\ UNCHANGED <<records, target>>
              ELSE IF o = NoObj THEN Fail /\ UNCHANGED target
              ELSE IF Garbles THEN Fail /\ UNCHANGED target
              ELSE pc' = "apply" /\ target' = o /\ UNCHANGED records
    /\ UNCHANGED <<disk, objs, coll, nextSegId, nextLsn, todo, fresh, old, history>>

ReplayEnd ==
    /\ pc = "replay"
    /\ records = <<>>
    /\ pc' = "ready"
    /\ UNCHANGED <<disk, objs, coll, nextSegId, nextLsn, op, target, todo, fresh, old, records,
                   history>>

(* get, scroll, query, count, and calls that return at once. *)
Read == pc = "ready" /\ UNCHANGED vars

-----------------------------------------------------------------------------

Next ==
    \/ \E name \in Name, dim \in Dim : Create(name, dim)
    \/ CreatePublish
    \/ \E name \in Name : Drop(name)
    \/ DropPublish
    \/ Clean
    \/ \E o \in DOMAIN objs, kind \in {"upsert", "delete"}, id \in Id : Write(o, kind, {id})
    \/ Apply
    \/ RebuildOne
    \/ FlushWrite
    \/ FlushPublish
    \/ FlushReset
    \/ \E o \in DOMAIN objs : CompactWrite(o)
    \/ CompactPublish
    \/ Crash
    \/ Retry
    \/ Open
    \/ ReplayRecord
    \/ ReplayEnd
    \/ Read

Spec == Init /\ [][Next]_vars

-----------------------------------------------------------------------------
(* Properties. *)

Shown(name) ==
    IF coll[name] = NoObj THEN NoColl
    ELSE [dim |-> objs[coll[name]].dim, store |-> LiveStore(objs[coll[name]].view)]

TypeOK ==
    /\ DOMAIN manifest.colls = Name
    /\ \A n \in Name : Entry(n) = NoEntry \/ Entry(n).dim \in Dim
    /\ \A d \in DOMAIN dirs : dirs[d] \in Segment
    /\ \A o \in DOMAIN objs :
         /\ objs[o].name \in Name /\ objs[o].dim \in Dim
         /\ objs[o].view \in View
         /\ Len(objs[o].segIds) = Len(objs[o].view.immutables)
    /\ \A n \in Name : coll[n] \in {NoObj} \cup DOMAIN objs
    /\ \A n \in Name : coll[n] # NoObj => objs[coll[n]].name = n
    /\ pc \in PC

(* README.md:14: the database recovers by itself after a crash.  No        *)
(* history of creates, drops, writes, flushes and compactions leaves a     *)
(* directory that open refuses.                                            *)
OpenSucceeds == pc # "failed"

OpenSucceedsUnlessExcused == excused = {} => OpenSucceeds

(* Between calls, and after every recovery, each name shows what the calls *)
(* acknowledged on its current collection made: dropped collections stay   *)
(* dropped with all their points, a re-created one starts empty, and one   *)
(* collection's flush, rebuild or compaction leaves the others alone.      *)
ShowsWhatWasPromised == pc = "ready" => \A n \in Name : Shown(n) = promised[n]

ShownUnlessExcused == excused = {} => ShowsWhatWasPromised

(* Between calls the manifest lists exactly the collections in memory,     *)
(* with their dimensions and segments, and nobody else's directory is left,*)
(* unless the handle of a dropped collection has been used.                *)
ManifestMirrorsMemory ==
    pc = "ready" /\ "stale" \notin excused =>
      /\ \A n \in Name :
           IF coll[n] = NoObj THEN Entry(n) = NoEntry
           ELSE Entry(n) = [dim |-> objs[coll[n]].dim, segments |-> objs[coll[n]].segIds]
      /\ DOMAIN dirs = UNION {ToSet(Entry(n).segments) : n \in Name}

(* No segment belongs to two collections. *)
SegmentsAreOwnedOnce ==
    \A n, m \in Name :
      \A i \in DOMAIN Entry(n).segments, k \in DOMAIN Entry(m).segments :
        Entry(n).segments[i] = Entry(m).segments[k] => n = m /\ i = k
=============================================================================
