------------------------------- MODULE Faults -------------------------------
(***************************************************************************)
(* The write path of engine.rs when calls of the file system return errors *)
(* and the process goes on: a full disk, as in tests/fault_injection.rs.   *)
(* One collection name; an action is one call of the core, which succeeds  *)
(* or stops at one failing call of Fs or StorageBackend and returns its    *)
(* error.  What the call has done until then, in memory and on disk, stays.*)
(*                                                                         *)
(* Durability has the crashes; here the process stops between calls only,  *)
(* and everything it has written is there when it starts again.            *)
(***************************************************************************)
EXTENDS CollView, WalLog, SequencesExt

CONSTANTS
    Ops,        \* the operations clients may call
    Faults,     \* the I/O calls that may fail, a subset of FaultKind
    MaxLsn,     \* bound: calls stop at this LSN
    MaxSegId,   \* bound: flush and compact write segments up to this id
    MaxFaults,  \* bound on failing I/O calls
    MaxOpens,   \* bound on opens of the directory: the last one is only looked at
    Gone        \* what a name shows that has no collection

Create == [kind |-> "create"]
Drop == [kind |-> "drop"]

Op == {Create, Drop}
      \cup [kind : {"upsert"}, batch : Batch]
      \cup [kind : {"delete"}, ids : SUBSET Id]
      \cup [kind : {"payload"}, ids : SUBSET Id, payload : OptPayload]

(* The write of a WAL frame, of nothing or of a part of it; its sync; the  *)
(* files of a new segment; the manifest; the truncation of the WAL and its *)
(* sync; a sidecar.                                                        *)
FaultKind == {"write", "frame", "sync", "segment", "manifest", "truncate", "resync", "sidecar"}

ASSUME FaultsAssumption == Ops \subseteq Op /\ Faults \subseteq FaultKind
ASSUME FaultBoundsAssumption == {MaxLsn, MaxSegId, MaxFaults, MaxOpens} \subseteq Nat

VARIABLES
    \* on disk
    saved,      \* manifest.json: the segment list of each entry, last_flushed_lsn
    walFile,    \* the frames of the WAL file
    dirs,       \* the seg-N directories, by N
    \* in memory
    manifest,   \* DbInner::manifest
    present,    \* DbInner::collections has the collection
    view,       \* CollInner::view
    segIds,     \* seg_id of each immutable segment of the view
    nextSegId,
    nextLsn,
    pc,         \* "ready", or what a call or open goes on with
    todo,       \* a delete: positions still to rebuild
    records,    \* open: records still to replay
    \* history
    may,        \* what the answers given so far allow: point stores, or Gone
    unsaved,    \* a sidecar write has failed since the last open
    excused,    \* the known ways in which an acknowledged call was lost
    faults,
    opens       \* of the directory, after the first

disk == <<saved, walFile, dirs>>
memory == <<manifest, present, view, segIds, nextSegId, nextLsn>>
call == <<pc, todo, records>>
history == <<may, unsaved, excused, faults, opens>>
vars == <<disk, memory, call, history>>

(* A new database. *)
Init ==
    /\ saved = [entries |-> <<>>, floor |-> 0]
    /\ walFile = <<>>
    /\ dirs = <<>>
    /\ manifest = saved
    /\ present = FALSE
    /\ view = EmptyView
    /\ segIds = <<>>
    /\ nextSegId = 1
    /\ nextLsn = 1
    /\ pc = "ready"
    /\ todo = {}
    /\ records = <<>>
    /\ may = {Gone}
    /\ unsaved = FALSE
    /\ excused = {}
    /\ faults = 0
    /\ opens = 0

(* A client may call. *)
Ready == pc = "ready" /\ opens < MaxOpens

Fails(kind) ==
    /\ kind \in Faults
    /\ faults < MaxFaults
    /\ faults' = faults + 1

NoFault == faults' = faults

Without(ds, ids) == [d \in DOMAIN ds \ ids |-> ds[d]]

-----------------------------------------------------------------------------
(* What the answers allow.  A call that succeeds has happened; one that    *)
(* returns an error has happened as a whole or not at all.                 *)

PS(s) == INSTANCE PointStore WITH store <- s

Empty == [id \in Id |-> NoRow]

After(s, o) ==
    CASE o.kind = "create"  -> Empty
      [] o.kind = "drop"    -> Gone
      [] o.kind = "upsert"  -> PS(s)!AfterUpsert(s, o.batch)
      [] o.kind = "delete"  -> PS(s)!AfterDelete(s, o.ids)
      [] o.kind = "payload" -> PS(s)!AfterSetPayload(s, o.ids, o.payload)

(* The call has happened to something it can happen to. *)
Happened(o) == {After(s, o) : s \in {x \in may : (x = Gone) <=> (o = Create)}}

Shown == IF present THEN LiveStore(view) ELSE Gone

-----------------------------------------------------------------------------
(* The application of an operation to the view and the sidecars. *)

ApplyOp(v, o) ==
    CASE o.kind = "upsert"  -> ApplyUpsert(v, o.batch)
      [] o.kind = "delete"  -> ApplyDelete(v, o.ids)
      [] o.kind = "payload" -> ApplyPayload(v, o.ids, o.payload)

OpIds(o) == IF o.kind = "upsert" THEN BatchIds(o.batch) ELSE o.ids

(* The segments whose sidecar the operation writes. *)
Edited(v, o) ==
    UNION {IF o.kind = "upsert"
             THEN IF v.mutable.rows[id] = NoRow THEN Holders(v, id) ELSE {}
             ELSE IF Alive(v.mutable, id) \/ Holders(v, id) = {} THEN {} ELSE {Min(Holders(v, id))} :
           id \in OpIds(o)}

(* tombstone_many writes the whole bitmap of a segment, set_overlay_batch  *)
(* the whole overlay, as they are in memory: for the segments at positions.*)
WriteSidecars(ds, v, positions, o) ==
    [d \in DOMAIN ds |->
       IF \A i \in positions : segIds[i] # d THEN ds[d]
       ELSE LET seg == v.immutables[CHOOSE i \in positions : segIds[i] = d]
            IN  IF o.kind = "payload" THEN [ds[d] EXCEPT !.overlay = seg.overlay]
                ELSE [ds[d] EXCEPT !.deleted = seg.deleted]]

(* The end of a call, or of the replay of one record. *)
Finish ==
    /\ records' = IF records = <<>> THEN <<>> ELSE Tail(records)
    /\ pc' = IF records = <<>> THEN "ready" ELSE "replay"

(* An error ends the call; in replay it ends open, which has no Database   *)
(* to return.                                                              *)
Return ==
    /\ records' = <<>>
    /\ pc' = IF records = <<>> THEN "ready" ELSE "down"

Apply(o) ==
    /\ view' = ApplyOp(view, o)
    /\ dirs' = WriteSidecars(dirs, view', Edited(view, o), o)
    /\ IF o.kind = "delete" /\ RebuildList(view') # {}
         THEN pc' = "rebuild" /\ todo' = RebuildList(view') /\ UNCHANGED records
         ELSE Finish /\ UNCHANGED todo
    /\ NoFault
    /\ UNCHANGED <<manifest, segIds, nextSegId>>

(* tombstone_many and set_overlay_batch change memory and then write.      *)
(* apply_delete and apply_payload have changed the mutable segment and some*)
(* segments before the one whose sidecar fails.                            *)
EditFails(o) ==
    \E i \in Edited(view, o) : \E done \in SUBSET (Edited(view, o) \ {i}) :
      LET goal == ApplyOp(view, o)
      IN  /\ view' = [goal EXCEPT !.immutables =
                        [j \in DOMAIN @ |-> IF j \in done \cup {i} THEN @[j] ELSE view.immutables[j]]]
          /\ dirs' = WriteSidecars(dirs, goal, done, o)

(* Mutation: the row is written before the old one is tombstoned. *)
UpsertFailsRowFirst(o) ==
    \E id \in BatchIds(o.batch) :
      /\ view.mutable.rows[id] = NoRow
      /\ Holders(view, id) # {}
      /\ view' = [view EXCEPT !.mutable =
                    MutableUpsert(@, [x \in Id |-> IF x = id THEN o.batch[id] ELSE NoRow])]
      /\ dirs' = dirs

(* apply_upsert goes point by point: some are done, and the row of the one *)
(* whose old row cannot be tombstoned on disk is not written.              *)
UpsertFails(o) ==
    \E done \in SUBSET BatchIds(o.batch) : \E id \in BatchIds(o.batch) \ done :
      LET part == [o EXCEPT !.batch = [x \in Id |-> IF x \in done THEN @[x] ELSE NoRow]]
          v == ApplyOp(view, part)
          ds == WriteSidecars(dirs, v, Edited(view, part), part)
      IN  /\ v.mutable.rows[id] = NoRow
          /\ \E i \in Holders(v, id) :
               /\ view' = [v EXCEPT !.immutables =
                             [j \in DOMAIN @ |-> IF j <= i THEN TombstoneMany(@[j], {id}) ELSE @[j]]]
               /\ dirs' = WriteSidecars(ds, view', {j \in Holders(v, id) : j < i}, o)

ApplyFails(o) ==
    /\ Fails("sidecar")
    /\ IF o.kind = "upsert" THEN UpsertFails(o) ELSE EditFails(o)
    /\ Return
    /\ UNCHANGED <<manifest, segIds, nextSegId, todo>>

-----------------------------------------------------------------------------
(* The manifest, and what it and the log say of each other. *)

Segments1(m) == IF m.entries = <<>> THEN <<>> ELSE Head(m.entries)
Named(m) == UNION {ToSet(m.entries[i]) : i \in DOMAIN m.entries}

Log(m) == ToReplay(Intact(walFile), m.floor)

(* The log has a drop, by a call that failed, and the collection is there. *)
Undropped ==
    LET log == Log(saved)
        marks == {i \in DOMAIN log : log[i].op \in {Create, Drop}}
    IN  marks # {} /\ log[Max(marks)].op = Drop

(* The known ways in which the record of an acknowledged call makes that   *)
(* call, or others, unrecoverable: open skips it, or loads an entry over   *)
(* the one of a create that failed, or replays it without a collection.    *)
Excuses(o) ==
    (IF nextLsn <= saved.floor THEN {"lsn"} ELSE {})
    \cup (IF o = Create /\ manifest.entries # <<>> THEN {"twin"} ELSE {})
    \cup (IF o \notin {Create, Drop} /\ Undropped THEN {"undropped"} ELSE {})

(* A drop has saved a manifest over which the log starts with calls on a   *)
(* collection that the log does not create.                                *)
Orphans ==
    IF /\ saved' # saved /\ saved'.entries = <<>>
       /\ Log(saved') # <<>> /\ Head(Log(saved')).op \notin {Create, Drop}
      THEN {"orphans"} ELSE {}

(* The ways in which a save ends what the log would have repaired: it      *)
(* publishes a floor while a sidecar lacks what memory has, or two segments*)
(* that flushes have made of the same mutable segment, since the first one *)
(* failed.  strays are the segments of the manifest that the view lacks.   *)
Published(strays) ==
    (IF unsaved /\ manifest'.floor > saved.floor THEN {"sidecar"} ELSE {})
    \cup (IF Cardinality(strays) > 1 THEN {"twice"} ELSE {})

(* Manifest::save of the manifest in memory. *)
Write(strays) == saved' = manifest' /\ excused' = excused \cup Published(strays)
Save == Write(Named(manifest') \ ToSet(segIds')) /\ NoFault
SaveFails == Fails("manifest") /\ UNCHANGED <<saved, excused>>

-----------------------------------------------------------------------------
(* Wal::append, and the calls that begin with it. *)

LogRecord(o) ==
    /\ Ready
    /\ present <=> o # Create
    /\ nextLsn <= MaxLsn
    /\ walFile' = Append(walFile, Record(nextLsn, o))
    /\ nextLsn' = nextLsn + 1

(* next_lsn stays, and what has reached the file stays. *)
AppendFails(o) ==
    /\ Ready
    /\ present <=> o # Create
    /\ nextLsn <= MaxLsn
    /\ \/ Fails("write") /\ walFile' = walFile
       \/ Fails("frame") /\ walFile' = Append(walFile, Torn)
       \/ Fails("sync") /\ walFile' = Append(walFile, Record(nextLsn, o))
    /\ may' = may \cup Happened(o)
    /\ excused' = excused \cup Excuses(o)
    /\ UNCHANGED <<saved, dirs, memory, call, unsaved, opens>>

(* upsert, delete, set_payload, clear_payload. *)
Call(o) ==
    /\ o \notin {Create, Drop}
    /\ LogRecord(o)
    /\ Apply(o)
    /\ may' = Happened(o)
    /\ excused' = excused \cup Excuses(o)
    /\ UNCHANGED <<saved, present, unsaved, opens>>

(* Mutation: the call is applied before it is logged. *)
CallFailsUnlogged(o) ==
    /\ o \notin {Create, Drop}
    /\ Ready /\ present
    /\ ApplyFails(o)
    /\ may' = may \cup Happened(o)
    /\ unsaved' = TRUE
    /\ UNCHANGED <<saved, walFile, present, nextLsn, excused, opens>>

CallFails(o) ==
    /\ o \notin {Create, Drop}
    /\ LogRecord(o)
    /\ ApplyFails(o)
    /\ may' = may \cup Happened(o)
    /\ unsaved' = TRUE
    /\ excused' = excused \cup Excuses(o)
    /\ UNCHANGED <<saved, present, opens>>

-----------------------------------------------------------------------------
(* create_collection and drop_collection. *)

(* The entry is in the manifest in memory before it is saved. *)
PushEntry == manifest' = [manifest EXCEPT !.entries = Append(@, <<>>)]

(* create_collection_locked *)
CreateLocked ==
    /\ PushEntry
    /\ saved' = manifest'
    /\ present' = TRUE
    /\ view' = EmptyView
    /\ segIds' = <<>>
    /\ NoFault
    /\ Finish
    /\ UNCHANGED <<dirs, nextSegId, todo>>

CreateLockedFails ==
    /\ PushEntry
    /\ Fails("manifest")
    /\ Return
    /\ UNCHANGED <<saved, dirs, present, view, segIds, nextSegId, todo>>

(* All entries of the name leave the manifest; the directories of the first*)
(* one are removed, and the collection leaves the map, when it is saved.   *)
DropLocked ==
    /\ manifest' = [manifest EXCEPT !.entries = <<>>]
    /\ saved' = manifest'
    /\ dirs' = Without(dirs, ToSet(Segments1(manifest)))
    /\ present' = FALSE
    /\ view' = EmptyView
    /\ segIds' = <<>>
    /\ NoFault
    /\ Finish
    /\ UNCHANGED <<nextSegId, todo>>

DropLockedFails ==
    /\ manifest' = [manifest EXCEPT !.entries = <<>>]
    /\ Fails("manifest")
    /\ Return
    /\ UNCHANGED <<saved, dirs, present, view, segIds, nextSegId, todo>>

CreateOrDrop(o) ==
    /\ o \in {Create, Drop}
    /\ LogRecord(o)
    /\ \/ /\ IF o = Create THEN CreateLocked ELSE DropLocked
          /\ may' = Happened(o)
       \/ /\ IF o = Create THEN CreateLockedFails ELSE DropLockedFails
          /\ may' = may \cup Happened(o)
    /\ excused' = excused \cup Excuses(o) \cup Orphans
    /\ UNCHANGED <<unsaved, opens>>

-----------------------------------------------------------------------------
(* New segment directories, and what they replace. *)

Put(id, seg) == [d \in DOMAIN dirs \cup {id} |-> IF d = id THEN seg ELSE dirs[d]]

(* The segment's files cannot be written, or the directory is there and    *)
(* cannot be opened: its id is used up, and no manifest names it.          *)
SegmentFails(seg) ==
    /\ Fails("segment")
    /\ dirs' \in {dirs, Put(nextSegId, seg)}
    /\ nextSegId' = nextSegId + 1

(* The first entry of the name, if there is one, gets another list.        *)
WithFirst(m, segs) == [m EXCEPT !.entries = IF @ = <<>> THEN @ ELSE [@ EXCEPT ![1] = segs]]

(* A rebuild or a compaction has its new segment in the view and asks for  *)
(* the entry of the name, saves and removes what is replaced; or stops.    *)
SaveThenRemove(written, old) ==
    /\ manifest.entries # <<>>
    /\ Save
    /\ dirs' = Without(written, old)

(* Mutation: the old directories are removed before the save. *)
StopsAfterRemove(written, old) ==
    /\ IF manifest.entries = <<>> THEN NoFault /\ UNCHANGED <<saved, excused>> ELSE SaveFails
    /\ dirs' = Without(written, old)

StopsBeforeRemove(written, old) ==
    /\ IF manifest.entries = <<>> THEN NoFault /\ UNCHANGED <<saved, excused>> ELSE SaveFails
    /\ dirs' = written

-----------------------------------------------------------------------------
(* rebuild_segment_locked, for the least position left. *)

RebuildSkip ==
    /\ pc = "rebuild"
    /\ Min(todo) \notin DOMAIN segIds
    /\ todo' = todo \ {Min(todo)}
    /\ IF todo' = {} THEN Finish ELSE UNCHANGED <<pc, records>>
    /\ UNCHANGED <<disk, memory, history>>

(* The new segment takes the place of the old one, or none does.  No id is *)
(* listed twice (FaultsProofs), so the first is all that retain removes.   *)
Replaced(segs, old, new) ==
    IF new = {} THEN RemoveFirst(segs, old)
    ELSE LET id == CHOOSE x \in new : TRUE
         IN  IF old \in ToSet(segs)
               THEN [segs EXCEPT ![SelectInSeq(segs, LAMBDA x : x = old)] = id]
               ELSE Append(segs, id)

RebuildSwap ==
    LET si == Min(todo)
        old == segIds[si]
        merged == Rebuilt(view.immutables[si])
        new == IF IsEmpty(merged) THEN {} ELSE {nextSegId}
        written == IF new = {} THEN dirs ELSE Put(nextSegId, SegmentOf(merged))
        rest == todo \ {si}
    IN  /\ view' = ApplyRebuild(view, si)
        /\ nextSegId' = nextSegId + Cardinality(new)
        /\ segIds' = Replaced(segIds, old, new)
        /\ manifest' = WithFirst(manifest, Replaced(Segments1(manifest), old, new))
        /\ \/ /\ SaveThenRemove(written, {old})
              /\ todo' = rest
              /\ IF rest = {} THEN Finish ELSE UNCHANGED <<pc, records>>
           \/ /\ StopsBeforeRemove(written, {old})
              /\ todo' = {}
              /\ Return

RebuildSegmentFails ==
    /\ LET merged == Rebuilt(view.immutables[Min(todo)])
       IN  ~IsEmpty(merged) /\ SegmentFails(SegmentOf(merged))
    /\ todo' = {}
    /\ Return
    /\ UNCHANGED <<saved, manifest, view, segIds, excused>>

Rebuild ==
    /\ pc = "rebuild"
    /\ Min(todo) \in DOMAIN segIds
    /\ RebuildSwap \/ RebuildSegmentFails
    /\ UNCHANGED <<walFile, present, nextLsn, may, unsaved, opens>>

-----------------------------------------------------------------------------
(* flush_locked: segment, manifest, WAL, view. *)

Flush ==
    /\ Ready
    /\ ~IsEmpty(view.mutable)
    /\ nextSegId <= MaxSegId
    /\ LET seg == SegmentOf(view.mutable)
           Stage == dirs' = Put(nextSegId, seg) /\ nextSegId' = nextSegId + 1
           Publish == /\ manifest.entries # <<>>
                      /\ manifest' = [entries |-> [manifest.entries EXCEPT ![1] = Append(@, nextSegId)],
                                      floor |-> nextLsn - 1]
           strays == Named(manifest') \ ToSet(segIds)
       IN  \/ /\ Stage /\ Publish /\ Write(strays) /\ NoFault
              /\ walFile' = <<>>
              /\ view' = ApplyFlush(view, seg)
              /\ segIds' = Append(segIds, nextSegId)
           \/ /\ Stage /\ Publish /\ Write(strays)
              /\ \/ Fails("truncate") /\ walFile' = walFile
                 \/ Fails("resync") /\ walFile' = <<>>
              /\ UNCHANGED <<view, segIds>>
           \/ /\ Stage /\ Publish /\ SaveFails
              /\ UNCHANGED <<walFile, view, segIds>>
           \/ /\ Stage /\ manifest.entries = <<>> /\ NoFault
              /\ UNCHANGED <<saved, walFile, manifest, view, segIds, excused>>
           \/ /\ SegmentFails(seg)
              /\ UNCHANGED <<saved, walFile, manifest, view, segIds, excused>>
    /\ UNCHANGED <<present, nextLsn, call, may, unsaved, opens>>

-----------------------------------------------------------------------------
(* compact_locked: segment and view, manifest, old directories. *)

Compact ==
    /\ Ready
    /\ present
    /\ nextSegId <= MaxSegId
    /\ LET merged == Merged(view)
           ids == IF IsEmpty(merged) THEN <<>> ELSE <<nextSegId>>
           written == IF IsEmpty(merged) THEN dirs ELSE Put(nextSegId, SegmentOf(merged))
       IN  \/ /\ view' = ApplyCompact(view)
              /\ segIds' = ids
              /\ nextSegId' = nextSegId + Len(ids)
              /\ manifest' = WithFirst(manifest, ids)
              /\ SaveThenRemove(written, ToSet(segIds)) \/ StopsBeforeRemove(written, ToSet(segIds))
           \/ /\ ~IsEmpty(merged)
              /\ SegmentFails(SegmentOf(merged))
              /\ UNCHANGED <<saved, manifest, view, segIds, excused>>
    /\ UNCHANGED <<walFile, present, nextLsn, call, may, unsaved, opens>>

-----------------------------------------------------------------------------
(* Database::open_inner, of a directory whose process has stopped. *)

Lost == \E i, j \in DOMAIN walFile : i < j /\ walFile[i] = Torn /\ walFile[j] # Torn
                                     /\ walFile[j].lsn > saved.floor

(* Of two entries with the name, the last one is the collection. *)
Open ==
    /\ pc \in {"ready", "down"}
    /\ opens < MaxOpens
    /\ opens' = opens + 1
    /\ Named(saved) \subseteq DOMAIN dirs
    /\ LET intact == Intact(walFile)
       IN  /\ walFile' = intact
           /\ nextLsn' = NextLsnAtOpen(intact, saved.floor)
           /\ records' = ToReplay(intact, saved.floor)
    /\ dirs' = [d \in Named(saved) |-> dirs[d]]
    /\ manifest' = saved
    /\ present' = (saved.entries # <<>>)
    /\ segIds' = IF present' THEN Last(saved.entries) ELSE <<>>
    /\ view' = [mutable |-> EmptyMutable,
                immutables |-> [i \in DOMAIN segIds' |-> dirs[segIds'[i]]]]
    /\ nextSegId' = Max({0} \cup Named(saved)) + 1
    /\ pc' = "replay"
    /\ unsaved' = FALSE
    /\ excused' = excused \cup IF Lost THEN {"torn"} ELSE {}
    /\ UNCHANGED <<saved, todo, may, faults>>

(* replay_wal, one record: to create what is there changes nothing, and a  *)
(* record of a collection that is not there ends open, this time and next. *)
ReplayRecord(o) ==
    CASE o = Create /\ present ->
           Finish /\ NoFault /\ UNCHANGED <<saved, dirs, manifest, present, view, segIds, nextSegId, todo>>
      [] o = Create /\ ~present -> CreateLocked \/ CreateLockedFails
      [] o = Drop -> DropLocked \/ DropLockedFails
      [] o \notin {Create, Drop} /\ present ->
           (Apply(o) \/ ApplyFails(o)) /\ UNCHANGED <<saved, present>>
      [] o \notin {Create, Drop} /\ ~present ->
           /\ pc' = "refused" /\ records' = <<>> /\ NoFault
           /\ UNCHANGED <<saved, dirs, manifest, present, view, segIds, nextSegId, todo>>

Replay ==
    /\ pc = "replay"
    /\ records # <<>>
    /\ ReplayRecord(Head(records).op)
    /\ excused' = excused \cup Orphans
    /\ UNCHANGED <<walFile, nextLsn, may, unsaved, opens>>

(* From now on the answers depend on what open has found. *)
ReplayEnd ==
    /\ pc = "replay"
    /\ records = <<>>
    /\ pc' = "ready"
    /\ may' = IF Shown \in may THEN {Shown} ELSE may
    /\ UNCHANGED <<disk, memory, todo, records, unsaved, excused, faults, opens>>

Next ==
    \/ \E o \in Ops : Call(o)
    \/ \E o \in Ops : CallFails(o)
    \/ \E o \in Ops : CreateOrDrop(o)
    \/ \E o \in Ops : AppendFails(o)
    \/ RebuildSkip
    \/ Rebuild
    \/ Flush
    \/ Compact
    \/ Open
    \/ Replay
    \/ ReplayEnd

Spec == Init /\ [][Next]_vars

-----------------------------------------------------------------------------
(* Properties. *)

TypeOK ==
    /\ \A m \in {saved, manifest} : m \in [entries : Seq(Seq(Nat)), floor : Nat]
    /\ \A d \in DOMAIN dirs : dirs[d] \in Segment
    /\ view \in View
    /\ segIds \in Seq(Nat) /\ Len(segIds) = Len(view.immutables)
    /\ ~present => view = EmptyView
    /\ pc \in {"ready", "rebuild", "replay", "down", "refused"}
    /\ may \subseteq Rows \cup {Gone}

(* Whatever I/O call fails, open finds the segments that the manifest      *)
(* names, and the ids it hands out are free.                               *)
SegmentsAreThere ==
    /\ Named(saved) \subseteq DOMAIN dirs
    /\ pc # "down" => \A d \in DOMAIN dirs : d < nextSegId

(* tests/fault_injection.rs:1-3, ADR 0002: after failed calls, and after   *)
(* the next open, the collection shows what the acknowledged calls made,   *)
(* and of each failed one all or nothing.  A failed sidecar write can leave*)
(* half a call in memory; the next open repairs it from the log.           *)
ShowsWhatMayBe ==
    /\ pc # "refused"
    /\ pc = "ready" /\ ~unsaved => Shown \in may

(* The histories in which an acknowledged call is lost are those of the    *)
(* values of excused.                                                      *)
ShowsWhatMayBeUnlessExcused == excused = {} => ShowsWhatMayBe

(* No id has two live rows, whatever failed, in the same histories. *)
OneRowEachUnlessExcused == excused = {} => WellFormed(view)
=============================================================================
