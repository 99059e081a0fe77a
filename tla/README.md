# A TLA+ verification of vectordb

This directory specifies the core of the vector database, the crate under
`src/crates/core`, in TLA+, model-checks it with TLC and proves part of it with
TLAPS. Every definition is translated from the Rust source; `PROJECT.json`
maps each one to the lines it stands for, lists the runs, the hazards they are
aimed at, and what they found.

Paths below are relative to `src/crates/core/src` unless they start with
`src/`. ADR 0002 is `src/docs/adr/0002`.

## The system

A *database* is a directory (or an in-memory file system): a manifest, a
write-ahead log (WAL) and segment directories. It holds named *collections* of
*points*: an external id, a vector of the collection's dimension and an
optional JSON payload. It runs inside the process of its clients: threads call
it through `Collection` handles.

| Component | State | Operations | Interacts with |
|---|---|---|---|
| Segments (`segment/`) | rows, tombstones, payload overlay, and an index for large ones; one mutable segment in memory, immutable ones on disk with two small rewritable sidecars | upsert, delete, set_payload; tombstone_many, set_overlay_batch, write_new, open | storage; indexes |
| Collection view and write path (`engine.rs`) | `CollView`, the mutable and the immutable segments, behind an `RwLock`; `write_mu` serialises the writers of all collections | upsert, delete, set_payload, clear_payload, flush, automatic flush, compact, rebuild of a single segment | WAL first, then segments, then manifest |
| Readers (`engine.rs`) | none; each takes the view lock, some twice | get, count, scroll, query | view, filters, indexes |
| WAL (`wal.rs`) | a file of records framed by length and CRC, `next_lsn` | open (replay, truncation of a bad tail), append, reset | storage |
| Manifest (`manifest.rs`) | collections, their segment lists, `last_flushed_lsn` | load, save (atomic replacement) | storage |
| Lifecycle (`engine.rs`) | the map of collections; handles hold weak references to the database | open, create_collection, drop_collection | all of the above |
| Indexes (`index/`) | none (flat), the graph (HNSW) | build, search, serialize, load | segments |
| Filters (`filter.rs`) | none | eval, JSON form | readers |
| Kernels (`kernel.rs`) | none | distances, norms | indexes |
| Storage (`storage/`) | files | append, truncate, sync, rename, atomic_write | |
| Server, CLI, wasm (`src/crates/*`) | none | thin translations around the core | core |

**Write path.** A writer takes `write_mu`, appends one record to the WAL
(synced), and applies it to the view. An upsert overwrites the row of the
mutable segment, or tombstones the row of an immutable one and appends a new
one to the mutable segment. A delete tombstones, and rebuilds each segment
whose tombstones exceed 30 % of its rows. A payload operation changes a row of
the mutable segment or the overlay of an immutable one. When the mutable
segment is full, the upsert releases `write_mu` and flushes.

**Flush.** For each collection of the database: write the mutable segment as a
new segment directory (temporary name, then rename); then, once: save the
manifest with the new lists and `last_flushed_lsn`, reset the WAL, swap the
views. **Compact** merges all rows of one collection into one segment, replaces
the list in the manifest and removes the old directories.

**Recovery.** Open loads the manifest and its segments with their sidecars,
removes directories no manifest entry names, and replays the WAL's records
above `last_flushed_lsn` through the same functions as the write path.

**What is hard.** A flush and a delete let go of the view lock between their
critical sections, an upsert lets go of `write_mu` before its flush; a write
changes up to four things on disk one after another, and a crash can come
between any two or inside one; sidecars survive a crash although the operation
that wrote them is still in the log, so replay meets segments that already
contain what it replays; a log of several collections is cut by one LSN;
handles outlive their collection. A call of the file system may fail, a full
disk for instance: the call of the database returns the error with half of its
changes made, in memory, on disk or both, the process goes on, and the client
may call again. In the HNSW graph, links are chosen again and
again while levels grow. There are no messages and no timeouts, and nothing
here loses or duplicates calls. The only retry inside the code is that of a query
with a wider search.

**What makes each part correct.**

- Write path: it implements a map from ids to rows, at every point where a
  reader can take the lock; an id has at most one live row; counts are exact; a
  full mutable segment gets flushed.
- WAL and recovery: at every moment a crash would recover what the logged
  operations made; LSNs increase; open never fails on what the program left
  behind; ids of segments are not handed out twice.
- Lifecycle: each name shows what the calls on its present collection made;
  manifest, memory and directories agree.
- Readers: pages of a scroll are complete and disjoint while nobody writes; a
  query returns the best points of the filter.
- HNSW: links stay on their level and within their degrees, every level can be
  entered, the file gives the index back, a query fills up its answer.
- Filters: evaluation is the same after a trip through JSON; a missing field
  matches nothing.

## Modules

| Module | Models | State and actions |
|---|---|---|
| `Segments` | both kinds of segment, as values | operators only |
| `PointStore` | the abstract specification of a collection | `store`, a map from ids to rows; `Upsert`, `Delete`, `SetPayload` |
| `CollView` | the functions `apply_*` of `engine.rs` on a view | operators only |
| `CollectionView` | one collection, its writers and locks | `view`, `write_mu`, a program counter per writer; one action per critical section of the view lock |
| `CollViewLemmas` | | lemmas about `CollView`'s operators, lists of ids, counting and loops, for the proofs about the modules that extend `CollView` |
| `CollectionViewProofs` | | theorems about `CollectionView` and `ApplyLoops` |
| `ApplyLoops` | the loops of `apply_*` and `compact_locked` over lists, id by id, duplicates included | the views that two batches reach; a reference check of `CollView`'s operators |
| `WalLog` | the WAL file | operators: what open keeps, replays and hands out |
| `Durability` | one collection on disk | `manifest`, `walFile`, `dirs` on disk, `view`, `segIds`, `nextSegId`, `nextLsn` in memory, one program counter; one action per change that survives a crash, and `Crash`, `CrashInAppend`, `Open`, `GcOrphans`, replay |
| `DurabilityProofs` | | theorems about `Durability` |
| `Lifecycle` | several collections, drops, handles, open | as `Durability`, with collection objects, names and an entry per name; an application is one step |
| `LifecycleProofs` | | theorems about `Lifecycle` |
| `Faults` | one name, with I/O calls that fail and a process that goes on | `saved`, `walFile`, `dirs` on disk, `manifest`, `view`, `segIds` and counters in memory; `may`, what the answers so far allow; one action per call, which succeeds or stops at one failing I/O call, and `Open`, replay |
| `FaultsProofs` | | theorems about `Faults` |
| `Listing` | a finite set as a sequence, in a strict order | operators only |
| `Readers` | scroll and query over segments that keep the order of their rows | `mutable`, `immutables`, a scroll in progress; one action per call of the core |
| `ReadersProofs` | | theorems about `Readers` |
| `Hnsw` | insertion and query of the HNSW index | `pos` (the vectors), `graph`; one action, an insertion of any level |
| `HnswFile` | `index.bin`, and the properties of the index | operators |
| `SegmentStore` | the abstract specification of the directories of segments | `made`, whole segments by id, and `named`, those in the manifest |
| `SegmentFiles` | `atomic_write`, `write_new`, `install_index`, sidecars, publication, removal and `gc_orphan_segments`, file by file | `staged` and `dirs`, the files and `*.tmp` files of each `seg-N.tmp` and `seg-N`, the manifest's ids on disk and in memory, and the call in progress; one action per call of `Fs`, `Fail`, `Crash` |
| `SegmentFilesProofs` | | theorems about `SegmentFiles` |
| `Kernel` | the loops of `dot` and `l2_sq` | the components in each lane of each register and in the sum; one action per step of a loop |
| `IndexProofs` | | theorems about `Hnsw`, `HnswFile` and `Kernel` |
| `Filter` | conditions, evaluation, JSON | `cond`, built up by the builders |
| `MC...` | instances for TLC | values of constants, symmetry |

`CollView` extends `Segments`; `CollectionView`, `Durability`, `Lifecycle` and
`Faults` extend `CollView`, so that the four use the same translation of the write
path; the last three extend `WalLog` too. `CollectionView`, `Durability` and
`Faults` instantiate `PointStore`: the first as the specification it implements, the
others to compute what the operations ought to have made. `ApplyLoops` extends
`CollectionView`, and its properties are checked in the run of that module. `HnswFile`
extends `Hnsw`; `Hnsw` and `Readers` extend `Listing`. `SegmentFiles` implements `SegmentStore`. It is what allows
`Durability`, `Lifecycle` and `Faults` to write, replace and read a segment
directory in one step.

Abstractions that are worth knowing when reading them:

- In `Segments` a segment is a function from ids to rows with a set of
  tombstoned ids, since it never has two rows of one id. The order of the rows
  matters to scroll and to ties of a query only; `Readers` keeps it, and has
  upsert, delete, flush, rebuild and compact once more, over rows in order.
- The set-level operators (`ApplyUpsert`, `ApplyDelete`, ...) replace loops over
  lists. That they compute the same, with ids listed twice and ids moved by an
  earlier entry of the same list, is what `ApplyLoops` checks.
- `Durability` groups what a step does in memory with the one change of the
  step that survives a crash: what is in memory only is lost by a crash anyway.
- Whether an upsert reaches `auto_flush_bytes` depends on the size of payloads,
  which are model values: the outcome is free.
- In `Hnsw` a vector is one integer and keys are exact; the level of a node,
  which the code draws from a seeded generator, is free. Heaps are sets with the
  total order of `Kf`.
- In `Readers` a point is an id and a vector, a number whose distance to the
  query's is the score; the vector of a query may be that of a point which
  somebody has read before and changed or deleted since, as in a query by id,
  whose own point is left out. A filter is the set of points that pass.
  Conditions themselves are in `Filter`.
- `Faults` has no crashes and `Durability` no failing calls: a crash comes down to
  calls that fail until the process stops, except that `Faults` lets a call
  fail at one place only. `MaxFaults` calls may fail in a row.
- In `Kernel` a lane of a register is the set of the components it has added up;
  in which order is left out, and with it all rounding.

Operators named after a definition with a word added, and preceded by
"Mutation", are slips of the code kept to show that a property can fail; no
specification uses them.

## Runs

| Run | Module, cfg | Shows |
|---|---|---|
| `collection_view` | `MCCollectionView` | Two writers, two ids, a row with and without payload, two segments, automatic flush at two rows. Types, at most one live row per id, exact counts in the middle of flushes and rebuilds, a full mutable segment has somebody to flush it, a flush swaps what it staged; the collection implements `PointStore`, and each call has on the store the effect it should have, at one point. On every view that it reaches, and every list of up to three entries, each loop of `ApplyLoops` computes its set-level operator; also the counts that delete and the payload operations return |
| `durability` | `MCDurability` | Up to two crashes between any two steps, also during recovery. Segments that the manifest names are there and the ids handed out are free, disk mirrors memory between calls, recovered views are well formed, LSNs increase, recovery would give what was logged at every step, and gives it (these two unless an LSN was reused, see below); every call and every open comes to its end (liveness) |
| `lifecycle` | `MCLifecycle` | Two names, two creations in two dimensions, drops, writes, flushes and compactions, through present handles and those of dropped collections, and a crash: open succeeds, each name shows what was promised, manifest and directories mirror memory, no segment has two owners. The first three in histories that do not run into the observations below |
| `faults` | `MCFaults` | Two failing calls, of the log (nothing or a part of a frame written, sync, truncation), of a segment's files, of the manifest or of a sidecar, in creates, drops, writes, flushes, rebuilds, compactions and in the replay of up to two opens. Segments that the manifest names are there and the ids handed out are free; apart from the histories below, a collection shows what the acknowledged calls made and of each failed call all or nothing, and no id has two live rows |
| `readers` | `MCReaders` | Three points with two scores, so that ties occur within and between segments, and any of them may pass the filter of a scroll. Pages of 0 (taken as 1) and 2 are complete and disjoint, flushes between them included; every query, by vector or by id, is right for every k below the number of points, with a threshold or without, with and without a filter |
| `hnsw` | `MCHnsw` | Four nodes, three coordinates on both sides of the origin (equal vectors included), three levels, one link per node above layer 0 and two in it, so that links overflow and are chosen again; by inner product, where a node need not be nearest to itself. Degrees, links on their level and the entry on top (`GraphIsLayered`), layers, and what loading the file gives; for k of 1 and 3 and filters that all rows or one row pass, an answer is filled up with reachable rows, a wide one is exact, retries find nothing |
| `filter` | `MCFilter` | Conditions of up to four parts over numbers, strings, null and arrays: a trip through JSON keeps their meaning unless they contain `any`; a missing field matches nothing |

Five runs find a property that the documentation or a test states violated by
what the code does, with a counterexample:

| Run | Property | What happens |
|---|---|---|
| `lsn_reused` | `Durable` | After a flush and a reopen the WAL is empty and hands out `last_flushed_lsn` again (`wal.rs:130`): the next acknowledged operation is skipped by the recovery after it |
| `drop_then_open` | `OpenSucceeds` | Flush, write, drop, crash: replay meets the write, the manifest has no collection for it, open fails for good (`engine.rs:700`) |
| `hnsw_reload` | `LoadsBack` | A node alone on the highest level has no places for links there, its file says it has, and cannot be loaded (`index/hnsw/graph.rs:161`, `index/hnsw/mod.rs:89`) |
| `filter_any` | `JsonKeepsMeaning` | An `any` condition is read back as `all`; the documented JSON forms do not parse (`filter.rs:37`) |
| `torn_append` | `ShowsWhatMayBe` | An append fails after a part of its frame is in the file; the next one, which is acknowledged, goes behind it (`wal.rs:165`) and is cut off with it by the next open (`wal.rs:118`) |

On `hnsw_reload`: with the fixed seed and the default `m` of 16, the levels of
the rows are the same for every segment. Row 136 is the first of level 2 and row
320 the second; row 1393 is the first of level 3 and row 1758 the second. By
the model, segments of 137 to 320 and of 1394 to 1758 rows have a lonely
highest node; the regression test at `index/hnsw/mod.rs:378` builds one of 600.
On `hnsw`: `RetriesFindNothing` shows that the wider retries of a query
(`index/hnsw/mod.rs:207`) never change its answer. A search that returned fewer
than k rows has not been cut short by its width; it has seen all it can reach.

The properties whose names end in `Unless...` say that nothing *else* goes
wrong: `reused` and `excused` record that a history has run into one of the
observations, and the property speaks of all the others. In `Lifecycle`, `excused` has one value
for each: `lsn`, an LSN under the floor; `orphans`, a drop of a collection with
writes in the log whose creation is not; `stale`, a call through the handle of a
dropped collection; `dim`, a name created again in another dimension while
writes in the old one are in the log. (Replay applies these to the new
collection, whose entry the manifest already has, and panics in
`copy_from_slice` when one overwrites another, `segment/mutable.rs:55`.)
`stale` is about `engine.rs:999`: a compaction through the handle of a dropped
collection replaces the segment list of the one that has its name now.

In `Faults` there are `lsn` and `orphans` again, and:

- `torn`: acknowledged records behind a torn frame (the run `torn_append`);
- `sidecar`: a sidecar could not be written, the call that was tried again
  succeeded without writing it, since memory had the change already, and a flush took the records
  out of the log. The next open shows the deleted points again
  (`segment/immutable.rs:297` calls the operation idempotent);
- `twice`: a flush failed at the manifest or after it, and the next one wrote the same rows again.
  Both segments are listed, an id has two live rows at the next open, and
  `count` says more than `get` finds (`engine.rs:923`; `src/crates/core/tests/fault_injection.rs:150`
  says that they agree whatever the path);
- `twin`: a create failed at the manifest, its entry stayed, and the one that was tried again
  added another (`engine.rs:631`);
- `undropped`: the record of a drop is in the log though the call failed, the collection
  goes on, and the next open drops it with all that was written since.

Seen while modelling, and kept as comments rather than runs of their own:

- A delete that empties a segment and degrades a later one rebuilds by stale
  positions and leaves the later one as it is (`engine.rs:813`). The data stay
  right, as `CallsTakeEffect` shows.
- `delete` counts an id of an immutable segment as often as it is listed
  (`engine.rs:789`), so `DeleteLoopIsBatch` speaks of its count on lists without
  duplicates.
- A compaction between two pages of a scroll reverses the order of the segments
  (`engine.rs:425`, `engine.rs:946`), so that one point is shown twice and
  another not at all, though no point was written.
- `set_payload` with a JSON null is no payload after the next open
  (`segment/immutable.rs:185`).
- An upsert that fails at the tombstone of the old row leaves its point without
  any live row until the next open (`engine.rs:771`). `ShowsWhatMayBe` speaks of
  states in which no sidecar is unsaved.
- Replay applies upserts through the same function as the write path and ignores
  that the mutable segment has become full: no flush follows.
- `gc_orphan_segments` ignores errors (`engine.rs:680`). A `seg-N.tmp` that it
  cannot remove is written to again when N is handed out again, and a file of
  tombstones from before stays in it. `SegmentFiles` assumes that gc removes
  what it should.
- `Fs::rename` asks for a target that does not exist (`storage/mod.rs:52`), and
  `atomic_write` renames to one that does. For directories the code does as
  asked (`RenamesMeetNothing`).
- `NativeFs::open_rw` creates a file that is missing (`storage/file.rs:17`), and
  `MemoryFs::open_rw` fails. By `NamedSegmentsCanLoad` open reads no missing file.
- `select_heuristic` fills up with discarded candidates
  (`index/hnsw/traversal.rs:243`); its comment says that it does not.

### Bounds

Every bound is a named constant: `MaxSegments` (upserts, or in `Readers` flushes,
stop at so many segments), `MaxLsn` (appends), `MaxSegId` (flushes and compactions; a rebuild may go
beyond it, once per segment, so it stays finite), `MaxCrashes`, `MaxCreates`,
`MaxBatch` (entries of a list), `MaxFaults` (failing calls) and `MaxOpens` (of a
directory that has been in use), `MaxSize` (parts of a condition), `Count` and
`MaxLevel` of the graph (`MaxLevel` is also a constant of the code). In `Readers`,
`MaxRows` counts the rows of all segments, dead ones included: six let each of
the three points have a dead copy beside the live one. One vector is searched with
(`Target`), since only the scores matter to a query, and k is 1 or 2 (`TopK`),
below the number of points.

They are as small as the cases allow. Two ids are enough for a segment to be
partly dead, for two ids to interfere, and for one delete to empty two segments,
the second of which the first rebuild moves. At 30 %, one dead row of two or
three makes a segment degraded. Two crashes let the second one hit the recovery
from the first. Three LSNs after the creation let an operation be flushed, a
second one be logged and a third one use the log after a reopen; five in
`lifecycle` are a creation, a write, a drop, a second creation and a write. In `faults`, two
failing calls let one fail that the client has tried again, and two opens let the
second one find what the first has left; four LSNs are a creation and three
calls. In the
graph, a degree of 1 above and 2 in layer 0 overflows with the third and the
fourth node; levels 0, 1 and 2 give an entry that is short by one and by two.

Symmetry is used for ids (in `MCCollectionView`, `MCLifecycle` and `MCReaders`)
and writers, which no definition tells apart. `collection_view` has two
properties beside the invariants, a refinement and an action property; both are
safety.

The clients of `Readers` do not write in the middle of a scroll, of which the
code promises nothing then; flushes come at any time.

Deadlock is checked in all runs but those of `Hnsw`, `Filter` and `Faults`, which stop
where the code does: a graph when all rows are inserted, a condition when the
client has put it together, a directory that does not open any more or was opened for the last time.

### Fairness

`CallsEnd` holds under weak fairness of `Step` in `Durability`: a thread that
holds `write_mu`, or is in open, goes on to its next step. Nothing it does waits
for another thread, except for locks that are held for the length of a step;
the scheduler of the operating system is all the code relies on. No fairness
is assumed of clients, who need not call, nor of crashes. The other properties
are of safety.

## Proofs

TLC checks the properties on the small instances above; the theorems below hold
for every value of the constants. In each case TLC has first checked that the
inductive invariant holds on the instance of the run.

### One collection: `CollectionViewProofs`

For any finite set of ids, any vectors, payloads, writers, thresholds and ratio:

| Theorem | States |
|---|---|
| `Invariance` | `Spec => []Inv` |
| `TypeCorrect` | `Spec => []TypeOK` |
| `OneLiveRowPerId` | `Spec => []AtMostOneAlive` |
| `FlushSwapsWhatItStaged` | `Spec => []StagedIsCurrent` |
| `FullSegmentsAreFlushed` | `Spec => []OverfullIsBeingFlushed` |
| `CountIsExact` | `Spec => []CountIsLive` |
| `Refinement` | `Spec => ImplementsPointStore` |
| `EveryCallTakesEffect` | `Spec => CallsTakeEffect` |
| `UpsertsOfListsAreBatches` | `Spec => []UpsertLoopIsBatch` |
| `DeletesOfListsAreBatches` | `Spec => []DeleteLoopIsBatch` |
| `PayloadsOfListsAreBatches` | `Spec => []PayloadLoopIsBatch` |
| `CompactionMerges` | `Spec => []CompactLoopIsMerge` |

The assumptions are those the modules state of their constants: ids are finite
in number, the special values `NoRow`, `NoOverlay` and `NoWriter` are none of
the others, the ratio and the thresholds are numbers. `OnlyHolder` and its like
state what the write path's early exits rely on.

The inductive invariant is `Inv == TypeOK /\ WellFormed(view) /\
StagedIsCurrent`. "At most one live row" is not inductive: `apply_upsert` looks
at no immutable segment when the mutable one has a row of the id, *even a dead
one*. What makes that right is `WellFormed`: an id with a row in the mutable
segment, dead or alive, is alive in no immutable one. `StagedIsCurrent` is
needed for the step in which a flush swaps the segment it wrote earlier for the
mutable segment as it is now; it holds because `write_mu` is held in between,
which is the part of `TypeOK` that ties `write_mu` to the program counters.

The argument goes by one lemma per operation (`UpsertEffect`, `DeleteEffect`,
`PayloadEffect`, `FlushEffect`, `CompactEffect`, `RebuildEffect`): on a
well-formed view it gives a well-formed view whose live rows are what the store
operation gives. `StepEffect` collects them by action; the theorems of
invariance, of refinement and of effects are corollaries of it.
`FullSegmentsAreFlushed` needs the reset of the mutable segment by every step
that leaves the program counters `due` and `swap`.

`CountIsExact` needs a second invariant, `Tight`: every tombstone is that of a
row. Without it `total()` less the number of tombstones is not the number of
live rows. The sum over the segments is a fold; `SumIsUnion` shows that it is
the size of a disjoint union, by induction on the number of segments added.

The last four theorems are about the loops of `apply_*` over lists, of any length
and with any duplicates (`MaxBatch` does not bound the lemmas): after the
first n entries the loop has made the view of the batch of the first n entries.
The induction needs that the fold it speaks of exists, which `FoldExists` shows
first. The lists of a `delete` whose count is claimed have no duplicates, as in
the property.

### One collection on disk: `DurabilityProofs`

For any finite set of ids, any rows, any sets of calls, any number of crashes
and logs of any length:

| Theorem | States |
|---|---|
| `WritePathInvariant` | `Spec => []IInv` |
| `WritePathTypes` | `Spec => []TypeOK` |
| `ManifestNamesExistingSegments` | `Spec => []SegmentsAreThere` |
| `SegmentsAreListedOnce` | `Spec => []Distinct(manifest.segments)` |
| `MemoryIsMirrored` | `Spec => []DiskMirrorsMemory` |
| `RecoveryKeepsViewsWellFormed` | `Spec => []RecoveredViewsAreWellFormed` |
| `LogIsOrdered` | `Spec => []LsnsIncrease` |
| `NothingLoggedIsLost` | `Spec => []DurableUnlessLsnReused` |
| `CollectionShowsTheLog` | `Spec => []ShowsWhatWasLogged` |

`IInv` has nine parts. `Types`, `Phases` (what is in progress at each step),
`Mirror` (the directories are those of the segments in memory, of the one that
is being written and of those that are being removed), `Published` (how far the
manifest is behind), `Views` (the view in memory and the one that open would
load are well formed) and `Lsns` say what the state looks like. The last three
are what makes recovery right, each unless an LSN was `reused`. `Kept`: a crash
now would recover what was promised. `OnTrack`: the view, as the call in
progress will leave it, with the records that are still to be replayed, gives
what was promised. Neither is inductive without `Covered`, which is about what
disk and memory do not have in common: the operation that is being applied is in
the log, above the floor, and each id with a row in the mutable segment is
`Settled`, which means that an upsert or a delete in the log, above the floor,
decides what a recovery makes of it. After a flush has saved the manifest this
is no longer so, and no longer needed; while a compaction has its segments in
memory only, each id is `Settled` or has the same row on disk.

`Restart` is the reason that a replay over segments which already contain some
of what it replays ends as the first time, although the operations are not all
idempotent one by one (a payload operation does nothing to an id that a later
delete has tombstoned already): two starts end alike when for each id their rows
are equal, or the id is `Settled`, or the rows have the same vector and a logged
operation sets the payload. `RunsConverge` is the induction on the log. What
breaks it is a record at or below the floor, which is what `reused` records and
the run `lsn_reused` shows.

`TornAssumption` says that a torn frame is no record.

### Several collections: `LifecycleProofs`

For any finite set of names, any dimensions, any number of collections, handles
and crashes:

| Theorem | States |
|---|---|
| `LifecycleInvariant` | `Spec => []IInv` |
| `LifecycleTypes` | `Spec => []TypeOK` |
| `NoSegmentHasTwoOwners` | `Spec => []SegmentsAreOwnedOnce` |
| `ManifestIsMemory` | `Spec => []ManifestMirrorsMemory` |
| `RecoveryHolds` | `Spec => []RecoveryInv` |
| `DirectoriesOpen` | `Spec => []OpenSucceedsUnlessExcused` |
| `PromisesAreShown` | `Spec => []ShownUnlessExcused` |

`IInv` is `Types`, `Phases`, `Ids`, `Known` while the database is up, and
`Mirror` while it is up and no stale handle has been used. `Ids` makes
`SegmentsAreOwnedOnce` inductive: while the database is up, each id that the
manifest names and each directory is below `nextSegId`; the segments of a flush
in progress are distinct directories that no entry names before the save, and
the segment of a compaction is one that no entry names. It holds whatever stale
handles do, because they publish only ids that are new. `Known`, that the
entries of the manifest are the collections in memory, holds in spite of them
too, since they change segments and no entry's name or dimension. What they
break is `Mirror`, that the segments of an entry are those in memory and the
directories those of the entries.

`RecoveryInv` is `IInv` and, as long as nothing is `excused`, `Recovers`, which
has four parts, each about one name at a time although the names share a log:

- `Kept`: what is on disk leads to what was promised. The segments that the
  manifest names are there. `Leads` says of each id that the last record of
  the log which decides it (an upsert or a delete of it, or a drop of its
  collection) gives the row that was promised, and that without such a record
  the segments have that row. `LogOf` and `StartsAt` say that replay can read
  the log, wherever a crash has left the manifest's entry: creates and drops
  alternate, a write follows the creation it belongs to, and writes that end up
  in another collection of the name have its dimension. The entry may be from
  any earlier moment since the last flush or from after the end of the log,
  because create and drop change the manifest at once and the log is cut by a
  flush only.
- `Logged`: the call or the record in progress is in the log, above the floor.
- `Held`: the directories have the immutable segments of the views, tombstones
  included, so that moving a row between segments does not change `Kept`.
- `OnTrack`: `Playable` and `Leads` of what is still to be done (the call in
  progress, or the rest of the records) from what memory has now. At the end
  nothing is left, and memory is what was promised, which is
  `ShownUnlessExcused`; open fails for none of the reasons that `ReplayRecord`
  knows, since each contradicts `Playable`, which is `OpenSucceedsUnlessExcused`.

Each value of `excused` is a hypothesis that one step needs: `lsn` that a new
record is above the floor, `orphans` and `dim` that the log remains readable
after a drop and a creation, `stale` that `Mirror` holds. The steps of open are
the link between the two halves: `Kept` of the disk becomes `OnTrack` of the
memory that open has loaded (`Plays`, `OpenRecovers`). Unlike in `Durability`, a
write is one step here and there are no payload operations, so that a record
that is replayed over its own effect decides all that it touches.

`NameAssumption` says that names are finite in number, as those of a manifest
are; `DimAssumption` that no dimension is 0, which `CollectionConfig::new` refuses;
`VectorAssumption` that there is a vector.

### I/O calls that fail: `FaultsProofs`

For any ids, rows and operations, any of the I/O calls failing any number of
times, and any number of opens:

| Theorem | States |
|---|---|
| `FaultsInvariant` | `Spec => []IInv` |
| `FaultTypes` | `Spec => []TypeOK` |
| `SegmentsSurviveFaults` | `Spec => []SegmentsAreThere` |
| `OneRowSurvivesFaults` | `Spec => []OneRowEachUnlessExcused` |

What is inductive is that *neither* manifest names a directory that is missing,
the one on disk and the one in memory: a save that fails leaves the latter
changed, and the next call that succeeds saves all of it and removes what its
own change replaced. For the removal to be safe no list may have an id twice,
and a name that has further entries, after a create that failed and was tried
again, has all its segments in the first of them (`Proper`), which is the one
that `entry_mut` finds. Open takes the last one. It finds its segments, as the
theorem says; that it is another one than before is `twin`.

`OneRowSurvivesFaults` needs a second invariant, `RowsInv`: while `excused` is
empty, `OneRow`. A sidecar whose write failed lacks tombstones that memory has,
so the rows that open loads are more than those that memory shows, and the
question is whether two of them are alive under one id. `OneRow` says that

- the segments of the view are backed by their directories: a row that is alive
  in memory is alive there, and the sidecars lack nothing until a write of one
  has failed (`Sidecars`);
- the directories named by the manifest on disk share no live row. Those named
  by the manifest in memory share none as long as a save of it would need no
  excuse: it names at most one segment of a flush that failed, and raises no
  floor while a sidecar is behind (`Lists`, `Savable`);
- neither manifest has a name twice, and the LSNs handed out are above both
  floors (`Books`).

Each value of `excused` is the hypothesis of one of its steps: `twin` of the one
name, `lsn` of the floors, `twice` and `sidecar` of a save (`Saves`). Open reads
directories that share no live row, and its view is well-formed.

### Readers: `ReadersProofs`

For any set of points, any numbers as their vectors, any filters, k, page limits
and vectors searched with, and segments of any number and length:

| Theorem | States |
|---|---|
| `InvHolds` | `Spec => []IInv` |
| `TypeCorrect` | `Spec => []TypeOK` |
| `ScrollStable` | `Spec => []ScrollIsStable` |
| `QueryBest` | `Spec => []QueryReturnsTheBest` |

`IInv` is `ViewInv` and `ScrollInv`. `ViewInv` is `WellFormed` once more, for
segments that are sequences of rows: the rows of one segment have different ids,
an id with a row in the mutable segment is alive in no immutable one, and alive
in at most one of these. Upserts, deletes, rebuilds and compactions are loops
here, and each is shown to keep it round by round. `ScrollInv` says that a scroll
in progress has shown a prefix of what is due; it is preserved because a flush
moves the rows of the mutable segment to the end of the immutable ones, in
their order, which leaves the order of all rows as it was
(`FlushMovesNothing`).

`QueryBest` follows the query: the search of one segment keeps the best k of
what passes, so that whatever it leaves out has k hits of its own segment that
are as good; merging, sorting and the cut at k keep that, by counting; and a
threshold removes hits that the reference removes too.

`Readers` and `Hnsw` list finite sets in order with `Listing`, because what it says of the
element at a place can be used in a proof: the element at place k has k - 1
before it. That this gives every element a place of its own is by induction on
the size of the set. `ReadersProofs` repeats four lemmas of `CollViewLemmas`,
which it cannot extend: `Readers` has definitions of its own for names of
`CollView`.

### Files: `SegmentFilesProofs`

For any contents of files, any
number of segments, and any failures and crashes:

| Theorem | States |
|---|---|
| `DirectoriesAreWhole` | `Spec => ImplementsSegmentStore` |
| `NamedSegmentsCanLoad` | `Spec => []NamedSegmentsLoad` |
| `RenamesMeetNothing` | `Spec => []PublishesToFreeName` |
| `NothingIsLeftOver` | `Spec => []PublishesItsFilesOnly` |

The inductive invariant says where the call in progress writes, that the files
of a new segment are those that are no longer `left`, and that the id of a new
segment is in no manifest and in no directory. The last part is what the order
of open gives: gc comes before the first call, and `next_seg_id` from the same
manifest that gc goes by. The rename of a directory is then the step at which a
whole segment appears, the manifest's save the one at which it counts, and a
removal, which is not atomic, touches what no manifest names. That a loaded
segment has its files is proved of `SegmentStore` and carried over by the
refinement.

### Index and kernels: `IndexProofs`

For segments of any number of rows, any coordinates, levels and widths of search,
either metric, and any choice of levels:

| Theorem | States |
|---|---|
| `IndexTypes` | `Spec => []TypeOK` |
| `GraphStaysLayered` | `Spec => []GraphIsLayered` |
| `OnlyTheEntryStaysShort` | `Spec => []OnlyTheEntryIsShort` |
| `QueriesAlwaysFillUp` | `Spec => []QueriesFillUp` |
| `WideQueriesAreAlwaysExact` | `Spec => []WideQueriesAreExact` |
| `RetriesAlwaysFindNothing` | `Spec => []RetriesFindNothing` |

`IndexInv` says of the graph that it is `GoodGraph`:

- `Linked` and `Placed`: at each level a node has links to its `Peers` of that
  level only, each once and no more than `MaxLinks`, and no layers above its level;
- `EntryOf`: the entry is a node of the highest level; every other node has all
  the layers of its level, *and the entry has as many as the highest of the
  others*;
- a node that is not inserted has level 0.

The half sentence is what makes `OnlyTheEntryIsShort` inductive. A node that is
given a level above all others gets layers up to the level of the old entry only,
and stays without the rest while it is the entry. When the next node reaches those
levels, linking begins at the lower of the two tops. If the entry lacks layers
there, no other node has that level, so that it is all that the search finds: it
is selected and linked back, which makes its layers (`ConnectLayerFacts`,
`ConnectAllFacts`). That a search finds something, and nothing of another level,
is `SearchLayerFacts`: the peers of a level are `Closed` under its links, and
the descent has come from above (`DescentFacts`).

The three theorems about queries follow from `SearchFinds`: a search that ends
with fewer than `ef` results has all that passes of what its entry point can
reach. As long as the heap of results was never full, nothing was visited in
vain or dropped, and each round follows the links of one more node
(`ExpandKeeps`). After `Count` rounds either no candidate is left, so that the
nodes visited are closed under links, or all nodes were followed. A search with
fewer than k results is such a search, since no search is narrower than k: a
wider one finds the same. That the answers are sorted and each once comes from a
set having one listing (`ListingsAgree`).

Each loop of the index is a fold with a lemma of its own, which gives the states
it passes through (`NearestRun` to `RetryAllRun`). They are alike; a single one
would take the step as a parameter.

Of the kernels, for vectors of any length (`K` is an instance of `Kernel`):

| Theorem | States |
|---|---|
| `AllReadsInBounds` | `K!Spec => []K!ReadsInBounds` |
| `LanesAreDisjoint` | `K!Spec => []K!NeverTwice` |
| `NoTermIsTakenAgain` | `K!Spec => K!ReadsAreNew` |
| `SumIsComplete` | `K!Spec => []K!TakesAll` |

The invariant is that the registers have exactly the components below `at`, none
of them twice, and that the loops over blocks do not pass `Whole`, which the
scalar form reaches in full steps of its eight accumulators. The work is in the
arithmetic of blocks (`WideFits`, `WideBlock`) and in adding up the lanes
(`AllLanesTakeAll`).

`SegmentFiles` and `Kernel` have no run. Their state spaces are infinite, in the
ids and in the length; TLC has been used on them with `Nat` cut off, to find out
what to prove.

### How recursion is proved about

The library's induction theorems cannot be used with the provers at hand: they
take an operator. `InductionOnSet`, `LoopInduction` and `StepsExist` in
`CollViewLemmas` take a set of numbers or a function instead, and are proved
from the existence of a least element (`LeastExists`). A recursive function is
first shown to exist, by building the sequence of its values, and its equation
is then used step by step; folds likewise. `IndexProofs` repeats the first of these
lemmas, because `Hnsw` has names of `CollView` for other things.

### Only model-checked

- `CallsEnd`: liveness is out of the prover's reach.
- `ShowsWhatMayBeUnlessExcused` of `Faults`: that of a call that failed all
  or nothing is shown, and that no other is lost. Its inductive invariant is that
  of `Durability` for calls of which any part may be done, in memory or on disk,
  and is not written.
- `LoadsBackOrRefuses` of `HnswFile`: what reading a list of bytes gives is an
  induction over the bytes of all nodes, layers and links.
- `Filter`, whose recursion is over the shape of a condition and declared as
  RECURSIVE, which rules out proofs.

## Not modelled, and why

- A power loss that undoes a rename whose directory was not synced: what it
  undoes is the file system's choice, and no code answers to it. All models take
  a rename as durable when it returns.
- Removals that fail in gc, see above; crashes and failing calls in one history
  (they are in `SegmentFiles`, for the segments).
- What `MemoryFs` does for calls that the program does not make: renames onto a
  directory that exists, files in directories that were removed, handles to
  files that were renamed.
- Rounding and NaN, in the kernels and in the indexes: floating-point arithmetic
  is out of the tools' reach. For the same reason `Kernel` leaves out norms and
  the division of `score_with`. That both vectors have one length is
  the callers' check.
- Recall of HNSW: statistical, a matter of benchmarks.
- The level generator and CRC32: a free choice of levels, and torn frames that
  never parse.
- Server, command line and wasm binding: they keep no state of their own but the
  handle of the database, translate arguments and results, and call the
  core once. The properties would be about wording and formats.
- The version check of the manifest, and names and lengths that the API
  validates before it does anything.

## Plan

The order is by what the database promises: first that a collection is a map,
then that it survives, then the rest.

1. `Segments`, `PointStore`, `CollView`, `CollectionView`, `ApplyLoops`; the
   proofs of invariance and refinement. *Done.*
2. `WalLog`, `Durability`: crashes at every step. *Done.*
3. `Lifecycle`: several collections, drops, handles. *Done.*
4. `Readers`, `Hnsw`, `HnswFile`, `Filter`. *Done.*
5. `Faults`: calls that fail and a process that goes on. *Done.*
6. A query by id, which takes the view lock twice, in `Readers`. *Done.*
7. `SegmentFiles`: the directories file by file, as `atomic_write` makes them,
   and `Kernel`; the proofs of both. *Done.*
8. Proofs about `Durability`, `Lifecycle` (with the recovery of several
   collections) and `Faults`, of the loops of `ApplyLoops` and of counts, and
   about `Readers`, for which its lists are made by `Listing`. *Done.*
9. Proofs about the graph of the index and the queries of it, for which its sorts
   are made by `Listing` too. *Done.*
10. A proof of what `Faults` shows after failed calls (that it shows no id twice is
    proved), and of what loading `index.bin` gives.
