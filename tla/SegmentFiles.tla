---------------------------- MODULE SegmentFiles ----------------------------
(***************************************************************************)
(* The directories of segments, file by file: write_new, install_index and *)
(* the sidecars of segment/immutable.rs through atomic_write, the          *)
(* publication of a segment by flush, compact and rebuild, the removal of  *)
(* old ones, and gc_orphan_segments.  Any call of Fs may fail, a write     *)
(* half-way, and the process may stop between any two.                     *)
(*                                                                         *)
(* write_mu allows one call at a time.  Which segments it lists and which  *)
(* it removes afterwards is the business of Durability, Lifecycle and      *)
(* Faults; here the choice is free within what they allow.                 *)
(***************************************************************************)
EXTENDS Naturals, Sequences

CONSTANT Bytes  \* the contents a file can have: sequences of bytes

Base == {"meta", "vectors", "norms", "ids", "payloads"}
File == Base \cup {"dels", "overlay", "index"}
Content == UNION {[names -> Bytes] : names \in SUBSET File}

(* The order in which write_new writes. *)
Rank == [meta |-> 1, vectors |-> 2, norms |-> 3, ids |-> 4, payloads |-> 5,
         dels |-> 6, overlay |-> 7, index |-> 8]

VARIABLES
    \* on disk; a directory is a record of its files and its *.tmp files, both by name
    staged,  \* the directories seg-N.tmp, by N
    dirs,    \* the directories seg-N, by N
    named,   \* the segments that manifest.json names
    \* in memory
    listed,  \* the segments that DbInner::manifest names
    nextId,
    pc,      \* "idle", or what the call in progress does next
    id,      \* the segment it writes
    staging, \* it writes to seg-N.tmp, not to seg-N
    new,     \* {id} if id is to be listed
    want,    \* what it writes
    left,    \* the files it has still to write
    file,    \* the file it is writing
    drop     \* the segments it has still to remove

disk == <<staged, dirs, named>>
write == <<id, staging, new, want, left, file>>
vars == <<disk, listed, nextId, pc, write, drop>>

NoFiles == [n \in {} |-> <<>>]
EmptyDir == [files |-> NoFiles, temps |-> NoFiles]

With(f, x, y) == [z \in DOMAIN f \cup {x} |-> IF z = x THEN y ELSE f[z]]
Without(f, xs) == [z \in DOMAIN f \ xs |-> f[z]]

Dir == IF staging THEN staged[id] ELSE dirs[id]

PutDir(d) ==
    /\ staged' = IF staging THEN With(staged, id, d) ELSE staged
    /\ dirs' = IF staging THEN dirs ELSE With(dirs, id, d)

PutTemp(name, b) == PutDir([files |-> Dir.files, temps |-> With(Dir.temps, name, b)])

(* A new database. *)
Init ==
    /\ staged = [i \in {} |-> EmptyDir]
    /\ dirs = [i \in {} |-> EmptyDir]
    /\ named = {}
    /\ listed = {}
    /\ nextId = 1
    /\ pc = "idle"
    /\ id = 0
    /\ staging = FALSE
    /\ new = {}
    /\ want = NoFiles
    /\ left = {}
    /\ file = "meta"
    /\ drop = {}

-----------------------------------------------------------------------------
(* Calls. *)

(* flush, compact and rebuild take an id for the rows they have to write, ... *)
Begin ==
    /\ pc = "idle"
    /\ want' \in {c \in Content : Base \subseteq DOMAIN c /\ DOMAIN c \subseteq Base \cup {"dels"}}
    /\ left' = DOMAIN want'
    /\ id' = nextId
    /\ new' = {nextId}
    /\ staging' = TRUE
    /\ nextId' = nextId + 1
    /\ pc' = "mkdir"
    /\ UNCHANGED <<disk, listed, file, drop>>

(* ... or, like a drop, have none to write and change the manifest only. *)
Unlist ==
    /\ pc = "idle"
    /\ new' = {}
    /\ staging' = FALSE
    /\ pc' = "list"
    /\ UNCHANGED <<disk, listed, nextId, id, want, left, file, drop>>

(* create_dir_all *)
MakeDir ==
    /\ pc = "mkdir"
    /\ staged' = With(staged, id, IF id \in DOMAIN staged THEN staged[id] ELSE EmptyDir)
    /\ pc' = "create"
    /\ UNCHANGED <<dirs, named, listed, nextId, write, drop>>

(* tombstone_many and set_overlay_batch. *)
Sidecar ==
    /\ pc = "idle"
    /\ id' \in DOMAIN dirs
    /\ \E name \in {"dels", "overlay"} :
         /\ want' \in [{name} -> Bytes]
         /\ left' = {name}
    /\ new' = {}
    /\ staging' = FALSE
    /\ pc' = "create"
    /\ UNCHANGED <<disk, listed, nextId, file, drop>>

(* atomic_write, in three steps: an empty <name>.tmp, ... *)
Create ==
    /\ pc = "create"
    /\ file' \in {name \in left : \A other \in left : Rank[name] <= Rank[other]}
    /\ PutTemp(file', <<>>)
    /\ pc' = "write"
    /\ UNCHANGED <<named, listed, nextId, id, staging, new, want, left, drop>>

(* ... its content, synced, ... *)
Write ==
    /\ pc = "write"
    /\ PutTemp(file, want[file])
    /\ pc' = "move"
    /\ UNCHANGED <<named, listed, nextId, write, drop>>

(* ... or only the beginning of it, ... *)
WriteFails ==
    /\ pc = "write"
    /\ \E n \in 0 .. Len(want[file]) : PutTemp(file, SubSeq(want[file], 1, n))
    /\ pc' = "idle"
    /\ UNCHANGED <<named, listed, nextId, write, drop>>

AfterFiles == IF staging THEN "publish" ELSE IF new # {} THEN "list" ELSE "idle"

(* ... and the rename. *)
Move ==
    /\ pc = "move"
    /\ PutDir([files |-> With(Dir.files, file, Dir.temps[file]),
               temps |-> Without(Dir.temps, {file})])
    /\ left' = left \ {file}
    /\ pc' = IF left' = {} THEN AfterFiles ELSE "create"
    /\ UNCHANGED <<named, listed, nextId, id, staging, new, want, file, drop>>

(* The rename of the directory; an index, if there is one, is written to   *)
(* where the segment then is.                                              *)
Publish ==
    /\ pc = "publish"
    /\ dirs' = With(dirs, id, staged[id])
    /\ staged' = Without(staged, {id})
    /\ staging' = FALSE
    /\ \/ /\ pc' = "list"
          /\ UNCHANGED <<want, left>>
       \/ /\ pc' = "create"
          /\ \E b \in Bytes : want' = With(want, "index", b)
          /\ left' = {"index"}
    /\ UNCHANGED <<named, listed, nextId, id, new, file, drop>>

(* The manifest in memory: the new segment comes, others may go. *)
List ==
    /\ pc = "list"
    /\ \E keep \in SUBSET listed : listed' = keep \cup new
    /\ pc' = "save"
    /\ UNCHANGED <<disk, nextId, write, drop>>

(* The manifest on disk, an atomic_write too; then old directories go. *)
Save ==
    /\ pc = "save"
    /\ named' = listed
    /\ drop' \in SUBSET (DOMAIN dirs \ listed)
    /\ pc' = "remove"
    /\ UNCHANGED <<staged, dirs, listed, nextId, write>>

Return ==
    /\ pc = "remove"
    /\ drop = {}
    /\ pc' = "idle"
    /\ UNCHANGED <<disk, listed, nextId, write, drop>>

(* An error ends the call. *)
Fail ==
    /\ pc \in {"mkdir", "create", "move", "publish", "list", "save"}
    /\ pc' = "idle"
    /\ UNCHANGED <<disk, listed, nextId, write, drop>>

-----------------------------------------------------------------------------
(* remove_dir_all: all of a directory, or a part when it stops half-way. *)
Removed(ds, i) ==
    {Without(ds, {i})} \cup
    {With(ds, i, [files |-> Without(ds[i].files, names), temps |-> Without(ds[i].temps, temps)]) :
     names \in SUBSET DOMAIN ds[i].files, temps \in SUBSET DOMAIN ds[i].temps}

(* An error is ignored: an old directory may stay, or what is left of it. *)
Remove ==
    /\ pc = "remove"
    /\ \E i \in drop :
         /\ dirs' \in Removed(dirs, i)
         /\ drop' = drop \ {i}
    /\ UNCHANGED <<staged, named, listed, nextId, pc, write>>

(* max_segment_id() + 1 *)
NextIdAtOpen == {n \in Nat \ {0} : (\A i \in named : i < n) /\ (n = 1 \/ n - 1 \in named)}

(* The process stops, and the directory is opened again. *)
Crash ==
    /\ listed' = named
    /\ nextId' \in NextIdAtOpen
    /\ pc' = "gc"
    /\ UNCHANGED <<disk, write, drop>>

(* gc_orphan_segments.  What it cannot remove it leaves there, and this the *)
(* model does not have: it stops half-way only with the process.            *)
Collect ==
    /\ pc = "gc"
    /\ \/ /\ \E i \in DOMAIN staged : staged' \in Removed(staged, i)
          /\ dirs' = dirs
       \/ /\ \E i \in DOMAIN dirs \ named : dirs' \in Removed(dirs, i)
          /\ staged' = staged
    /\ UNCHANGED <<named, listed, nextId, pc, write, drop>>

Collected ==
    /\ pc = "gc"
    /\ DOMAIN staged = {}
    /\ DOMAIN dirs \subseteq named
    /\ pc' = "idle"
    /\ UNCHANGED <<disk, listed, nextId, write, drop>>

Next ==
    \/ Begin \/ Unlist \/ MakeDir \/ Sidecar
    \/ Create \/ Write \/ WriteFails \/ Move
    \/ Publish \/ List \/ Save \/ Remove \/ Return \/ Fail
    \/ Crash \/ Collect \/ Collected

Spec == Init /\ [][Next]_vars

-----------------------------------------------------------------------------
(* Properties. *)

(* The segments that a manifest names, in memory or on disk, by their files. *)
Made == [i \in listed \cup named |-> dirs[i].files]

Store == INSTANCE SegmentStore WITH made <- Made

(* storage/mod.rs, the comment on atomic_write, for a whole directory of   *)
(* them: whatever fails and wherever the process stops, the segments that  *)
(* the manifest names have all of their files, each as it was written.     *)
ImplementsSegmentStore == Store!Spec

(* ImmutableSegment::open finds every file that a segment must have, for   *)
(* each segment that the manifest on disk names.                           *)
NamedSegmentsLoad ==
    \A i \in named : i \in DOMAIN dirs /\ Base \subseteq DOMAIN dirs[i].files

(* storage/mod.rs, the comment on Fs::rename: the target does not exist.   *)
(* On it NativeFs fails and MemoryFs mixes two segments.                   *)
PublishesToFreeName == pc = "publish" => id \notin DOMAIN dirs

(* A new segment gets nothing from what an earlier one left behind: flush  *)
(* writes no file of tombstones when there are none, and one that is there *)
(* would count.                                                            *)
PublishesItsFilesOnly == pc = "publish" => staged[id].files = want
=============================================================================
