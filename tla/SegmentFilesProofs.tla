------------------------- MODULE SegmentFilesProofs -------------------------
(***************************************************************************)
(* Proofs about SegmentFiles: for any contents, the directories implement  *)
(* SegmentStore.                                                           *)
(***************************************************************************)
EXTENDS SegmentFiles, TLAPS

(* Where pc is in the course of a call. *)
Busy == {"mkdir", "create", "write", "move", "publish", "list"}
InDir == Busy \ {"mkdir"}

TypeOK ==
    /\ DOMAIN staged \subseteq Nat
    /\ DOMAIN dirs \subseteq Nat
    /\ listed \cup named \subseteq DOMAIN dirs
    /\ nextId \in Nat
    /\ id \in Nat
    /\ staging \in BOOLEAN
    /\ pc \in Busy \cup {"idle", "save", "remove", "gc"}
    /\ new = {} \/ new = {id}
    /\ want \in Content

(* The next id is fresh; what is removed is not listed. *)
Ids ==
    /\ pc # "gc" => \A i \in DOMAIN staged \cup DOMAIN dirs : i < nextId
    /\ \A i \in named : i < nextId
    /\ pc \in {"remove", "gc"} => listed = named
    /\ pc = "remove" => drop \subseteq DOMAIN dirs \ listed

(* A new segment is nobody's yet, and where it should be. *)
NewSegment ==
    pc \in Busy /\ new # {} =>
      /\ id \notin listed \cup named
      /\ id < nextId
      /\ Base \subseteq DOMAIN want
      /\ staging => id \notin DOMAIN dirs /\ "index" \notin DOMAIN want
      /\ pc = "mkdir" => id \notin DOMAIN staged /\ left = DOMAIN want
      /\ pc \in InDir => Dir.files = Without(want, left)

Places ==
    /\ staging /\ pc \in Busy => new # {} /\ pc # "list"
    /\ pc = "mkdir" => staging
    /\ pc \in InDir /\ staging => id \in DOMAIN staged
    /\ pc \in InDir /\ ~staging => id \in DOMAIN dirs \/ (pc = "list" /\ new = {})
    /\ pc = "publish" => staging

(* The file that is written next, and its temporary one. *)
Files ==
    /\ pc \in {"mkdir", "create", "write", "move"} => left \subseteq DOMAIN want
    /\ pc \in {"write", "move"} => file \in left
    /\ pc = "move" => file \in DOMAIN Dir.temps /\ Dir.temps[file] = want[file]
    /\ pc \in {"publish", "list"} /\ new # {} => left = {}

IInv == TypeOK /\ Ids /\ NewSegment /\ Places /\ Files

-----------------------------------------------------------------------------
(* One more file of want is one fewer left. *)
LEMMA OneFewerLeft ==
    ASSUME NEW f, NEW l, NEW n, n \in l, l \subseteq DOMAIN f
    PROVE  With(Without(f, l), n, f[n]) = Without(f, l \ {n})
  <1>1. (DOMAIN f \ l) \cup {n} = DOMAIN f \ (l \ {n})
    OBVIOUS
  <1>2. \A z \in DOMAIN f \ (l \ {n}) : (IF z = n THEN f[n] ELSE Without(f, l)[z]) = f[z]
    BY DEF Without
  <1>3. DOMAIN Without(f, l) = DOMAIN f \ l
    BY DEF Without
  <1> QED
    BY <1>1, <1>2, <1>3 DEF With, Without

(* What a call writes is a function of names. *)
LEMMA ContentFacts ==
    ASSUME NEW c \in Content
    PROVE  /\ DOMAIN c \subseteq File
           /\ \A n \in DOMAIN c : c[n] \in Bytes
           /\ Without(c, {}) = c
  <1>1. PICK names \in SUBSET File : c \in [names -> Bytes]
    BY DEF Content
  <1>2. DOMAIN c = names /\ c = [n \in names |-> c[n]]
    BY <1>1
  <1>3. Without(c, {}) = [n \in names |-> c[n]]
    BY <1>2 DEF Without
  <1> QED
    BY <1>1, <1>2, <1>3

(* ... and stays one with an index. *)
LEMMA WithIsContent ==
    ASSUME NEW c \in Content, NEW n \in File, NEW b \in Bytes
    PROVE  With(c, n, b) \in Content
  <1>1. DOMAIN c \cup {n} \in SUBSET File
    BY ContentFacts
  <1>2. With(c, n, b) \in [DOMAIN c \cup {n} -> Bytes]
    BY ContentFacts DEF With
  <1> QED
    BY <1>1, <1>2 DEF Content

(* A removal touches one directory. *)
LEMMA RemovedFacts ==
    ASSUME NEW ds, NEW i \in DOMAIN ds, NEW ds2 \in Removed(ds, i)
    PROVE  /\ DOMAIN ds2 \subseteq DOMAIN ds
           /\ \A d \in DOMAIN ds \ {i} : d \in DOMAIN ds2 /\ ds2[d] = ds[d]
  <1>1. CASE ds2 = Without(ds, {i})
    BY <1>1 DEF Without
  <1>2. ASSUME NEW names \in SUBSET DOMAIN ds[i].files, NEW temps \in SUBSET DOMAIN ds[i].temps,
               ds2 = With(ds, i, [files |-> Without(ds[i].files, names),
                                  temps |-> Without(ds[i].temps, temps)])
        PROVE  /\ DOMAIN ds2 \subseteq DOMAIN ds
               /\ \A d \in DOMAIN ds \ {i} : d \in DOMAIN ds2 /\ ds2[d] = ds[d]
    BY <1>2 DEF With
  <1>3. CASE ds2 # Without(ds, {i})
    <2>1. PICK names \in SUBSET DOMAIN ds[i].files, temps \in SUBSET DOMAIN ds[i].temps :
            ds2 = With(ds, i, [files |-> Without(ds[i].files, names),
                               temps |-> Without(ds[i].temps, temps)])
      BY <1>3 DEF Removed
    <2> QED
      BY <1>2, <2>1
  <1> QED
    BY <1>1, <1>3

(* A call changes one directory. *)
LEMMA PutDirFacts ==
    ASSUME NEW d, PutDir(d)
    PROVE  /\ staging => /\ dirs' = dirs
                         /\ DOMAIN staged' = DOMAIN staged \cup {id}
                         /\ staged'[id] = d
           /\ ~staging => /\ staged' = staged
                          /\ DOMAIN dirs' = DOMAIN dirs \cup {id}
                          /\ dirs'[id] = d
           /\ \A i \in DOMAIN dirs : i # id => dirs'[i] = dirs[i]
  BY DEF PutDir, With

-----------------------------------------------------------------------------
(* The invariant holds at first, and each action keeps it. *)

(* The invariant holds at first. *)
LEMMA InitEstablishes == Init => IInv
  <1> SUFFICES ASSUME Init PROVE IInv
    OBVIOUS
  <1>1. NoFiles \in [{} -> Bytes]
    BY DEF NoFiles
  <1>2. NoFiles \in Content
    BY <1>1 DEF Content
  <1> QED
    BY <1>2 DEF Init, IInv, TypeOK, Ids, NewSegment, Places, Files, Busy, InDir

(* The next id is nobody's. *)
LEMMA BeginPreserves == IInv /\ Begin => IInv'
  <1> SUFFICES ASSUME IInv, Begin PROVE IInv'
    OBVIOUS
  <1> USE DEF IInv, Begin, disk
  <1>1. TypeOK'
    BY DEF TypeOK, Busy
  <1>2. Ids'
    BY DEF TypeOK, Ids
  <1>3. NewSegment'
    BY DEF TypeOK, Ids, NewSegment, InDir, Base
  <1>4. Places'
    BY DEF Places, InDir, Busy
  <1>5. Files'
    BY DEF Files
  <1> QED
    BY <1>1, <1>2, <1>3, <1>4, <1>5

(* A call with no rows to write. *)
LEMMA UnlistPreserves == IInv /\ Unlist => IInv'
  BY DEF IInv, Unlist, disk, TypeOK, Ids, NewSegment, Places, Files, Busy, InDir

(* The new directory is empty: there was none of its name. *)
LEMMA MakeDirPreserves == IInv /\ MakeDir => IInv'
  <1> SUFFICES ASSUME IInv, MakeDir PROVE IInv'
    OBVIOUS
  <1> USE DEF IInv, MakeDir, write
  <1>0. /\ staging /\ new # {}
        /\ id \notin DOMAIN staged
        /\ left = DOMAIN want
        /\ staged' = With(staged, id, EmptyDir)
    BY DEF Places, NewSegment, Busy
  <1>1. /\ DOMAIN staged' = DOMAIN staged \cup {id}
        /\ staged'[id] = EmptyDir
    BY <1>0 DEF With
  <1>2. TypeOK'
    BY <1>1 DEF TypeOK, Busy
  <1>3. Ids'
    BY <1>0, <1>1 DEF TypeOK, Ids, NewSegment, Busy
  <1>4. NewSegment'
    <2>1. NoFiles = Without(want, DOMAIN want)
      BY DEF NoFiles, Without
    <2>2. Dir' = EmptyDir
      BY <1>0, <1>1 DEF Dir
    <2> QED
      BY <1>0, <2>1, <2>2 DEF NewSegment, Busy, InDir, EmptyDir
  <1>5. Places'
    BY <1>0, <1>1 DEF Places, Busy, InDir
  <1>6. Files'
    BY <1>0 DEF Files
  <1> QED
    BY <1>2, <1>3, <1>4, <1>5, <1>6

(* A sidecar of a segment that is there. *)
LEMMA SidecarPreserves == IInv /\ Sidecar => IInv'
  <1> SUFFICES ASSUME IInv, Sidecar PROVE IInv'
    OBVIOUS
  <1> USE DEF IInv, Sidecar, disk
  <1>1. PICK name \in {"dels", "overlay"} : want' \in [{name} -> Bytes] /\ left' = {name}
    OBVIOUS
  <1>2. want' \in Content /\ left' \subseteq DOMAIN want'
    <2>1. {name} \in SUBSET File
      BY DEF File
    <2> QED
      BY <1>1, <2>1 DEF Content
  <1>3. TypeOK'
    BY <1>2 DEF TypeOK, Busy
  <1>4. Ids'
    BY DEF Ids
  <1>5. NewSegment'
    BY DEF NewSegment
  <1>6. Places'
    BY DEF Places
  <1>7. Files'
    BY <1>2 DEF Files
  <1> QED
    BY <1>3, <1>4, <1>5, <1>6, <1>7

(* The steps of atomic_write before the rename touch temporary files only. *)
LEMMA TempsOnly ==
    ASSUME IInv, pc \in {"create", "write"}, NEW name, NEW b, PutTemp(name, b)
    PROVE  /\ DOMAIN staged' = DOMAIN staged
           /\ DOMAIN dirs' = DOMAIN dirs
           /\ \A i \in DOMAIN dirs : dirs'[i].files = dirs[i].files
           /\ staging' = staging /\ id' = id =>
                /\ Dir'.files = Dir.files
                /\ name \in DOMAIN Dir'.temps
                /\ Dir'.temps[name] = b
  <1>1. (staging => id \in DOMAIN staged) /\ (~staging => id \in DOMAIN dirs)
    BY DEF IInv, Places, InDir, Busy
  <1> DEFINE d == [files |-> Dir.files, temps |-> With(Dir.temps, name, b)]
  <1>2. PutDir(d)
    BY DEF PutTemp
  <1>3. d.files = Dir.files /\ d.temps = With(Dir.temps, name, b)
    OBVIOUS
  <1>4. name \in DOMAIN d.temps /\ d.temps[name] = b
    BY <1>3 DEF With
  <1> HIDE DEF d
  <1>5. CASE staging
    BY <1>1, <1>2, <1>3, <1>4, <1>5, PutDirFacts DEF Dir
  <1>6. CASE ~staging
    BY <1>1, <1>2, <1>3, <1>4, <1>6, PutDirFacts DEF Dir
  <1> QED
    BY <1>5, <1>6 DEF IInv, TypeOK

(* The three steps of atomic_write. *)
LEMMA CreatePreserves == IInv /\ Create => IInv'
  <1> SUFFICES ASSUME IInv, Create PROVE IInv'
    OBVIOUS
  <1> USE DEF IInv, Create
  <1>1. /\ DOMAIN staged' = DOMAIN staged
        /\ DOMAIN dirs' = DOMAIN dirs
        /\ Dir'.files = Dir.files
    BY TempsOnly
  <1>2. TypeOK'
    BY <1>1 DEF TypeOK, Busy
  <1>3. Ids'
    BY <1>1 DEF Ids
  <1>4. NewSegment'
    BY <1>1 DEF NewSegment, Busy, InDir
  <1>5. Places'
    BY <1>1 DEF Places, Busy, InDir
  <1>6. Files'
    BY DEF Files
  <1> QED
    BY <1>2, <1>3, <1>4, <1>5, <1>6

(* A written temporary file is whole. *)
LEMMA WritePreserves == IInv /\ Write => IInv'
  <1> SUFFICES ASSUME IInv, Write PROVE IInv'
    OBVIOUS
  <1> USE DEF IInv, Write, write
  <1>1. /\ DOMAIN staged' = DOMAIN staged
        /\ DOMAIN dirs' = DOMAIN dirs
        /\ Dir'.files = Dir.files
        /\ file \in DOMAIN Dir'.temps
        /\ Dir'.temps[file] = want[file]
    BY TempsOnly
  <1>2. TypeOK'
    BY <1>1 DEF TypeOK, Busy
  <1>3. Ids'
    BY <1>1 DEF Ids
  <1>4. NewSegment'
    BY <1>1 DEF NewSegment, Busy, InDir
  <1>5. Places'
    BY <1>1 DEF Places, Busy, InDir
  <1>6. Files'
    BY <1>1 DEF Files
  <1> QED
    BY <1>2, <1>3, <1>4, <1>5, <1>6

(* One that is not ends the call. *)
LEMMA WriteFailsPreserves == IInv /\ WriteFails => IInv'
  <1> SUFFICES ASSUME IInv, WriteFails PROVE IInv'
    OBVIOUS
  <1> USE DEF IInv, WriteFails, write
  <1>1. PICK n \in 0 .. Len(want[file]) : PutTemp(file, SubSeq(want[file], 1, n))
    OBVIOUS
  <1>2. DOMAIN staged' = DOMAIN staged /\ DOMAIN dirs' = DOMAIN dirs
    BY <1>1, TempsOnly
  <1> QED
    BY <1>2 DEF TypeOK, Ids, NewSegment, Places, Files, Busy, InDir

(* The rename of a file.  A new segment has one more of its files. *)
LEMMA MoveEffect ==
    ASSUME IInv, Move
    PROVE  /\ DOMAIN staged' = DOMAIN staged
           /\ DOMAIN dirs' = DOMAIN dirs
           /\ \A i \in DOMAIN dirs : i # id \/ staging => dirs'[i].files = dirs[i].files
           /\ Dir'.files = With(Dir.files, file, want[file])
  <1>1. (staging => id \in DOMAIN staged) /\ (~staging => id \in DOMAIN dirs)
    BY DEF IInv, Places, InDir, Busy, Move
  <1> DEFINE d == [files |-> With(Dir.files, file, Dir.temps[file]),
                   temps |-> Without(Dir.temps, {file})]
  <1>2. PutDir(d) /\ staging' = staging /\ id' = id
    BY DEF Move
  <1>3. d.files = With(Dir.files, file, want[file])
    BY DEF IInv, Files, Move
  <1> HIDE DEF d
  <1>4. CASE staging
    BY <1>1, <1>2, <1>3, <1>4, PutDirFacts DEF Dir
  <1>5. CASE ~staging
    BY <1>1, <1>2, <1>3, <1>5, PutDirFacts DEF Dir
  <1> QED
    BY <1>4, <1>5 DEF IInv, TypeOK

(* With the last file renamed, nothing is left to write. *)
LEMMA MovePreserves == IInv /\ Move => IInv'
  <1> SUFFICES ASSUME IInv, Move PROVE IInv'
    OBVIOUS
  <1> USE DEF IInv, Move
  <1>1. /\ DOMAIN staged' = DOMAIN staged
        /\ DOMAIN dirs' = DOMAIN dirs
        /\ Dir'.files = With(Dir.files, file, want[file])
    BY MoveEffect
  <1>2. pc' \in {"create", "publish", "list", "idle"}
    BY DEF AfterFiles
  <1>3. TypeOK'
    BY <1>1, <1>2 DEF TypeOK, Busy
  <1>4. Ids'
    BY <1>1, <1>2 DEF Ids
  <1>5. NewSegment'
    <2>1. ASSUME new # {} PROVE Dir'.files = Without(want, left')
      <3>1. file \in left /\ left \subseteq DOMAIN want /\ Dir.files = Without(want, left)
        BY <2>1 DEF Files, NewSegment, Busy, InDir
      <3> QED
        BY <1>1, <3>1, OneFewerLeft
    <2>2. pc \in Busy /\ pc # "mkdir" /\ pc' # "mkdir"
      BY <1>2 DEF Busy
    <2> HIDE DEF Move
    <2>3. UNCHANGED <<named, listed, nextId, id, staging, new, want>>
      BY DEF Move
    <2> QED
      BY <1>1, <2>1, <2>2, <2>3 DEF NewSegment
  <1>6. Places'
    BY <1>1, <1>2 DEF Places, Busy, InDir, AfterFiles
  <1>7. Files'
    <2>1. left' \subseteq DOMAIN want'
      BY DEF Files
    <2>2. pc' \in {"publish", "list"} => left' = {}
      BY DEF AfterFiles
    <2> QED
      BY <1>2, <2>1, <2>2 DEF Files
  <1> QED
    BY <1>3, <1>4, <1>5, <1>6, <1>7

(* A whole segment moves to a free name; the index is what is left. *)
LEMMA PublishPreserves == IInv /\ Publish => IInv'
  <1> SUFFICES ASSUME IInv, Publish PROVE IInv'
    OBVIOUS
  <1> USE DEF IInv, Publish
  <1>1. /\ staging /\ new = {id}
        /\ id \in DOMAIN staged /\ id \notin DOMAIN dirs
        /\ left = {}
        /\ staged[id].files = want
    <2>1. staging /\ new = {id} /\ id \in DOMAIN staged
      BY DEF Places, TypeOK, InDir, Busy
    <2>2. left = {} /\ staged[id].files = Without(want, left) /\ id \notin DOMAIN dirs
      BY <2>1 DEF NewSegment, Files, Busy, InDir, Dir
    <2> QED
      BY <2>1, <2>2, ContentFacts DEF TypeOK
  <1>2. /\ DOMAIN dirs' = DOMAIN dirs \cup {id}
        /\ dirs'[id] = staged[id]
        /\ DOMAIN staged' = DOMAIN staged \ {id}
    BY DEF With, Without
  <1>3. /\ want' \in Content
        /\ DOMAIN want \subseteq DOMAIN want'
        /\ left' \subseteq DOMAIN want'
        /\ want = Without(want', left')
        /\ pc' = "list" => left' = {}
    <2>1. CASE UNCHANGED <<want, left>>
      BY <1>1, <2>1, ContentFacts DEF TypeOK
    <2>2. CASE pc' = "create" /\ left' = {"index"} /\ \E b \in Bytes : want' = With(want, "index", b)
      <3>1. PICK b \in Bytes : want' = With(want, "index", b)
        BY <2>2
      <3>2. "index" \notin DOMAIN want
        BY <1>1 DEF NewSegment, Busy
      <3>3. want' \in Content
        BY <3>1, WithIsContent DEF TypeOK, File
      <3>4. Without(want', {"index"}) = Without(want, {})
        BY <3>1, <3>2 DEF With, Without
      <3>5. DOMAIN want' = DOMAIN want \cup {"index"}
        BY <3>1 DEF With
      <3> QED
        BY <2>2, <3>3, <3>4, <3>5, ContentFacts DEF TypeOK
    <2> QED
      BY <2>1, <2>2
  <1>4. Dir'.files = Without(want', left')
    BY <1>1, <1>2, <1>3 DEF Dir
  <1>5. TypeOK'
    BY <1>1, <1>2, <1>3 DEF TypeOK, Busy
  <1>6. Ids'
    BY <1>1, <1>2 DEF Ids, NewSegment, Busy
  <1>7. NewSegment'
    BY <1>1, <1>3, <1>4 DEF NewSegment, Busy, InDir
  <1>8. Places'
    <2>1. pc' \in {"list", "create"} /\ id \in DOMAIN dirs' /\ staging' = FALSE /\ id' = id
      BY <1>2
    <2> QED
      BY <2>1 DEF Places, Busy, InDir
  <1>9. Files'
    BY <1>3 DEF Files
  <1> QED
    BY <1>5, <1>6, <1>7, <1>8, <1>9

(* What is listed is there. *)
LEMMA ListPreserves == IInv /\ List => IInv'
  <1> SUFFICES ASSUME IInv, List PROVE IInv'
    OBVIOUS
  <1>1. new \subseteq DOMAIN dirs
    BY DEF IInv, List, TypeOK, NewSegment, Places, InDir, Busy
  <1> QED
    BY <1>1 DEF IInv, List, disk, write, TypeOK, Ids, NewSegment, Places, Files, Busy, InDir

(* What is removed from now on is not listed any more. *)
LEMMA SavePreserves == IInv /\ Save => IInv'
  BY DEF IInv, Save, write, TypeOK, Ids, NewSegment, Places, Files, Busy, InDir

(* A call that is done. *)
LEMMA ReturnPreserves == IInv /\ Return => IInv'
  BY DEF IInv, Return, disk, write, TypeOK, Ids, NewSegment, Places, Files, Busy, InDir

(* A failing call leaves what it has done. *)
LEMMA FailPreserves == IInv /\ Fail => IInv'
  BY DEF IInv, Fail, disk, write, TypeOK, Ids, NewSegment, Places, Files, Busy, InDir

(* A removal spares what is listed. *)
LEMMA RemovePreserves == IInv /\ Remove => IInv'
  <1> SUFFICES ASSUME IInv, Remove PROVE IInv'
    OBVIOUS
  <1> USE DEF IInv, Remove, write
  <1>1. PICK i \in drop : dirs' \in Removed(dirs, i) /\ drop' = drop \ {i}
    OBVIOUS
  <1>2. i \notin listed \cup named
    BY DEF Ids
  <1>3. DOMAIN dirs' \subseteq DOMAIN dirs /\ DOMAIN dirs \ {i} \subseteq DOMAIN dirs'
    BY <1>1, RemovedFacts DEF Ids
  <1> QED
    BY <1>1, <1>2, <1>3 DEF TypeOK, Ids, NewSegment, Places, Files, Busy, InDir

(* A reopened database lists what the manifest names. *)
LEMMA CrashPreserves == IInv /\ Crash => IInv'
  BY DEF IInv, Crash, NextIdAtOpen, disk, write, TypeOK, Ids, NewSegment, Places, Files, Busy, InDir

(* gc spares what the manifest names, ... *)
LEMMA CollectPreserves == IInv /\ Collect => IInv'
  <1> SUFFICES ASSUME IInv, Collect PROVE IInv'
    OBVIOUS
  <1> USE DEF IInv, Collect, write
  <1>1. /\ DOMAIN staged' \subseteq DOMAIN staged
        /\ DOMAIN dirs' \subseteq DOMAIN dirs
        /\ named \cap DOMAIN dirs \subseteq DOMAIN dirs'
    BY RemovedFacts
  <1>2. listed = named
    BY DEF Ids
  <1> QED
    BY <1>1, <1>2 DEF TypeOK, Ids, NewSegment, Places, Files, Busy, InDir

(* ... and when it is done the next id is fresh again. *)
LEMMA CollectedPreserves == IInv /\ Collected => IInv'
  BY DEF IInv, Collected, disk, write, TypeOK, Ids, NewSegment, Places, Files, Busy, InDir

(* Every step keeps the invariant. *)
LEMMA NextPreserves == IInv /\ [Next]_vars => IInv'
  <1> SUFFICES ASSUME IInv, [Next]_vars PROVE IInv'
    OBVIOUS
  <1>1. CASE UNCHANGED vars
    BY <1>1 DEF vars, disk, write, IInv, TypeOK, Ids, NewSegment, Places, Files, Dir
  <1>2. CASE Next
    BY <1>2, BeginPreserves, UnlistPreserves, MakeDirPreserves, SidecarPreserves, CreatePreserves,
       WritePreserves, WriteFailsPreserves, MovePreserves, PublishPreserves, ListPreserves,
       SavePreserves, RemovePreserves, ReturnPreserves, FailPreserves, CrashPreserves,
       CollectPreserves, CollectedPreserves DEF Next
  <1> QED
    BY <1>1, <1>2

(* The invariant holds always. *)
LEMMA Invariance == Spec => []IInv
  BY InitEstablishes, NextPreserves, PTL DEF Spec

-----------------------------------------------------------------------------
(* What a step does to the segments that the manifest names. *)

(* What does not touch listed files is not seen. *)
LEMMA NothingMade ==
    ASSUME listed' = listed, named' = named,
           \A i \in listed \cup named : dirs'[i].files = dirs[i].files
    PROVE  Made' = Made
  BY DEF Made

(* A sidecar, or a file of a segment that nobody knows yet. *)
LEMMA MoveRewrites ==
    ASSUME IInv, Move
    PROVE  (Made' = Made /\ want' = want) \/ Store!Rewrite
  <1>1. /\ \A i \in DOMAIN dirs : i # id \/ staging => dirs'[i].files = dirs[i].files
        /\ Dir'.files = With(Dir.files, file, want[file])
        /\ UNCHANGED <<named, listed, want, staging, id>>
    BY MoveEffect DEF Move
  <1>2. listed \cup named \subseteq DOMAIN dirs
    BY DEF IInv, TypeOK
  <1>3. CASE staging \/ id \notin listed \cup named
    BY <1>1, <1>2, <1>3, NothingMade
  <1>4. CASE ~staging /\ id \in listed \cup named
    <2>1. dirs'[id].files =
            [n \in DOMAIN Made[id] \cup {file} |-> IF n = file THEN want[n] ELSE Made[id][n]]
      BY <1>1, <1>4 DEF Dir, With, Made
    <2>2. Made' = [Made EXCEPT ![id] =
            [n \in DOMAIN Made[id] \cup {file} |-> IF n = file THEN want[n] ELSE Made[id][n]]]
      BY <1>1, <1>2, <1>4, <2>1 DEF Made
    <2>3. file \in DOMAIN want /\ id \in DOMAIN Made
      BY <1>4 DEF IInv, Files, Move, Made
    <2> QED
      BY <1>1, <2>2, <2>3 DEF Store!Rewrite
  <1> QED
    BY <1>3, <1>4

(* A segment that comes to the manifest is whole. *)
LEMMA ListMakes ==
    ASSUME IInv, List
    PROVE  Store!Make
  <1>1. PICK keep \in SUBSET listed : listed' = keep \cup new
    BY DEF List
  <1>2. UNCHANGED <<staged, dirs, named, want>>
    BY DEF List, disk, write
  <1>3. /\ new \subseteq Nat
        /\ new \cap (listed \cup named) = {}
        /\ new # {} => Base \subseteq DOMAIN want
        /\ \A i \in new : dirs[i].files = want
    <2>1. CASE new = {}
      BY <2>1
    <2>2. CASE new # {}
      <3>1. new = {id} /\ ~staging /\ left = {} /\ dirs[id].files = Without(want, left)
        BY <2>2 DEF IInv, TypeOK, List, NewSegment, Places, Files, Busy, InDir, Dir
      <3>2. id \in Nat /\ id \notin listed \cup named /\ Base \subseteq DOMAIN want
        BY <2>2 DEF IInv, TypeOK, List, NewSegment, Busy
      <3> QED
        BY <3>1, <3>2, ContentFacts DEF IInv, TypeOK
    <2> QED
      BY <2>1, <2>2
  <1>4. DOMAIN Made = listed \cup named
    BY DEF Made
  <1>5. Made' = [i \in (keep \cup named) \cup new |-> IF i \in new THEN want ELSE Made[i]]
    <2>1. listed' \cup named' = (keep \cup named) \cup new
      BY <1>1, <1>2
    <2>2. \A i \in (keep \cup named) \cup new :
            dirs'[i].files = IF i \in new THEN want ELSE Made[i]
      BY <1>1, <1>2, <1>3 DEF Made
    <2> QED
      BY <2>1, <2>2 DEF Made
  <1>6. keep \cup named \in SUBSET DOMAIN Made /\ named \subseteq keep \cup named
    BY <1>4
  <1>7. Store!Base = Base
    BY DEF Store!Base, Base
  <1> QED
    BY <1>2, <1>3, <1>4, <1>5, <1>6, <1>7 DEF Store!Make

(* A crash forgets what is only listed in memory. *)
LEMMA CrashForgets ==
    ASSUME IInv, Crash
    PROVE  Store!Make
  <1>1. Made' = [i \in named \cup {} |-> IF i \in {} THEN want ELSE Made[i]]
    BY DEF Made, Crash, disk
  <1>2. named \in SUBSET DOMAIN Made
    BY DEF Made
  <1>3. UNCHANGED <<want, named>>
    BY DEF Crash, disk, write
  <1> DEFINE None == {}
  <1>4. /\ None \in SUBSET Nat /\ None \cap DOMAIN Made = {}
        /\ None # {} => Store!Base \subseteq DOMAIN want
        /\ Made' = [i \in named \cup None |-> IF i \in None THEN want ELSE Made[i]]
    BY <1>1
  <1> HIDE DEF None
  <1> QED
    BY <1>2, <1>3, <1>4 DEF Store!Make

(* The manifest is saved as a whole. *)
LEMMA SaveSaves ==
    ASSUME IInv, Save
    PROVE  Store!Save
  BY DEF Store!Save, Save, Made, write

(* All other actions show nothing, but for a new call. *)
LEMMA OthersShowNothing ==
    ASSUME IInv,
           \/ Begin \/ Unlist \/ MakeDir \/ Sidecar \/ Create \/ Write \/ WriteFails
           \/ Publish \/ Remove \/ Return \/ Fail \/ Collect \/ Collected \/ UNCHANGED vars
    PROVE  /\ Made' = Made
           /\ named' = named
           /\ want' \in Content
  <1>1. IInv'
    BY NextPreserves DEF Next
  <1>2. want' \in Content
    BY <1>1 DEF IInv, TypeOK
  <1>3. listed' = listed /\ named' = named
    BY DEF Begin, Unlist, MakeDir, Sidecar, Create, Write, WriteFails, Publish, Remove, Return,
           Fail, Collect, Collected, vars, disk
  <1>4. listed \cup named \subseteq DOMAIN dirs
    BY DEF IInv, TypeOK
  <1>5. CASE \/ Begin \/ Unlist \/ MakeDir \/ Sidecar \/ Return \/ Fail \/ Collected \/ UNCHANGED vars
    <2>1. dirs' = dirs
      BY <1>5 DEF Begin, Unlist, MakeDir, Sidecar, Return, Fail, Collected, vars, disk
    <2> QED
      BY <1>2, <1>3, <2>1, NothingMade
  <1>6. CASE Create \/ Write \/ WriteFails
    <2>1. \A i \in DOMAIN dirs : dirs'[i].files = dirs[i].files
      <3>1. pc \in {"create", "write"} /\ \E name, b : PutTemp(name, b)
        BY <1>6 DEF Create, Write, WriteFails
      <3> QED
        BY <3>1, TempsOnly
    <2> QED
      BY <1>2, <1>3, <1>4, <2>1, NothingMade
  <1>7. CASE Publish
    <2>1. id \notin listed \cup named
      BY <1>7 DEF IInv, NewSegment, Places, Busy, Publish
    <2>2. \A i \in DOMAIN dirs : i # id => dirs'[i] = dirs[i]
      BY <1>7 DEF Publish, With
    <2> QED
      BY <1>2, <1>3, <1>4, <2>1, <2>2, NothingMade
  <1>8. CASE Remove
    <2>1. PICK i \in drop : dirs' \in Removed(dirs, i)
      BY <1>8 DEF Remove
    <2>2. i \in DOMAIN dirs /\ i \notin listed \cup named
      BY <1>8 DEF IInv, Ids, Remove
    <2> QED
      BY <1>2, <1>3, <1>4, <2>1, <2>2, RemovedFacts, NothingMade
  <1>9. CASE Collect
    <2>1. listed = named
      BY <1>9 DEF IInv, Ids, Collect
    <2>2. \A i \in named : dirs'[i] = dirs[i]
      BY <1>4, <1>9, RemovedFacts DEF Collect
    <2> QED
      BY <1>2, <1>3, <2>1, <2>2, NothingMade
  <1> QED
    BY <1>5, <1>6, <1>7, <1>8, <1>9

(* Every step is one of SegmentStore, or none. *)
LEMMA StepImplements == IInv /\ [Next]_vars => [Store!Next]_<<want, Made, named>>
  <1> SUFFICES ASSUME IInv, [Next]_vars PROVE [Store!Next]_<<want, Made, named>>
    OBVIOUS
  <1>1. Store!Content = Content
    BY DEF Store!Content, Content, Store!File, File, Store!Base, Base
  <1>2. CASE Move
    BY <1>2, MoveRewrites DEF Store!Next, Move
  <1>3. CASE List
    BY <1>3, ListMakes DEF Store!Next
  <1>4. CASE Crash
    BY <1>4, CrashForgets DEF Store!Next
  <1>5. CASE Save
    BY <1>5, SaveSaves DEF Store!Next
  <1>6. CASE ~(Move \/ List \/ Crash \/ Save)
    <2>1. Made' = Made /\ named' = named /\ want' \in Content
      BY <1>6, OthersShowNothing DEF Next
    <2> QED
      BY <1>1, <2>1 DEF Store!Next, Store!Call
  <1> QED
    BY <1>2, <1>3, <1>4, <1>5, <1>6

-----------------------------------------------------------------------------
(* Theorems. *)

(* The directories implement SegmentStore: whatever fails and wherever the *)
(* process stops, the segments that the manifest names are whole, and      *)
(* their sidecars are replaced as a whole (atomic_write and the renames of *)
(* flush_locked, compact_locked and rebuild_segment_locked).               *)
THEOREM DirectoriesAreWhole == Spec => ImplementsSegmentStore
  <1>1. Init => Store!Init
    <2> SUFFICES ASSUME Init PROVE Store!Init
      OBVIOUS
    <2>1. Store!Content = Content
      BY DEF Store!Content, Content, Store!File, File, Store!Base, Base
    <2>2. want \in Content
      BY InitEstablishes DEF IInv, TypeOK
    <2>3. Made = [i \in {} |-> want]
      BY DEF Init, Made
    <2> QED
      BY <2>1, <2>2, <2>3 DEF Init, Store!Init
  <1> QED
    BY <1>1, StepImplements, Invariance, PTL DEF Spec, ImplementsSegmentStore, Store!Spec

(* The rename of a new segment never meets a directory that is there       *)
(* already (storage/mod.rs, Fs::rename), though a reopened database hands  *)
(* out ids again.                                                          *)
THEOREM RenamesMeetNothing == Spec => []PublishesToFreeName
  <1>1. IInv => PublishesToFreeName
    BY DEF IInv, NewSegment, Places, Busy, PublishesToFreeName
  <1> QED
    BY <1>1, Invariance, PTL

(* Each segment that the manifest names has the files that                 *)
(* ImmutableSegment::open reads.                                           *)
THEOREM NamedSegmentsCanLoad == Spec => []NamedSegmentsLoad
  <1> DEFINE Loads == \A i \in DOMAIN Made : Base \subseteq DOMAIN Made[i]
  <1>1. Init => Loads
    BY DEF Init, Made
  <1>2. IInv /\ Loads /\ [Next]_vars => Loads'
    <2> SUFFICES ASSUME Loads, [Store!Next]_<<want, Made, named>> PROVE Loads'
      BY StepImplements
    <2>1. CASE Store!Make
      BY <2>1 DEF Store!Make, Store!Base, Base
    <2>2. CASE Store!Rewrite
      BY <2>2 DEF Store!Rewrite
    <2>3. CASE Store!Save
      BY <2>3 DEF Store!Save
    <2>4. CASE Store!Call \/ UNCHANGED <<want, Made, named>>
      BY <2>4 DEF Store!Call
    <2> QED
      BY <2>1, <2>2, <2>3, <2>4 DEF Store!Next
  <1>3. IInv /\ Loads => NamedSegmentsLoad
    BY DEF IInv, TypeOK, Made, NamedSegmentsLoad
  <1> HIDE DEF Loads
  <1> QED
    BY <1>1, <1>2, <1>3, Invariance, PTL DEF Spec

(* What flush, compact and rebuild publish is what they wrote, and nothing *)
(* that an earlier call left in a directory of the same name.              *)
THEOREM NothingIsLeftOver == Spec => []PublishesItsFilesOnly
  <1>1. IInv => PublishesItsFilesOnly
    <2> SUFFICES ASSUME IInv, pc = "publish" PROVE staged[id].files = want
      BY DEF PublishesItsFilesOnly
    <2>1. staging /\ new # {} /\ left = {}
      BY DEF IInv, Places, Files, Busy
    <2>2. staged[id].files = Without(want, {})
      BY <2>1 DEF IInv, NewSegment, Busy, InDir, Dir
    <2> QED
      BY <2>2, ContentFacts DEF IInv, TypeOK
  <1> QED
    BY <1>1, Invariance, PTL
=============================================================================
