-------------------------- MODULE LifecycleProofs --------------------------
(***************************************************************************)
(* What holds of Lifecycle for every set of names, dimensions, ids and     *)
(* rows, any number of collections and any number of crashes: no segment   *)
(* has two owners, though ids are handed out again after an open and       *)
(* handles of dropped collections write to the entries of others; and      *)
(* between calls manifest, memory and directories agree while no such      *)
(* handle is used; and as long as the log has not ceased to be replayable, *)
(* every directory opens, and shows what the acknowledged calls made of    *)
(* each name.                                                              *)
(***************************************************************************)
EXTENDS Lifecycle, CollViewLemmas

-----------------------------------------------------------------------------
(* The entries of the manifest. *)

ManifestEntry == [dim : Dim, segments : Seq(Nat)] \cup {NoEntry}

Entries == [Name -> ManifestEntry]

SegmentsOf(colls, n) == colls[n].segments

(* The ids that the manifest names. *)
NamedIn(colls) == UNION {ToSet(SegmentsOf(colls, n)) : n \in Name}

OwnedOnce(colls) ==
    /\ \A n \in Name : Distinct(SegmentsOf(colls, n))
    /\ \A n, m \in Name : n # m => ToSet(SegmentsOf(colls, n)) \cap ToSet(SegmentsOf(colls, m)) = {}

WithEntry(colls, n, e) == [colls EXCEPT ![n] = e]

LEMMA EntryFacts ==
    ASSUME NEW colls \in Entries, NEW n \in Name
    PROVE  /\ SegmentsOf(colls, n) \in Seq(Nat)
           /\ colls[n] \in ManifestEntry
           /\ colls[n] # NoEntry => colls[n] = [dim |-> colls[n].dim, segments |-> SegmentsOf(colls, n)]
           /\ colls[n] # NoEntry => colls[n].dim \in Dim
           /\ \A i \in DOMAIN SegmentsOf(colls, n) : SegmentsOf(colls, n)[i] \in ToSet(SegmentsOf(colls, n))
           /\ ToSet(SegmentsOf(colls, n)) \subseteq Nat
  <1>1. colls[n] \in ManifestEntry
    BY DEF Entries
  <1>2. SegmentsOf(colls, n) \in Seq(Nat)
    <2>1. NoEntry.segments = <<>>
      BY DEF NoEntry
    <2>2. <<>> \in Seq(Nat)
      OBVIOUS
    <2> QED
      BY <1>1, <2>1, <2>2 DEF ManifestEntry, SegmentsOf
  <1>3. \A i \in DOMAIN SegmentsOf(colls, n) : SegmentsOf(colls, n)[i] \in Nat
    BY <1>2
  <1>4. colls[n] # NoEntry => /\ colls[n].dim \in Dim
                              /\ colls[n] = [dim |-> colls[n].dim, segments |-> colls[n].segments]
    BY <1>1 DEF ManifestEntry
  <1> QED
    BY <1>1, <1>2, <1>3, <1>4 DEF ToSet, SegmentsOf

LEMMA NamedBy ==
    ASSUME NEW colls, NEW d
    PROVE  d \in NamedIn(colls) <=> \E n \in Name : d \in ToSet(SegmentsOf(colls, n))
  BY DEF NamedIn

LEMMA OwnedOnceIs ==
    ASSUME NEW colls, OwnedOnce(colls), NEW n \in Name, NEW m \in Name,
           NEW i \in DOMAIN SegmentsOf(colls, n), NEW k \in DOMAIN SegmentsOf(colls, m),
           SegmentsOf(colls, n)[i] = SegmentsOf(colls, m)[k]
    PROVE  n = m /\ i = k
  <1>1. /\ SegmentsOf(colls, n)[i] \in ToSet(SegmentsOf(colls, n))
        /\ SegmentsOf(colls, m)[k] \in ToSet(SegmentsOf(colls, m))
    BY DEF ToSet
  <1>2. n = m
    BY <1>1 DEF OwnedOnce
  <1> QED
    BY <1>2 DEF OwnedOnce, Distinct

(* One entry gives way to another one, whose ids it had already or nobody  *)
(* has.                                                                    *)
LEMMA EntryChanged ==
    ASSUME NEW colls \in Entries, OwnedOnce(colls), NEW n \in Name, NEW e \in ManifestEntry,
           Distinct(e.segments),
           ToSet(e.segments) \cap (NamedIn(colls) \ ToSet(SegmentsOf(colls, n))) = {}
    PROVE  /\ WithEntry(colls, n, e) \in Entries
           /\ OwnedOnce(WithEntry(colls, n, e))
           /\ WithEntry(colls, n, e)[n] = e
           /\ \A m \in Name \ {n} : WithEntry(colls, n, e)[m] = colls[m]
           /\ NamedIn(WithEntry(colls, n, e))
                = (NamedIn(colls) \ ToSet(SegmentsOf(colls, n))) \cup ToSet(e.segments)
  <1> DEFINE new == WithEntry(colls, n, e)
  <1>1. new \in Entries /\ new[n] = e /\ \A m \in Name \ {n} : new[m] = colls[m]
    BY DEF Entries, WithEntry
  <1> HIDE DEF new
  <1>2. /\ SegmentsOf(new, n) = e.segments
        /\ \A m \in Name \ {n} : SegmentsOf(new, m) = SegmentsOf(colls, m)
    BY <1>1 DEF SegmentsOf
  <1>3. \A m \in Name \ {n} : /\ ToSet(SegmentsOf(colls, m)) \cap ToSet(SegmentsOf(colls, n)) = {}
                              /\ ToSet(SegmentsOf(colls, m)) \cap ToSet(e.segments) = {}
    BY NamedBy DEF OwnedOnce
  <1>4. OwnedOnce(new)
    <2>1. \A m \in Name : Distinct(SegmentsOf(new, m))
      BY <1>2 DEF OwnedOnce
    <2>2. ASSUME NEW p \in Name, NEW m \in Name, p # m
          PROVE  ToSet(SegmentsOf(new, p)) \cap ToSet(SegmentsOf(new, m)) = {}
      BY <1>2, <1>3, <2>2 DEF OwnedOnce
    <2> QED
      BY <2>1, <2>2 DEF OwnedOnce
  <1>5. ASSUME NEW d
        PROVE  d \in NamedIn(new) <=>
                 d \in (NamedIn(colls) \ ToSet(SegmentsOf(colls, n))) \cup ToSet(e.segments)
    BY <1>2, <1>3, NamedBy
  <1> QED
    BY <1>1, <1>4, <1>5 DEF new

(* The ids that the manifest names are bounded. *)
LEMMA NamedAreBounded ==
    ASSUME NEW colls \in Entries
    PROVE  /\ NextSegIdAtOpen(NamedIn(colls)) \in Nat
           /\ \A d \in NamedIn(colls) : d \in Nat /\ d < NextSegIdAtOpen(NamedIn(colls))
  <1> DEFINE count == Cardinality(Name)
  <1>1. count \in Nat /\ ExistsBijection(1..count, Name)
    BY NameAssumption, FS_CardinalityType
  <1>2. PICK f : f \in Bijection(1..count, Name)
    BY <1>1 DEF ExistsBijection
  <1>3. f \in [1..count -> Name] /\ \A n \in Name : \E i \in 1..count : f[i] = n
    BY <1>2 DEF Bijection, Surjection
  <1> HIDE DEF count
  <1> DEFINE most == [i \in 1..count |-> Max({0} \cup ToSet(SegmentsOf(colls, f[i])))]
  <1>4. \A i \in 1..count : /\ most[i] \in Nat
                            /\ \A d \in ToSet(SegmentsOf(colls, f[i])) : d \in Nat /\ d <= most[i]
    <2> TAKE i \in 1..count
    <2>1. f[i] \in Name
      BY <1>3
    <2>2. SegmentsOf(colls, f[i]) \in Seq(Nat) /\ ToSet(SegmentsOf(colls, f[i])) \subseteq Nat
      BY <2>1, EntryFacts
    <2>3. /\ Max({0} \cup ToSet(SegmentsOf(colls, f[i]))) \in Nat
          /\ \A k \in DOMAIN SegmentsOf(colls, f[i]) :
               SegmentsOf(colls, f[i])[k] <= Max({0} \cup ToSet(SegmentsOf(colls, f[i])))
      BY <2>2, MaxOfSeq
    <2> QED
      BY <2>2, <2>3 DEF ToSet
  <1>5. most \in Seq(Nat) /\ DOMAIN most = 1..count
    BY <1>1, <1>4
  <1> HIDE DEF most
  <1>6. PICK bound \in Nat : \A i \in DOMAIN most : most[i] <= bound
    BY <1>5, SeqIsBounded
  <1> DEFINE T == {0} \cup NamedIn(colls)
  <1>7. \A d \in NamedIn(colls) : d \in Nat /\ d <= bound
    <2> TAKE d \in NamedIn(colls)
    <2>1. PICK n \in Name : d \in ToSet(SegmentsOf(colls, n))
      BY NamedBy
    <2>2. PICK i \in 1..count : f[i] = n
      BY <1>3
    <2>3. d \in Nat /\ d <= most[i] /\ most[i] \in Nat
      BY <1>4, <2>1, <2>2
    <2>4. most[i] <= bound
      BY <1>5, <1>6, <2>2
    <2> QED
      BY <2>3, <2>4
  <1>8. T \in SUBSET Nat /\ T # {} /\ (\A t \in T : t <= bound) /\ NamedIn(colls) \subseteq T
    BY <1>7
  <1>9. NextSegIdAtOpen(NamedIn(colls)) = Max(T) + 1
    BY DEF NextSegIdAtOpen
  <1> HIDE DEF T
  <1>10. Max(T) \in T /\ \A t \in T : t <= Max(T)
    BY <1>8, MaxIsGreatest
  <1>11. Max(T) \in Nat /\ \A d \in NamedIn(colls) : d \in Nat /\ d <= Max(T)
    BY <1>8, <1>10
  <1> QED
    BY <1>9, <1>11

-----------------------------------------------------------------------------
(* The log. *)

Call == [kind : {"create"}, name : Name, dim : Dim]
        \cup [kind : {"drop"}, name : Name]
        \cup [kind : {"upsert", "delete"}, name : Name, dim : Dim, ids : SUBSET Id]

LogRecord == [lsn : Nat, op : Call]

LEMMA RecordFacts ==
    ASSUME NEW f \in Seq(LogRecord)
    PROVE  /\ \A i \in DOMAIN f : f[i] \in LogRecord /\ f[i].lsn \in Nat /\ f[i].op \in Call
           /\ DOMAIN f = 1..Len(f) /\ Len(f) \in Nat
           /\ f # <<>> => Head(f) \in LogRecord /\ Head(f).op \in Call /\ Tail(f) \in Seq(LogRecord)
  <1>1. \A i \in DOMAIN f : f[i] \in LogRecord
    OBVIOUS
  <1>2. f # <<>> => Head(f) \in LogRecord /\ Tail(f) \in Seq(LogRecord)
    OBVIOUS
  <1> QED
    BY <1>1, <1>2 DEF LogRecord

LEMMA NextLsnType ==
    ASSUME NEW f \in Seq(LogRecord), NEW floor \in Nat
    PROVE  NextLsnAtOpen(f, floor) \in Nat /\ NextLsnAtOpen(f, floor) > 0
  <1> DEFINE lsns == [i \in 1..Len(f) |-> f[i].lsn]
  <1>1. lsns \in Seq(Nat) /\ DOMAIN lsns = DOMAIN f /\ \A i \in DOMAIN f : lsns[i] = f[i].lsn
    <2>1. lsns \in [1..Len(f) -> Nat]
      BY RecordFacts
    <2> QED
      BY <2>1, RecordFacts
  <1>2. {f[i].lsn : i \in DOMAIN f} = ToSet(lsns)
    BY <1>1 DEF ToSet
  <1> HIDE DEF lsns
  <1>3. LastLsn(f) \in Nat
    BY <1>1, <1>2, MaxOfSeq DEF LastLsn
  <1> DEFINE T == {floor, LastLsn(f) + 1}
  <1>4. T \in SUBSET Nat /\ T # {} /\ floor + LastLsn(f) + 1 \in Nat
        /\ \A t \in T : t <= floor + LastLsn(f) + 1
    BY <1>3
  <1> HIDE DEF T
  <1>5. Max(T) \in Nat /\ LastLsn(f) + 1 <= Max(T)
    <2>1. Max(T) \in T /\ \A t \in T : t <= Max(T)
      BY <1>4, MaxIsGreatest
    <2>2. LastLsn(f) + 1 \in T
      BY DEF T
    <2> QED
      BY <1>4, <2>1, <2>2
  <1> QED
    BY <1>3, <1>5 DEF T, NextLsnAtOpen

(* What is left to replay are records of the log. *)
LEMMA ToReplayType ==
    ASSUME NEW f \in Seq(LogRecord), NEW floor \in Nat
    PROVE  ToReplay(f, floor) \in Seq(LogRecord)
  <1> DEFINE Logs == Seq(LogRecord)
             n == Len(f)
             step == [k \in 1..n |-> [t \in Logs |-> IF Skips(f[k], floor) THEN t ELSE Append(t, f[k])]]
             K == CHOOSE kept : kept = [k \in 0..n |-> IF k = 0 THEN <<>>
                                                       ELSE IF Skips(f[k], floor) THEN kept[k - 1]
                                                       ELSE Append(kept[k - 1], f[k])]
  <1>1. n \in Nat /\ <<>> \in Logs /\ \A k \in 1..n : f[k] \in LogRecord
    BY RecordFacts
  <1>2. \A k \in 1..n : \A t \in Logs : /\ step[k][t] = IF Skips(f[k], floor) THEN t ELSE Append(t, f[k])
                                       /\ step[k][t] \in Logs
    BY <1>1
  <1>3. ToReplay(f, floor) = K[n]
    BY DEF ToReplay
  <1> HIDE DEF step, n
  <1>4. PICK c : c \in [0..n -> Logs] /\ c[0] = <<>> /\ \A k \in 1..n : c[k] = step[k][c[k - 1]]
    <2>1. AreSteps(step, n, Logs)
      BY <1>2 DEF AreSteps
    <2> HIDE DEF Logs
    <2>2. PICK c : IsRun(c, step, n, <<>>, Logs)
      BY <1>1, <2>1, StepsExist
    <2> QED
      BY <2>2 DEF IsRun
  <1> HIDE DEF Logs
  <1>5. ASSUME NEW k \in 0..n
        PROVE  c[k] = IF k = 0 THEN <<>>
                      ELSE IF Skips(f[k], floor) THEN c[k - 1] ELSE Append(c[k - 1], f[k])
    <2>1. CASE k = 0
      BY <1>4, <2>1
    <2>2. CASE k # 0
      <3>1. k \in 1..n /\ k - 1 \in 0..n
        BY <1>1, <2>2
      <3>2. c[k - 1] \in Logs
        BY <1>4, <3>1
      <3> QED
        BY <1>2, <1>4, <2>2, <3>1, <3>2
    <2> QED
      BY <2>1, <2>2
  <1>6. c = [k \in 0..n |-> IF k = 0 THEN <<>>
                            ELSE IF Skips(f[k], floor) THEN c[k - 1] ELSE Append(c[k - 1], f[k])]
    BY <1>4, <1>5
  <1>7. K = [k \in 0..n |-> IF k = 0 THEN <<>>
                            ELSE IF Skips(f[k], floor) THEN K[k - 1] ELSE Append(K[k - 1], f[k])]
    BY <1>6
  <1> HIDE DEF K
  <1> DEFINE S == {k \in 0..n : K[k] \in Logs}
  <1>8. 0 \in S
    BY <1>1, <1>7
  <1>9. ASSUME NEW k \in 0..(n - 1), k \in S PROVE k + 1 \in S
    <2>1. k + 1 \in 1..n /\ k + 1 \in 0..n /\ k + 1 # 0 /\ (k + 1) - 1 = k /\ K[k] \in Logs
      BY <1>1, <1>9
    <2>2. K[k + 1] = IF Skips(f[k + 1], floor) THEN K[k] ELSE Append(K[k], f[k + 1])
      BY <1>7, <2>1
    <2>3. K[k + 1] \in Logs
      BY <1>1, <2>1, <2>2 DEF Logs
    <2> QED
      BY <2>1, <2>3
  <1>10. n \in S => K[n] \in Logs
    OBVIOUS
  <1> HIDE DEF S
  <1>11. n \in S
    <2>1. \A k \in 0..n : k \in S
      BY <1>1, <1>8, <1>9, LoopInduction
    <2> QED
      BY <1>1, <2>1
  <1> QED
    BY <1>3, <1>10, <1>11 DEF Logs

-----------------------------------------------------------------------------
(* The collections in memory. *)

CollObject == [name : Name, dim : Dim, view : View, segIds : Seq(Nat)]

(* An id for each segment. *)
Objects(os) ==
    /\ os \in Seq(CollObject)
    /\ \A o \in DOMAIN os : Len(os[o].segIds) = Len(os[o].view.immutables)

WithObject(os, o, view, segIds) ==
    [os EXCEPT ![o] = Object(os[o].name, os[o].dim, view, segIds)]

LEMMA ObjectFacts ==
    ASSUME NEW os, Objects(os), NEW o \in DOMAIN os
    PROVE  /\ os[o] \in CollObject
           /\ os[o] = Object(os[o].name, os[o].dim, os[o].view, os[o].segIds)
           /\ os[o].name \in Name /\ os[o].dim \in Dim
           /\ os[o].view \in View /\ os[o].segIds \in Seq(Nat)
           /\ Len(os[o].segIds) = Len(os[o].view.immutables)
           /\ DOMAIN os[o].segIds = DOMAIN os[o].view.immutables
           /\ ToSet(os[o].segIds) \subseteq Nat
           /\ DOMAIN os = 1..Len(os) /\ Len(os) \in Nat
           /\ o # NoObj
  <1>1. os \in Seq(CollObject) /\ Len(os[o].segIds) = Len(os[o].view.immutables)
    BY DEF Objects
  <1>2. os[o] \in CollObject /\ DOMAIN os = 1..Len(os) /\ Len(os) \in Nat
    BY <1>1
  <1>3. /\ os[o].name \in Name /\ os[o].dim \in Dim /\ os[o].view \in View /\ os[o].segIds \in Seq(Nat)
        /\ os[o] = Object(os[o].name, os[o].dim, os[o].view, os[o].segIds)
    BY <1>2 DEF CollObject, Object
  <1>4. os[o].view.immutables \in Seq(Segment)
    BY <1>3 DEF View
  <1>5. /\ DOMAIN os[o].segIds = 1..Len(os[o].segIds)
        /\ DOMAIN os[o].view.immutables = 1..Len(os[o].view.immutables)
        /\ \A i \in DOMAIN os[o].segIds : os[o].segIds[i] \in Nat
    BY <1>3, <1>4
  <1>6. ToSet(os[o].segIds) \subseteq Nat
    BY <1>5 DEF ToSet
  <1> QED
    BY <1>1, <1>2, <1>3, <1>5, <1>6 DEF NoObj

Edited(x, view, segIds) == [x EXCEPT !.view = view, !.segIds = segIds]

LEMMA EditedObject ==
    ASSUME NEW x \in CollObject, NEW view, NEW segIds
    PROVE  Edited(x, view, segIds) = Object(x.name, x.dim, view, segIds)
  <1>1. x = [name |-> x.name, dim |-> x.dim, view |-> x.view, segIds |-> x.segIds]
    BY DEF CollObject
  <1>2. [x EXCEPT !.view = view] = [name |-> x.name, dim |-> x.dim, view |-> view, segIds |-> x.segIds]
    BY <1>1
  <1>3. [[name |-> x.name, dim |-> x.dim, view |-> view, segIds |-> x.segIds] EXCEPT !.segIds = segIds]
          = [name |-> x.name, dim |-> x.dim, view |-> view, segIds |-> segIds]
    OBVIOUS
  <1>4. Edited(x, view, segIds) = [[x EXCEPT !.view = view] EXCEPT !.segIds = segIds]
    BY DEF Edited
  <1> QED
    BY <1>2, <1>3, <1>4 DEF Object

LEMMA ObjectChanged ==
    ASSUME NEW os, Objects(os), NEW o \in DOMAIN os, NEW view \in View, NEW segIds \in Seq(Nat),
           Len(segIds) = Len(view.immutables)
    PROVE  /\ Objects(WithObject(os, o, view, segIds))
           /\ DOMAIN WithObject(os, o, view, segIds) = DOMAIN os
           /\ WithObject(os, o, view, segIds)[o] = Object(os[o].name, os[o].dim, view, segIds)
           /\ \A p \in DOMAIN os : p # o => WithObject(os, o, view, segIds)[p] = os[p]
           /\ \A p \in DOMAIN os : /\ WithObject(os, o, view, segIds)[p].name = os[p].name
                                   /\ WithObject(os, o, view, segIds)[p].dim = os[p].dim
           /\ WithObject(os, o, view, segIds)[o].segIds = segIds
  <1> DEFINE new == Object(os[o].name, os[o].dim, view, segIds)
  <1>1. new \in CollObject
    BY ObjectFacts DEF Object, CollObject
  <1>2. new.name = os[o].name /\ new.dim = os[o].dim /\ new.view = view /\ new.segIds = segIds
    BY DEF Object
  <1>3. os \in Seq(CollObject)
    BY DEF Objects
  <1> DEFINE w == WithObject(os, o, view, segIds)
  <1>4. w = [os EXCEPT ![o] = new]
    BY DEF WithObject
  <1> HIDE DEF new, w
  <1>5. w \in Seq(CollObject) /\ DOMAIN w = DOMAIN os /\ w[o] = new
        /\ \A p \in DOMAIN os : p # o => w[p] = os[p]
    BY <1>1, <1>3, <1>4
  <1>6. Objects(w)
    BY <1>2, <1>5 DEF Objects
  <1>7. \A p \in DOMAIN os : w[p].name = os[p].name /\ w[p].dim = os[p].dim
    BY <1>2, <1>5
  <1> QED
    BY <1>2, <1>5, <1>6, <1>7 DEF w, new

-----------------------------------------------------------------------------
(* The inductive invariant. *)

Named == NamedIn(manifest.colls)
Listed(n) == SegmentsOf(manifest.colls, n)

Up == pc \notin {"down", "failed"}

Types ==
    /\ manifest \in [floor : Nat, colls : Entries]
    /\ walFile \in Seq(LogRecord)
    /\ records \in Seq(LogRecord)
    /\ DOMAIN dirs \subseteq Nat
    /\ \A d \in DOMAIN dirs : dirs[d] \in Segment
    /\ Objects(objs)
    /\ coll \in [Name -> {NoObj} \cup DOMAIN objs]
    /\ \A n \in Name : coll[n] # NoObj => objs[coll[n]].name = n
    /\ nextSegId \in Nat
    /\ nextLsn \in Nat
    /\ pc # "down" => nextLsn > 0
    /\ pc \in PC
    /\ old \subseteq Nat

(* What is in progress at each step. *)
Phases ==
    /\ pc \in {"create", "drop", "apply"} => op \in Call
    /\ pc = "create" => op.kind = "create"
    /\ pc = "apply" => op.kind \in {"upsert", "delete"}
    /\ pc \in {"apply", "compact_publish"} => target \in DOMAIN objs
    /\ todo \subseteq Nat
    /\ todo # {} => pc \in {"rebuild", "clean"} /\ target \in DOMAIN objs
    /\ pc = "rebuild" => todo # {}
    /\ DOMAIN fresh = IF pc \in {"flush_publish", "flush_reset"} THEN Flushed ELSE {}
    /\ old # {} => pc \in {"clean", "compact_publish"}

(* Segment ids are handed out once. *)
Ids ==
    /\ OwnedOnce(manifest.colls)
    /\ Up => \A d \in Named \cup DOMAIN dirs : d < nextSegId
    /\ \A o \in DOMAIN fresh : fresh[o] \in DOMAIN dirs
    /\ \A o, p \in DOMAIN fresh : fresh[o] = fresh[p] => o = p
    /\ pc = "flush_publish" => \A o \in DOMAIN fresh : fresh[o] \notin Named
    /\ pc = "compact_publish" =>
         \/ objs[target].segIds = <<>>
         \/ \E d \in DOMAIN dirs \ Named : objs[target].segIds = <<d>>

(* The collections of the manifest are those in memory. *)
Known == \A n \in Name : IF coll[n] = NoObj THEN Entry(n) = NoEntry
                         ELSE Entry(n) # NoEntry /\ Entry(n).dim = objs[coll[n]].dim

Target == coll[objs[target].name] = target

(* So are their segments, and the directories, as long as no handle of a   *)
(* dropped collection has been used.                                       *)
Mirror ==
    /\ pc = "create" => coll[op.name] = NoObj
    /\ pc \in {"apply", "rebuild", "compact_publish"} \/ todo # {} => Target
    /\ \A n \in Name : coll[n] # NoObj /\ ~(pc = "compact_publish" /\ coll[n] = target) =>
         Listed(n) = IF pc = "flush_reset" /\ coll[n] \in DOMAIN fresh
                       THEN Append(objs[coll[n]].segIds, fresh[coll[n]])
                       ELSE objs[coll[n]].segIds
    /\ DOMAIN dirs = Named \cup old
                       \cup IF pc = "flush_publish" THEN {fresh[o] : o \in DOMAIN fresh}
                            ELSE IF pc = "compact_publish" THEN ToSet(objs[target].segIds)
                            ELSE {}
    /\ pc = "clean" => old \cap Named = {}
    /\ pc = "compact_publish" => old = ToSet(Listed(objs[target].name))

Stale == "stale" \in excused

IInv ==
    /\ Types
    /\ Phases
    /\ Ids
    /\ Up => Known
    /\ Up /\ ~Stale => Mirror

LEMMA InitHolds == Init => IInv
  <1> SUFFICES ASSUME Init PROVE IInv
    OBVIOUS
  <1>1. /\ manifest = [floor |-> 0, colls |-> [n \in Name |-> NoEntry]]
        /\ walFile = <<>> /\ dirs = <<>> /\ objs = <<>> /\ coll = [n \in Name |-> NoObj]
        /\ nextSegId = 1 /\ nextLsn = 1 /\ pc = "ready" /\ todo = {} /\ fresh = <<>> /\ old = {}
        /\ records = <<>>
    BY DEF Init
  <1>2. DOMAIN <<>> = {} /\ ToSet(<<>>) = {}
    BY DEF ToSet
  <1>3. /\ manifest.colls \in Entries
        /\ \A n \in Name : Entry(n) = NoEntry /\ Listed(n) = <<>>
    BY <1>1 DEF Entries, ManifestEntry, Entry, Listed, SegmentsOf, NoEntry
  <1>4. Named = {} /\ OwnedOnce(manifest.colls)
    BY <1>2, <1>3 DEF Named, NamedIn, OwnedOnce, Listed, Distinct
  <1>5. Types
    BY <1>1, <1>2, <1>3 DEF Types, Objects, PC
  <1>6. Phases
    BY <1>1, <1>2 DEF Phases
  <1>7. Ids
    BY <1>1, <1>2, <1>4 DEF Ids
  <1>8. Known
    BY <1>1, <1>3 DEF Known
  <1>9. Mirror
    BY <1>1, <1>2, <1>4 DEF Mirror
  <1> QED
    BY <1>5, <1>6, <1>7, <1>8, <1>9 DEF IInv

LEMMA StateFacts ==
    ASSUME IInv
    PROVE  /\ manifest.colls \in Entries /\ manifest.floor \in Nat
           /\ manifest = [floor |-> manifest.floor, colls |-> manifest.colls]
           /\ OwnedOnce(manifest.colls)
           /\ Objects(objs) /\ objs \in Seq(CollObject)
           /\ \A n \in Name : coll[n] \in {NoObj} \cup DOMAIN objs
           /\ \A n \in Name : coll[n] # NoObj => objs[coll[n]].name = n /\ coll[n] \in DOMAIN objs
           /\ \A n, m \in Name : coll[n] # NoObj /\ coll[n] = coll[m] => n = m
           /\ Named \subseteq Nat
           /\ \A n \in Name : /\ Listed(n) \in Seq(Nat)
                              /\ Distinct(Listed(n))
                              /\ ToSet(Listed(n)) \subseteq Named
                              /\ Entry(n) \in ManifestEntry
                              /\ Entry(n).segments = Listed(n)
  <1>1. manifest \in [floor : Nat, colls : Entries] /\ OwnedOnce(manifest.colls)
    BY DEF IInv, Types, Ids
  <1>2. /\ Objects(objs)
        /\ coll \in [Name -> {NoObj} \cup DOMAIN objs]
        /\ \A n \in Name : coll[n] # NoObj => objs[coll[n]].name = n
    BY DEF IInv, Types
  <1>3. manifest.colls \in Entries
    BY <1>1
  <1>4. \A n \in Name : /\ Listed(n) \in Seq(Nat) /\ Entry(n) \in ManifestEntry
                        /\ Entry(n).segments = Listed(n) /\ ToSet(Listed(n)) \subseteq Nat
    BY <1>3, EntryFacts DEF Listed, Entry, SegmentsOf
  <1>5. Named \subseteq Nat /\ \A n \in Name : ToSet(Listed(n)) \subseteq Named
    BY <1>4 DEF Named, NamedIn, Listed
  <1>6. \A n \in Name : Distinct(Listed(n))
    BY <1>1 DEF OwnedOnce, Listed
  <1>7. objs \in Seq(CollObject)
    BY <1>2 DEF Objects
  <1> QED
    BY <1>1, <1>2, <1>3, <1>4, <1>5, <1>6, <1>7

(* A step that replaces one entry of the manifest. *)
LEMMA EntryStep ==
    ASSUME IInv, NEW n \in Name, NEW e \in ManifestEntry, Distinct(e.segments),
           ToSet(e.segments) \cap (Named \ ToSet(Listed(n))) = {},
           manifest' = [floor |-> manifest.floor, colls |-> WithEntry(manifest.colls, n, e)]
    PROVE  /\ manifest' \in [floor : Nat, colls : Entries]
           /\ OwnedOnce(manifest.colls')
           /\ Entry(n)' = e /\ Listed(n)' = e.segments
           /\ \A m \in Name \ {n} : Listed(m)' = Listed(m) /\ Entry(m)' = Entry(m)
           /\ Named' = (Named \ ToSet(Listed(n))) \cup ToSet(e.segments)
  <1> DEFINE new == WithEntry(manifest.colls, n, e)
  <1>1. manifest.colls \in Entries /\ OwnedOnce(manifest.colls) /\ manifest.floor \in Nat
    BY StateFacts
  <1>2. ToSet(e.segments) \cap (NamedIn(manifest.colls) \ ToSet(SegmentsOf(manifest.colls, n))) = {}
    BY DEF Named, Listed
  <1>3. /\ new \in Entries
        /\ OwnedOnce(new)
        /\ new[n] = e
        /\ \A m \in Name \ {n} : new[m] = manifest.colls[m]
        /\ NamedIn(new) = (NamedIn(manifest.colls) \ ToSet(SegmentsOf(manifest.colls, n)))
                            \cup ToSet(e.segments)
    BY <1>1, <1>2, EntryChanged
  <1> HIDE DEF new
  <1>4. manifest' = [floor |-> manifest.floor, colls |-> new]
    BY DEF new
  <1>5. manifest'.colls = new /\ manifest' \in [floor : Nat, colls : Entries]
    BY <1>1, <1>3, <1>4
  <1>6. Entry(n)' = e /\ Listed(n)' = e.segments
    BY <1>3, <1>5 DEF Entry, Listed, SegmentsOf
  <1>7. \A m \in Name \ {n} : Listed(m)' = Listed(m) /\ Entry(m)' = Entry(m)
    BY <1>3, <1>5 DEF Entry, Listed, SegmentsOf
  <1>8. Named' = (Named \ ToSet(Listed(n))) \cup ToSet(e.segments)
    BY <1>3, <1>5 DEF Named, Listed
  <1> QED
    BY <1>3, <1>5, <1>6, <1>7, <1>8

(* The end of a call. *)
LEMMA EndFacts ==
    ASSUME IInv, Finish \/ Fail
    PROVE  /\ records' \in Seq(LogRecord)
           /\ pc' \in {"ready", "replay", "failed"} /\ pc' \in PC
  <1>1. records \in Seq(LogRecord)
    BY DEF IInv, Types
  <1>2. CASE records = <<>>
    BY <1>1, <1>2 DEF Finish, Fail, PC
  <1>3. CASE records # <<>>
    <2>1. Tail(records) \in Seq(LogRecord) /\ <<>> \in Seq(LogRecord)
      BY <1>1, <1>3, RecordFacts
    <2>2. CASE Finish
      BY <1>3, <2>1, <2>2 DEF Finish, PC
    <2>3. CASE Fail
      BY <1>3, <2>1, <2>3 DEF Fail, PC
    <2> QED
      BY <2>2, <2>3
  <1> QED
    BY <1>2, <1>3

(* A step that leaves the collections and the manifest as they are. *)
LEMMA SameCollections ==
    ASSUME UNCHANGED <<manifest, coll, objs>>
    PROVE  /\ Named' = Named /\ (\A n : Listed(n)' = Listed(n) /\ Entry(n)' = Entry(n))
           /\ Known' = Known /\ Flushed' = Flushed
  BY DEF Named, Listed, Entry, Known, Flushed, IsCurrent

LEMMA LogKeeps ==
    ASSUME IInv, NEW o \in Call, Log(o), Stale => Stale',
           \/ pc' = "create" /\ o.kind = "create" /\ coll[o.name] = NoObj
           \/ pc' = "drop"
           \/ /\ pc' = "apply" /\ o.kind \in {"upsert", "delete"} /\ target' \in DOMAIN objs
              /\ coll[objs[target'].name] = target' \/ Stale'
    PROVE  IInv'
  <1>1. /\ pc = "ready" /\ walFile' = Append(walFile, Record(nextLsn, o)) /\ nextLsn' = nextLsn + 1
        /\ op' = o
        /\ UNCHANGED <<manifest, dirs, objs, coll, nextSegId, todo, fresh, old, records>>
    BY DEF Log
  <1>2. pc' \in {"create", "drop", "apply"}
    OBVIOUS
  <1>3. todo = {} /\ DOMAIN fresh = {} /\ old = {}
    BY <1>1 DEF IInv, Phases
  <1>4. Named' = Named /\ (\A n : Listed(n)' = Listed(n)) /\ Known' = Known
    BY <1>1, SameCollections
  <1>5. Types'
    <2>1. Record(nextLsn, o) \in LogRecord /\ nextLsn' \in Nat
      BY <1>1 DEF IInv, Types, Record, LogRecord
    <2>2. walFile' \in Seq(LogRecord)
      BY <1>1, <2>1 DEF IInv, Types
    <2> QED
      BY <1>1, <1>2, <2>1, <2>2 DEF IInv, Types, PC
  <1>6. Phases'
    BY <1>1, <1>2, <1>3 DEF Phases
  <1>7. Ids'
    BY <1>1, <1>2, <1>3, <1>4 DEF IInv, Ids, Up
  <1>8. (Up => Known)'
    BY <1>1, <1>4 DEF IInv, Up
  <1>9. (Up /\ ~Stale => Mirror)'
    <2> SUFFICES ASSUME ~Stale' PROVE Mirror'
      OBVIOUS
    <2>1. Mirror
      BY <1>1 DEF IInv, Up
    <2> QED
      BY <1>1, <1>2, <1>3, <1>4, <2>1 DEF Mirror, Target
  <1> QED
    BY <1>5, <1>6, <1>7, <1>8, <1>9 DEF IInv

(* What the invariant says between the steps that publish something. *)
LEMMA SettledFacts ==
    ASSUME IInv, pc \in {"ready", "replay", "create", "drop", "apply", "rebuild", "clean"}
    PROVE  /\ Up /\ Known
           /\ DOMAIN fresh = {}
           /\ \A d \in Named \cup DOMAIN dirs : d \in Nat /\ d < nextSegId
           /\ pc # "clean" => old = {}
           /\ ~Stale =>
                /\ \A n \in Name : coll[n] # NoObj => Listed(n) = objs[coll[n]].segIds
                /\ DOMAIN dirs = Named \cup old
                /\ old \cap Named = {}
                /\ pc \in {"apply", "rebuild"} \/ todo # {} => Target
                /\ pc = "create" => coll[op.name] = NoObj
  <1>1. Up /\ Known
    BY DEF IInv, Up
  <1>2. DOMAIN fresh = {} /\ (pc # "clean" => old = {})
    BY DEF IInv, Phases
  <1>3. \A d \in Named \cup DOMAIN dirs : d \in Nat /\ d < nextSegId
    BY <1>1, StateFacts DEF IInv, Ids, Types
  <1>4. ~Stale => Mirror
    BY <1>1 DEF IInv
  <1>5. ~Stale => /\ \A n \in Name : coll[n] # NoObj => Listed(n) = objs[coll[n]].segIds
                  /\ DOMAIN dirs = Named \cup old
                  /\ pc = "clean" => old \cap Named = {}
                  /\ pc \in {"apply", "rebuild"} \/ todo # {} => Target
                  /\ pc = "create" => coll[op.name] = NoObj
    BY <1>4 DEF Mirror
  <1> QED
    BY <1>1, <1>2, <1>3, <1>5

(* What is to show of a step to such a state. *)
LEMMA Settled ==
    ASSUME Types', Known', OwnedOnce(manifest.colls'),
           \A d \in Named' \cup DOMAIN dirs' : d < nextSegId',
           pc' \in {"ready", "replay", "failed", "rebuild", "clean"},
           DOMAIN fresh' = {},
           todo' \subseteq Nat,
           todo' # {} => pc' \in {"rebuild", "clean"} /\ target' \in DOMAIN objs',
           pc' = "rebuild" => todo' # {},
           old' # {} => pc' = "clean",
           ~Stale' => /\ \A n \in Name : coll'[n] # NoObj => Listed(n)' = objs'[coll'[n]].segIds
                      /\ DOMAIN dirs' = Named' \cup old'
                      /\ old' \cap Named' = {}
                      /\ todo' # {} => Target'
    PROVE  IInv'
  <1>1. Phases'
    BY DEF Phases
  <1>2. Ids'
    BY DEF Ids, Up
  <1>3. ~Stale' => Mirror'
    BY DEF Mirror
  <1> QED
    BY <1>1, <1>2, <1>3 DEF IInv

-----------------------------------------------------------------------------
(* create_collection, drop_collection and the writes reach the log. *)

LEMMA CreateKeeps ==
    ASSUME IInv, NEW name \in Name, NEW dim \in Dim, Create(name, dim)
    PROVE  IInv'
  <1> DEFINE o == [kind |-> "create", name |-> name, dim |-> dim]
  <1>1. o \in Call /\ o.kind = "create" /\ o.name = name
    BY DEF Call
  <1>2. Log(o) /\ coll[name] = NoObj /\ pc' = "create" /\ (Stale => Stale')
    BY DEF Create, Stale
  <1> HIDE DEF o
  <1> QED
    BY <1>1, <1>2, LogKeeps

LEMMA DropKeeps ==
    ASSUME IInv, NEW name \in Name, Drop(name)
    PROVE  IInv'
  <1> DEFINE o == [kind |-> "drop", name |-> name]
  <1>1. o \in Call
    BY DEF Call
  <1>2. Log(o) /\ pc' = "drop" /\ (Stale => Stale')
    BY DEF Drop, Stale
  <1> HIDE DEF o
  <1> QED
    BY <1>1, <1>2, LogKeeps

LEMMA WriteKeeps ==
    ASSUME IInv, NEW o \in DOMAIN objs, NEW kind \in {"upsert", "delete"}, NEW id \in Id,
           Write(o, kind, {id})
    PROVE  IInv'
  <1> DEFINE r == [kind |-> kind, name |-> objs[o].name, dim |-> objs[o].dim, ids |-> {id}]
  <1>1. objs[o].name \in Name /\ objs[o].dim \in Dim
    BY StateFacts, ObjectFacts
  <1>2. r \in Call /\ r.kind = kind
    BY <1>1 DEF Call
  <1>3. Log(r) /\ pc' = "apply" /\ target' = o /\ (Stale => Stale')
    BY DEF Write, Stale
  <1>4. IsCurrent(o) \/ Stale'
    BY DEF Write, Stale
  <1>5. coll[objs[target'].name] = target' \/ Stale'
    BY <1>3, <1>4 DEF IsCurrent
  <1> HIDE DEF r
  <1> QED
    BY <1>2, <1>3, <1>5, LogKeeps

-----------------------------------------------------------------------------
(* create_collection and drop_collection are published. *)

LEMMA NoEntryFacts ==
    NoEntry \in ManifestEntry /\ NoEntry.segments = <<>> /\ NoEntry.dim = 0
    /\ Distinct(<<>>) /\ ToSet(<<>>) = {}
  BY DEF NoEntry, ManifestEntry, Distinct, ToSet

LEMMA CreatePublishKeeps ==
    ASSUME IInv, CreatePublish
    PROVE  IInv'
  <1>0. pc = "create" /\ op.name \in Name /\ op.dim \in Dim
    BY DEF CreatePublish, IInv, Phases, Call
  <1> PICK n \in Name : n = op.name
    BY <1>0
  <1> DEFINE e == [dim |-> op.dim, segments |-> <<>>]
             new == Object(n, op.dim, EmptyView, <<>>)
             k == Len(objs) + 1
  <1>1. /\ pc = "create"
        /\ manifest' = [manifest EXCEPT !.colls[n] = e]
        /\ objs' = Append(objs, new)
        /\ coll' = [coll EXCEPT ![n] = k]
        /\ Finish
        /\ UNCHANGED <<walFile, dirs, nextSegId, nextLsn, op, target, todo, fresh, old, history>>
    BY DEF CreatePublish
  <1>2. n \in Name /\ op.dim \in Dim
    BY <1>0
  <1>3. e \in ManifestEntry /\ e.segments = <<>> /\ e # NoEntry /\ e.dim = op.dim
    BY <1>2, DimAssumption DEF ManifestEntry, NoEntry
  <1>4. new \in CollObject /\ new.name = n /\ new.dim = op.dim /\ new.segIds = <<>>
        /\ Len(new.segIds) = Len(new.view.immutables)
    <2>1. EmptyView \in View /\ EmptyView.immutables = <<>>
      BY EmptyViewType DEF EmptyView
    <2> QED
      BY <1>2, <2>1 DEF Object, CollObject
  <1>5. manifest' = [floor |-> manifest.floor, colls |-> WithEntry(manifest.colls, n, e)]
    <2>1. manifest = [floor |-> manifest.floor, colls |-> manifest.colls]
      BY StateFacts
    <2> QED
      BY <1>1, <2>1 DEF WithEntry
  <1> HIDE DEF e, new
  <1>6. /\ manifest' \in [floor : Nat, colls : Entries]
        /\ OwnedOnce(manifest.colls')
        /\ Entry(n)' = e /\ Listed(n)' = <<>>
        /\ \A m \in Name \ {n} : Listed(m)' = Listed(m) /\ Entry(m)' = Entry(m)
        /\ Named' = Named \ ToSet(Listed(n))
    BY <1>2, <1>3, <1>5, EntryStep, NoEntryFacts
  <1>8. /\ objs \in Seq(CollObject) /\ objs' \in Seq(CollObject)
        /\ DOMAIN objs' = DOMAIN objs \cup {k} /\ k \notin DOMAIN objs /\ k # NoObj
        /\ objs'[k] = new /\ \A o \in DOMAIN objs : objs'[o] = objs[o]
    BY <1>1, <1>4, StateFacts DEF NoObj
  <1>9. Objects(objs')
    BY <1>4, <1>8, StateFacts DEF Objects
  <1>10. /\ coll' \in [Name -> {NoObj} \cup DOMAIN objs']
         /\ coll'[n] = k
         /\ \A m \in Name \ {n} : coll'[m] = coll[m]
    BY <1>1, <1>2, <1>8 DEF IInv, Types
  <1>11. \A m \in Name : coll'[m] # NoObj => objs'[coll'[m]].name = m
    BY <1>4, <1>8, <1>10, StateFacts
  <1>12. records' \in Seq(LogRecord) /\ pc' \in PC /\ pc' \in {"ready", "replay", "failed"}
    BY <1>1, EndFacts
  <1>13. Types'
    BY <1>1, <1>5, <1>6, <1>9, <1>10, <1>11, <1>12 DEF IInv, Types
  <1>14. /\ Known /\ DOMAIN fresh = {} /\ old = {}
         /\ \A d \in Named \cup DOMAIN dirs : d \in Nat /\ d < nextSegId
         /\ ~Stale => /\ \A m \in Name : coll[m] # NoObj => Listed(m) = objs[coll[m]].segIds
                      /\ DOMAIN dirs = Named
                      /\ coll[n] = NoObj
    BY <1>1, SettledFacts
  <1>15. todo = {}
    BY <1>1 DEF IInv, Phases
  <1>16. Known'
    <2>1. ASSUME NEW m \in Name
          PROVE  IF coll'[m] = NoObj THEN Entry(m)' = NoEntry
                 ELSE Entry(m)' # NoEntry /\ Entry(m)'.dim = objs'[coll'[m]].dim
      <3>1. CASE m = n
        <4>1. coll'[m] = k /\ k # NoObj /\ objs'[k] = new /\ Entry(m)' = e
          BY <1>6, <1>8, <1>10, <3>1
        <4> QED
          BY <1>3, <1>4, <4>1
      <3>2. CASE m # n
        <4>1. coll'[m] = coll[m] /\ Entry(m)' = Entry(m)
          BY <1>6, <1>10, <3>2
        <4>2. coll[m] # NoObj => objs'[coll[m]] = objs[coll[m]]
          BY <1>8, StateFacts
        <4> QED
          BY <1>14, <4>1, <4>2 DEF Known
      <3> QED
        BY <3>1, <3>2
    <2> QED
      BY <2>1 DEF Known
  <1>17. ~Stale => Listed(n) = <<>>
    <2>1. ~Stale => Entry(n) = NoEntry
      BY <1>2, <1>14 DEF Known
    <2> QED
      BY <1>2, <2>1, StateFacts, NoEntryFacts
  <1>18. Stale' = Stale
    BY <1>1 DEF Stale, history
  <1>19. ~Stale' => /\ \A m \in Name : coll'[m] # NoObj => Listed(m)' = objs'[coll'[m]].segIds
                    /\ DOMAIN dirs' = Named' \cup old'
                    /\ old' \cap Named' = {}
    <2> SUFFICES ASSUME ~Stale
                 PROVE  /\ \A m \in Name : coll'[m] # NoObj => Listed(m)' = objs'[coll'[m]].segIds
                        /\ DOMAIN dirs' = Named' \cup old'
                        /\ old' \cap Named' = {}
      BY <1>18
    <2>1. ASSUME NEW m \in Name, coll'[m] # NoObj
          PROVE  Listed(m)' = objs'[coll'[m]].segIds
      <3>1. CASE m = n
        BY <1>4, <1>6, <1>8, <1>10, <3>1
      <3>2. CASE m # n
        <4>1. coll'[m] = coll[m] /\ Listed(m)' = Listed(m) /\ objs'[coll[m]] = objs[coll[m]]
          BY <1>6, <1>8, <1>10, <2>1, <3>2, StateFacts
        <4> QED
          BY <1>14, <2>1, <4>1
      <3> QED
        BY <3>1, <3>2
    <2>2. Named' = Named
      BY <1>6, <1>17, NoEntryFacts
    <2> QED
      BY <1>1, <1>14, <2>1, <2>2
  <1>20. \A d \in Named' \cup DOMAIN dirs' : d < nextSegId'
    BY <1>1, <1>6, <1>14
  <1> QED
    BY <1>1, <1>6, <1>12, <1>13, <1>14, <1>15, <1>16, <1>19, <1>20, Settled

LEMMA DropPublishKeeps ==
    ASSUME IInv, DropPublish
    PROVE  IInv'
  <1>0. pc = "drop" /\ op.name \in Name
    BY DEF DropPublish, IInv, Phases, Call
  <1> PICK n \in Name : n = op.name
    BY <1>0
  <1>1. /\ pc = "drop"
        /\ manifest' = [manifest EXCEPT !.colls[n] = NoEntry]
        /\ coll' = [coll EXCEPT ![n] = NoObj]
        /\ old' = ToSet(Entry(n).segments)
        /\ IF old' = {} THEN Finish ELSE pc' = "clean" /\ UNCHANGED records
        /\ UNCHANGED <<walFile, dirs, objs, nextSegId, nextLsn, op, target, todo, fresh, history>>
    BY DEF DropPublish
  <1>2. n \in Name
    BY <1>0
  <1>3. manifest' = [floor |-> manifest.floor, colls |-> WithEntry(manifest.colls, n, NoEntry)]
    <2>1. manifest = [floor |-> manifest.floor, colls |-> manifest.colls]
      BY StateFacts
    <2> QED
      BY <1>1, <2>1 DEF WithEntry
  <1>4. /\ manifest' \in [floor : Nat, colls : Entries]
        /\ OwnedOnce(manifest.colls')
        /\ Entry(n)' = NoEntry
        /\ \A m \in Name \ {n} : Listed(m)' = Listed(m) /\ Entry(m)' = Entry(m)
        /\ Named' = Named \ ToSet(Listed(n))
    BY <1>2, <1>3, EntryStep, NoEntryFacts
  <1>6. /\ coll' \in [Name -> {NoObj} \cup DOMAIN objs']
        /\ coll'[n] = NoObj
        /\ \A m \in Name \ {n} : coll'[m] = coll[m]
    BY <1>1, <1>2 DEF IInv, Types
  <1>7. old' = ToSet(Listed(n)) /\ old' \subseteq Named /\ Named \subseteq Nat
    BY <1>1, <1>2, StateFacts
  <1>8. records' \in Seq(LogRecord) /\ pc' \in PC /\ pc' \in {"ready", "replay", "failed", "clean"}
        /\ (old' # {} => pc' = "clean")
    <2>1. CASE old' = {}
      BY <1>1, <2>1, EndFacts
    <2>2. CASE old' # {}
      BY <1>1, <2>2 DEF IInv, Types, PC
    <2> QED
      BY <2>1, <2>2
  <1>9. Types'
    BY <1>1, <1>2, <1>3, <1>4, <1>6, <1>7, <1>8 DEF IInv, Types
  <1>10. /\ Known /\ DOMAIN fresh = {} /\ old = {}
         /\ \A d \in Named \cup DOMAIN dirs : d \in Nat /\ d < nextSegId
         /\ ~Stale => /\ \A m \in Name : coll[m] # NoObj => Listed(m) = objs[coll[m]].segIds
                      /\ DOMAIN dirs = Named
    BY <1>1, SettledFacts
  <1>11. todo = {}
    BY <1>1 DEF IInv, Phases
  <1>12. Known'
    BY <1>1, <1>2, <1>4, <1>6, <1>10 DEF Known
  <1>13. Stale' = Stale
    BY <1>1 DEF Stale, history
  <1>14. ~Stale' => /\ \A m \in Name : coll'[m] # NoObj => Listed(m)' = objs'[coll'[m]].segIds
                    /\ DOMAIN dirs' = Named' \cup old'
                    /\ old' \cap Named' = {}
    BY <1>1, <1>4, <1>6, <1>7, <1>10, <1>13
  <1>15. \A d \in Named' \cup DOMAIN dirs' : d < nextSegId'
    BY <1>1, <1>4, <1>10
  <1> QED
    BY <1>1, <1>4, <1>8, <1>9, <1>10, <1>11, <1>12, <1>14, <1>15, Settled

LEMMA CleanKeeps ==
    ASSUME IInv, Clean
    PROVE  IInv'
  <1>1. /\ pc = "clean"
        /\ dirs' = [d \in DOMAIN dirs \ old |-> dirs[d]]
        /\ old' = {}
        /\ IF todo # {} THEN pc' = "rebuild" /\ UNCHANGED records ELSE Finish
        /\ UNCHANGED <<manifest, walFile, objs, coll, nextSegId, nextLsn, op, target, todo, fresh,
                       history>>
    BY DEF Clean
  <1>2. Named' = Named /\ (\A n : Listed(n)' = Listed(n)) /\ Known' = Known
    BY <1>1, SameCollections
  <1>3. records' \in Seq(LogRecord) /\ pc' \in PC /\ pc' \in {"ready", "replay", "failed", "rebuild"}
        /\ (todo # {} <=> pc' = "rebuild")
    <2>1. CASE todo = {}
      BY <1>1, <2>1, EndFacts
    <2>2. CASE todo # {}
      BY <1>1, <2>2 DEF IInv, Types, PC
    <2> QED
      BY <2>1, <2>2
  <1>4. DOMAIN dirs' = DOMAIN dirs \ old /\ \A d \in DOMAIN dirs' : dirs'[d] = dirs[d]
    BY <1>1
  <1>5. Types'
    BY <1>1, <1>3, <1>4 DEF IInv, Types
  <1>6. /\ Known /\ DOMAIN fresh = {}
        /\ \A d \in Named \cup DOMAIN dirs : d \in Nat /\ d < nextSegId
        /\ ~Stale => /\ \A m \in Name : coll[m] # NoObj => Listed(m) = objs[coll[m]].segIds
                     /\ DOMAIN dirs = Named \cup old
                     /\ old \cap Named = {}
                     /\ todo # {} => Target
    BY <1>1, SettledFacts
  <1>7. todo \subseteq Nat /\ (todo # {} => target \in DOMAIN objs)
    BY <1>1 DEF IInv, Phases
  <1>8. Stale' = Stale /\ Target' = Target
    BY <1>1 DEF Stale, history, Target
  <1>9. ~Stale' => /\ \A n \in Name : coll'[n] # NoObj => Listed(n)' = objs'[coll'[n]].segIds
                   /\ DOMAIN dirs' = Named' \cup old'
                   /\ old' \cap Named' = {}
                   /\ todo' # {} => Target'
    BY <1>1, <1>2, <1>4, <1>6, <1>8
  <1>10. OwnedOnce(manifest.colls')
    BY <1>1, StateFacts
  <1>11. \A d \in Named' \cup DOMAIN dirs' : d < nextSegId'
    BY <1>1, <1>2, <1>4, <1>6
  <1> QED
    BY <1>1, <1>2, <1>3, <1>5, <1>6, <1>7, <1>9, <1>10, <1>11, Settled

-----------------------------------------------------------------------------
(* A write is applied, and the segments it has emptied are rebuilt. *)

(* A step that replaces the view and the ids of one object. *)
LEMMA ObjectStep ==
    ASSUME IInv, NEW o \in DOMAIN objs, NEW view \in View, NEW segIds \in Seq(Nat),
           Len(segIds) = Len(view.immutables),
           objs' = WithObject(objs, o, view, segIds), UNCHANGED coll
    PROVE  /\ Objects(objs') /\ DOMAIN objs' = DOMAIN objs
           /\ objs'[o].segIds = segIds
           /\ \A p \in DOMAIN objs : p # o => objs'[p] = objs[p]
           /\ \A p \in DOMAIN objs : objs'[p].name = objs[p].name /\ objs'[p].dim = objs[p].dim
           /\ coll' \in [Name -> {NoObj} \cup DOMAIN objs']
           /\ \A n \in Name : coll'[n] # NoObj => objs'[coll'[n]].name = n
  <1> DEFINE w == WithObject(objs, o, view, segIds)
  <1>1. /\ Objects(w) /\ DOMAIN w = DOMAIN objs /\ w[o].segIds = segIds
        /\ \A p \in DOMAIN objs : p # o => w[p] = objs[p]
        /\ \A p \in DOMAIN objs : w[p].name = objs[p].name /\ w[p].dim = objs[p].dim
    BY StateFacts, ObjectChanged
  <1> HIDE DEF w
  <1>2. objs' = w
    BY DEF w
  <1>3. coll' = coll /\ coll \in [Name -> {NoObj} \cup DOMAIN objs]
    BY DEF IInv, Types
  <1>4. \A n \in Name : coll'[n] # NoObj => objs'[coll'[n]].name = n
    BY <1>1, <1>2, <1>3, StateFacts
  <1> QED
    BY <1>1, <1>2, <1>3, <1>4

LEMMA BatchOfType ==
    ASSUME NEW ids
    PROVE  BatchOf(ids) \in Batch
  <1>1. NewRow \in Row
    BY VectorAssumption DEF NewRow, Row, OptPayload
  <1> QED
    BY <1>1 DEF BatchOf, Batch, Rows, OptRow

LEMMA ApplyKeeps ==
    ASSUME IInv, Apply
    PROVE  IInv'
  <1> DEFINE obj == objs[target]
             v == obj.view
             goal == IF op.kind = "upsert" THEN ApplyUpsert(v, BatchOf(op.ids))
                     ELSE ApplyDelete(v, op.ids)
             touched == {i \in DOMAIN obj.segIds : goal.immutables[i] # v.immutables[i]}
             written == {obj.segIds[i] : i \in touched}
             PosOf(d) == CHOOSE i \in touched : obj.segIds[i] = d
             partial == [goal EXCEPT !.mutable = v.mutable]
  <1>1. /\ pc = "apply"
        /\ IF written \subseteq DOMAIN dirs
             THEN /\ objs' = [objs EXCEPT ![target].view = goal]
                  /\ dirs' = [d \in DOMAIN dirs |->
                                IF d \in written THEN goal.immutables[PosOf(d)] ELSE dirs[d]]
                  /\ IF op.kind = "delete" /\ RebuildList(goal) # {}
                       THEN pc' = "rebuild" /\ todo' = RebuildList(goal) /\ UNCHANGED records
                       ELSE Finish /\ UNCHANGED todo
             ELSE /\ objs' = [objs EXCEPT ![target].view = partial]
                  /\ Fail
                  /\ UNCHANGED <<dirs, todo>>
        /\ UNCHANGED <<manifest, walFile, coll, nextSegId, nextLsn, op, target, fresh, old, history>>
    BY DEF Apply
  <1>2. target \in DOMAIN objs /\ op \in Call /\ op.kind \in {"upsert", "delete"} /\ todo = {}
    BY <1>1 DEF IInv, Phases
  <1>3. op.ids \in SUBSET Id
    BY <1>2 DEF Call
  <1>4. /\ v \in View /\ obj.segIds \in Seq(Nat) /\ Len(obj.segIds) = Len(v.immutables)
        /\ obj = Object(obj.name, obj.dim, v, obj.segIds)
    BY <1>2, StateFacts, ObjectFacts
  <1>5. goal \in View /\ Len(goal.immutables) = Len(v.immutables)
    <2>1. /\ ApplyUpsert(v, BatchOf(op.ids)) \in View /\ ApplyDelete(v, op.ids) \in View
          /\ Len(ApplyUpsert(v, BatchOf(op.ids)).immutables) = Len(v.immutables)
          /\ Len(ApplyDelete(v, op.ids).immutables) = Len(v.immutables)
      BY <1>3, <1>4, BatchOfType, ApplyUpsertType, ApplyDeleteType, AppliedLengths
    <2> QED
      BY <2>1
  <1> HIDE DEF goal
  <1>6. partial \in View /\ partial.immutables = goal.immutables
    BY <1>4, <1>5 DEF View
  <1>7. /\ goal.immutables \in Seq(Segment) /\ DOMAIN goal.immutables = DOMAIN obj.segIds
        /\ DOMAIN goal.immutables \subseteq Nat
    BY <1>4, <1>5 DEF View
  <1>8. \A w \in View : [objs EXCEPT ![target].view = w] = WithObject(objs, target, w, obj.segIds)
    <2> TAKE w \in View
    <2>1. [obj EXCEPT !.view = w] = Object(obj.name, obj.dim, w, obj.segIds)
      <3>1. obj = [name |-> obj.name, dim |-> obj.dim, view |-> v, segIds |-> obj.segIds]
        BY <1>4 DEF Object
      <3> HIDE DEF obj
      <3> QED
        BY <3>1 DEF Object
    <2>2. [objs EXCEPT ![target].view = w] = [objs EXCEPT ![target] = [obj EXCEPT !.view = w]]
      OBVIOUS
    <2> QED
      BY <2>1, <2>2 DEF WithObject
  <1> HIDE DEF partial
  <1>9. PICK w \in View : objs' = WithObject(objs, target, w, obj.segIds)
                          /\ Len(obj.segIds) = Len(w.immutables)
    BY <1>1, <1>4, <1>5, <1>6, <1>8
  <1>10. /\ Objects(objs') /\ DOMAIN objs' = DOMAIN objs
         /\ objs'[target].segIds = objs[target].segIds
         /\ \A p \in DOMAIN objs : p # target => objs'[p] = objs[p]
         /\ \A p \in DOMAIN objs : objs'[p].name = objs[p].name /\ objs'[p].dim = objs[p].dim
         /\ coll' \in [Name -> {NoObj} \cup DOMAIN objs']
         /\ \A n \in Name : coll'[n] # NoObj => objs'[coll'[n]].name = n
    BY <1>1, <1>2, <1>4, <1>9, ObjectStep
  <1>11. DOMAIN dirs' = DOMAIN dirs /\ \A d \in DOMAIN dirs' : dirs'[d] \in Segment
    <2>1. ASSUME NEW d \in written PROVE goal.immutables[PosOf(d)] \in Segment
      <3>1. PosOf(d) \in touched
        BY <2>1
      <3>2. \A i \in DOMAIN obj.segIds : goal.immutables[i] \in Segment
        BY <1>7
      <3> HIDE DEF PosOf
      <3> QED
        BY <3>1, <3>2
    <2>2. \A d \in DOMAIN dirs : dirs[d] \in Segment
      BY DEF IInv, Types
    <2> HIDE DEF written, PosOf
    <2> QED
      BY <1>1, <2>1, <2>2
  <1>12. /\ pc' \in {"ready", "replay", "failed", "rebuild"} /\ pc' \in PC
         /\ records' \in Seq(LogRecord)
         /\ todo' \subseteq Nat
         /\ todo' # {} <=> pc' = "rebuild"
    <2>1. RebuildList(goal) \subseteq Nat
      BY <1>7 DEF RebuildList
    <2>2. CASE pc' = "rebuild" /\ todo' = RebuildList(goal) /\ todo' # {} /\ UNCHANGED records
      BY <2>1, <2>2 DEF IInv, Types, PC
    <2>3. CASE Finish /\ todo' = todo
      BY <1>2, <2>3, EndFacts
    <2>4. CASE Fail /\ todo' = todo
      BY <1>2, <2>4, EndFacts
    <2> HIDE DEF written
    <2> QED
      BY <1>1, <2>2, <2>3, <2>4
  <1>13. Named' = Named /\ (\A n : Listed(n)' = Listed(n) /\ Entry(n)' = Entry(n))
    BY <1>1 DEF Named, Listed, Entry
  <1>14. Types'
    BY <1>1, <1>10, <1>11, <1>12 DEF IInv, Types
  <1>15. /\ Known /\ DOMAIN fresh = {} /\ old = {}
         /\ \A d \in Named \cup DOMAIN dirs : d \in Nat /\ d < nextSegId
         /\ ~Stale => /\ \A n \in Name : coll[n] # NoObj => Listed(n) = objs[coll[n]].segIds
                      /\ DOMAIN dirs = Named
                      /\ Target
    BY <1>1, SettledFacts
  <1>16. Known'
    BY <1>1, <1>10, <1>13, <1>15, StateFacts DEF Known
  <1>17. Stale' = Stale /\ (Target <=> Target')
    BY <1>1, <1>2, <1>10 DEF Stale, history, Target
  <1>18. ~Stale' => /\ \A n \in Name : coll'[n] # NoObj => Listed(n)' = objs'[coll'[n]].segIds
                    /\ DOMAIN dirs' = Named' \cup old'
                    /\ old' \cap Named' = {}
                    /\ todo' # {} => Target'
    <2>1. \A p \in DOMAIN objs : objs'[p].segIds = objs[p].segIds
      BY <1>10
    <2> QED
      BY <1>1, <1>11, <1>13, <1>15, <1>17, <2>1, StateFacts
  <1>19. OwnedOnce(manifest.colls')
    BY <1>1, StateFacts
  <1>20. \A d \in Named' \cup DOMAIN dirs' : d < nextSegId'
    BY <1>1, <1>11, <1>13, <1>15
  <1> QED
    BY <1>1, <1>2, <1>10, <1>12, <1>14, <1>15, <1>16, <1>18, <1>19, <1>20, Settled

LEMMA RebuildOneKeeps ==
    ASSUME IInv, RebuildOne
    PROVE  IInv'
  <1> DEFINE si == Min(todo)
             obj == objs[target]
             merged == Rebuilt(obj.view.immutables[si])
             gone == IsEmpty(merged)
             oldId == obj.segIds[si]
             new == nextSegId
             rest == todo \ {si}
             ids == IF gone THEN RemovePosition(obj.segIds, si) ELSE ReplaceAt(obj.segIds, si, new)
             view == ApplyRebuild(obj.view, si)
  <1>0. pc = "rebuild" /\ todo \in SUBSET Nat /\ todo # {} /\ target \in DOMAIN objs
    BY DEF RebuildOne, IInv, Phases
  <1>1. obj.name \in Name
    BY <1>0, StateFacts, ObjectFacts
  <1> PICK n \in Name : n = obj.name
    BY <1>1
  <1> DEFINE segs == Listed(n)
             Written == [d \in DOMAIN dirs \cup {new} |-> IF d = new THEN SegmentOf(merged) ELSE dirs[d]]
  <1>2. /\ IF si \notin DOMAIN obj.segIds
             THEN /\ todo' = rest
                  /\ IF rest = {} THEN Finish ELSE UNCHANGED <<pc, records>>
                  /\ UNCHANGED <<manifest, dirs, objs, nextSegId, old>>
             ELSE /\ objs' = [objs EXCEPT ![target].view = ApplyRebuild(@, si),
                                          ![target].segIds = IF gone THEN RemovePosition(@, si)
                                                             ELSE [@ EXCEPT ![si] = new]]
                  /\ IF gone THEN UNCHANGED <<dirs, nextSegId>>
                     ELSE dirs' = Written /\ nextSegId' = nextSegId + 1
                  /\ IF Entry(n) = NoEntry
                       THEN Fail /\ todo' = {} /\ UNCHANGED <<manifest, old>>
                       ELSE /\ todo' = rest
                            /\ manifest' = [manifest EXCEPT !.colls[n].segments =
                                              Swapped(segs, oldId, new, gone)]
                            /\ old' = {oldId}
                            /\ pc' = "clean"
                            /\ UNCHANGED records
        /\ UNCHANGED <<walFile, coll, nextLsn, op, target, fresh, history>>
    BY StateFacts DEF RebuildOne, Swapped, ReplaceAt, PositionIn
  <1>3. /\ obj \in CollObject
        /\ obj = Object(obj.name, obj.dim, obj.view, obj.segIds)
        /\ obj.view \in View /\ obj.segIds \in Seq(Nat)
        /\ DOMAIN obj.segIds = DOMAIN obj.view.immutables
        /\ Len(obj.segIds) = Len(obj.view.immutables)
    BY <1>0, StateFacts, ObjectFacts
  <1>4. /\ Known /\ DOMAIN fresh = {} /\ old = {}
        /\ \A d \in Named \cup DOMAIN dirs : d \in Nat /\ d < nextSegId
        /\ ~Stale => /\ \A m \in Name : coll[m] # NoObj => Listed(m) = objs[coll[m]].segIds
                     /\ DOMAIN dirs = Named
                     /\ Target
    BY <1>0, SettledFacts
  <1>5. rest \in SUBSET Nat
    BY <1>0
  <1>6. Stale' = Stale
    BY <1>2 DEF Stale, history
  <1>7. CASE si \notin DOMAIN obj.segIds
    <2>1. /\ todo' = rest
          /\ IF rest = {} THEN Finish ELSE UNCHANGED <<pc, records>>
          /\ UNCHANGED <<manifest, dirs, objs, nextSegId, old, walFile, coll, nextLsn, op, target,
                         fresh, history>>
      BY <1>2, <1>7
    <2>2. /\ pc' \in {"ready", "replay", "failed", "rebuild"} /\ pc' \in PC
          /\ records' \in Seq(LogRecord)
          /\ todo' # {} <=> pc' = "rebuild"
      <3>1. CASE rest = {}
        BY <2>1, <3>1, EndFacts
      <3>2. CASE rest # {}
        BY <1>0, <2>1, <3>2 DEF IInv, Types
      <3> QED
        BY <3>1, <3>2
    <2>3. Named' = Named /\ (\A m : Listed(m)' = Listed(m)) /\ Known' = Known
      BY <2>1, SameCollections
    <2>4. Types'
      BY <1>0, <2>1, <2>2 DEF IInv, Types
    <2>5. ~Stale' => /\ \A m \in Name : coll'[m] # NoObj => Listed(m)' = objs'[coll'[m]].segIds
                     /\ DOMAIN dirs' = Named' \cup old'
                     /\ old' \cap Named' = {}
                     /\ todo' # {} => Target'
      BY <1>4, <1>6, <2>1, <2>3 DEF Target
    <2>6. OwnedOnce(manifest.colls')
      BY <2>1, StateFacts
    <2>7. \A d \in Named' \cup DOMAIN dirs' : d < nextSegId'
      BY <1>4, <2>1, <2>3
    <2> HIDE DEF si, obj, rest
    <2> QED
      BY <1>0, <1>4, <1>5, <2>1, <2>2, <2>3, <2>4, <2>5, <2>6, <2>7, Settled
  <1>8. CASE si \in DOMAIN obj.segIds
    <2>1. /\ objs' = [objs EXCEPT ![target].view = ApplyRebuild(@, si),
                                  ![target].segIds = IF gone THEN RemovePosition(@, si)
                                                     ELSE [@ EXCEPT ![si] = new]]
          /\ IF gone THEN UNCHANGED <<dirs, nextSegId>>
             ELSE dirs' = Written /\ nextSegId' = nextSegId + 1
          /\ UNCHANGED <<walFile, coll, nextLsn, op, target, fresh, history>>
      BY <1>2, <1>8
    <2>2. /\ view \in View /\ SegmentOf(merged) \in Segment
          /\ Len(view.immutables) = IF gone THEN Len(obj.segIds) - 1 ELSE Len(obj.segIds)
      BY <1>3, <1>8, RebuildType
    <2>3. si \in 1..Len(obj.segIds) /\ oldId \in Nat /\ new \in Nat
      <3>1. new \in Nat
        BY DEF IInv, Types
      <3> HIDE DEF obj, si
      <3> QED
        BY <1>3, <1>8, <3>1
    <2>4. ids \in Seq(Nat) /\ Len(ids) = Len(view.immutables)
      <3>1. /\ RemovePosition(obj.segIds, si) \in Seq(Nat)
            /\ DOMAIN RemovePosition(obj.segIds, si) = 1..(Len(obj.segIds) - 1)
        BY <1>3, <2>3, RemovedPosition
      <3>2. Len(RemovePosition(obj.segIds, si)) = Len(obj.segIds) - 1
        <4>1. Len(obj.segIds) \in Nat
          BY <1>3
        <4> HIDE DEF obj, si
        <4> QED
          BY <2>3, <3>1, <4>1
      <3>3. /\ ReplaceAt(obj.segIds, si, new) \in Seq(Nat)
            /\ Len(ReplaceAt(obj.segIds, si, new)) = Len(obj.segIds)
        BY <1>3, <2>3 DEF ReplaceAt
      <3> QED
        BY <2>2, <3>1, <3>2, <3>3
    <2>5. objs' = WithObject(objs, target, view, ids)
      <3>1. Edited(obj, view, ids) = Object(obj.name, obj.dim, view, ids)
        BY <1>3, EditedObject
      <3>2. objs' = [objs EXCEPT ![target] = Edited(obj, view, ids)]
        BY <1>0, <2>1 DEF ReplaceAt, Edited
      <3> HIDE DEF view, ids
      <3> QED
        BY <3>1, <3>2 DEF WithObject
    <2> HIDE DEF view
    <2>6. /\ Objects(objs') /\ DOMAIN objs' = DOMAIN objs
          /\ objs'[target].segIds = ids
          /\ \A p \in DOMAIN objs : p # target => objs'[p] = objs[p]
          /\ \A p \in DOMAIN objs : objs'[p].name = objs[p].name /\ objs'[p].dim = objs[p].dim
          /\ coll' \in [Name -> {NoObj} \cup DOMAIN objs']
          /\ \A m \in Name : coll'[m] # NoObj => objs'[coll'[m]].name = m
      <3> HIDE DEF ids
      <3> QED
        BY <1>0, <2>1, <2>2, <2>4, <2>5, ObjectStep
    <2>7. /\ DOMAIN dirs' = DOMAIN dirs \cup IF gone THEN {} ELSE {new}
          /\ DOMAIN dirs' \subseteq Nat
          /\ \A d \in DOMAIN dirs' : dirs'[d] \in Segment /\ d < nextSegId'
          /\ nextSegId' \in Nat /\ nextSegId' >= nextSegId
      <3>1. \A d \in DOMAIN dirs : dirs[d] \in Segment /\ d \in Nat /\ d < nextSegId
        BY <1>4 DEF IInv, Types
      <3>2. CASE gone
        BY <2>1, <2>3, <3>1, <3>2
      <3>3. CASE ~gone
        BY <2>1, <2>2, <2>3, <3>1, <3>3
      <3> QED
        BY <3>2, <3>3
    <2>8. CASE Entry(n) = NoEntry
      <3>1. Fail /\ todo' = {} /\ UNCHANGED <<manifest, old>>
        BY <1>2, <1>8, <2>8
      <3>2. /\ pc' \in {"ready", "replay", "failed"} /\ pc' \in PC
            /\ records' \in Seq(LogRecord)
        BY <3>1, EndFacts
      <3>3. Named' = Named /\ (\A m : Listed(m)' = Listed(m) /\ Entry(m)' = Entry(m))
        BY <3>1 DEF Named, Listed, Entry
      <3>4. Types'
        BY <1>0, <2>1, <2>6, <2>7, <3>1, <3>2 DEF IInv, Types
      <3>5. Known'
        BY <1>4, <2>1, <2>6, <3>3, StateFacts DEF Known
      <3>6. Stale
        <4>1. coll[n] = NoObj
          BY <1>4, <2>8 DEF Known
        <4>2. ~Target
          BY <1>0, <4>1, ObjectFacts, StateFacts DEF Target
        <4> QED
          BY <1>4, <4>2
      <3>7. OwnedOnce(manifest.colls')
        BY <3>1, StateFacts
      <3>8. \A d \in Named' \cup DOMAIN dirs' : d < nextSegId'
        BY <1>4, <2>3, <2>7, <3>3
      <3> QED
        BY <1>4, <1>6, <2>1, <3>1, <3>2, <3>4, <3>5, <3>6, <3>7, <3>8, Settled
    <2>9. CASE Entry(n) # NoEntry
      <3> DEFINE X == Swapped(segs, oldId, new, gone)
                 e == [dim |-> Entry(n).dim, segments |-> X]
      <3>1. /\ todo' = rest
            /\ manifest' = [manifest EXCEPT !.colls[n].segments = X]
            /\ old' = {oldId}
            /\ pc' = "clean"
            /\ UNCHANGED records
        BY <1>2, <1>8, <2>9
      <3>2. segs \in Seq(Nat) /\ Distinct(segs) /\ ToSet(segs) \subseteq Named /\ new \notin Named
        BY <1>4, StateFacts
      <3>3. /\ X \in Seq(Nat) /\ Distinct(X)
            /\ ToSet(X) = (ToSet(segs) \ {oldId}) \cup IF gone THEN {} ELSE {new}
            /\ \A k \in DOMAIN segs : segs[k] = oldId =>
                 X = IF gone THEN RemovePosition(segs, k) ELSE ReplaceAt(segs, k, new)
        <4>1. gone \in BOOLEAN
          BY DEF IsEmpty
        <4> HIDE DEF gone, segs, oldId
        <4> QED
          BY <2>3, <3>2, <4>1, SwappedFacts
      <3> HIDE DEF X
      <3>4. e \in ManifestEntry /\ e.segments = X /\ e # NoEntry /\ e.dim = Entry(n).dim
        <4>1. Entry(n).dim \in Dim
          BY <2>9, StateFacts DEF ManifestEntry
        <4> QED
          BY <3>3, <4>1, DimAssumption DEF ManifestEntry, NoEntry
      <3>5. manifest' = [floor |-> manifest.floor, colls |-> WithEntry(manifest.colls, n, e)]
        <4>1. manifest = [floor |-> manifest.floor, colls |-> manifest.colls]
              /\ manifest.colls \in Entries
          BY StateFacts
        <4>2. Entry(n) = [dim |-> Entry(n).dim, segments |-> Entry(n).segments]
          BY <2>9, StateFacts DEF ManifestEntry
        <4>3. [manifest.colls[n] EXCEPT !.segments = X] = e
          BY <4>2 DEF Entry
        <4>4. manifest' = [manifest EXCEPT !.colls =
                             [manifest.colls EXCEPT ![n] = [manifest.colls[n] EXCEPT !.segments = X]]]
          BY <3>1
        <4> HIDE DEF e
        <4> QED
          BY <4>1, <4>3, <4>4 DEF WithEntry
      <3> HIDE DEF e
      <3>6. /\ manifest' \in [floor : Nat, colls : Entries]
            /\ OwnedOnce(manifest.colls')
            /\ Entry(n)' = e /\ Listed(n)' = X
            /\ \A m \in Name \ {n} : Listed(m)' = Listed(m) /\ Entry(m)' = Entry(m)
            /\ Named' = (Named \ ToSet(segs)) \cup ToSet(X)
        <4>1. ToSet(e.segments) \cap (Named \ ToSet(Listed(n))) = {} /\ Distinct(e.segments)
          BY <3>2, <3>3, <3>4
        <4> QED
          BY <3>4, <3>5, <4>1, EntryStep
      <3>7. Named' = (Named \ {d \in ToSet(segs) : d = oldId}) \cup IF gone THEN {} ELSE {new}
        BY <3>2, <3>3, <3>6
      <3>8. Known'
        <4>1. ASSUME NEW m \in Name
              PROVE  IF coll'[m] = NoObj THEN Entry(m)' = NoEntry
                     ELSE Entry(m)' # NoEntry /\ Entry(m)'.dim = objs'[coll'[m]].dim
          <5>1. IF coll[m] = NoObj THEN Entry(m) = NoEntry
                ELSE Entry(m) # NoEntry /\ Entry(m).dim = objs[coll[m]].dim
            BY <1>4 DEF Known
          <5>2. coll'[m] = coll[m] /\ (coll[m] # NoObj => objs'[coll[m]].dim = objs[coll[m]].dim)
            BY <2>1, <2>6, StateFacts
          <5>3. CASE m = n
            BY <2>9, <3>4, <3>6, <5>1, <5>2, <5>3
          <5>4. CASE m # n
            BY <3>6, <5>1, <5>2, <5>4
          <5> QED
            BY <5>3, <5>4
        <4> QED
          BY <4>1 DEF Known
      <3>9. Types'
        BY <1>0, <2>1, <2>3, <2>6, <2>7, <3>1, <3>6 DEF IInv, Types, PC
      <3>10. \A d \in Named' \cup DOMAIN dirs' : d < nextSegId'
        <4>1. \A d \in Named : d < nextSegId'
          BY <1>4, <2>3, <2>7
        <4>2. ~gone => new < nextSegId'
          BY <2>7
        <4> QED
          BY <2>7, <3>7, <4>1, <4>2
      <3>11. Target' = Target
        BY <1>0, <2>1, <2>6 DEF Target
      <3>12. ~Stale => /\ \A m \in Name : coll'[m] # NoObj => Listed(m)' = objs'[coll'[m]].segIds
                       /\ DOMAIN dirs' = Named' \cup old'
                       /\ old' \cap Named' = {}
                       /\ todo' # {} => Target'
        <4> SUFFICES ASSUME ~Stale
                     PROVE  /\ \A m \in Name : coll'[m] # NoObj => Listed(m)' = objs'[coll'[m]].segIds
                            /\ DOMAIN dirs' = Named' \cup old'
                            /\ old' \cap Named' = {}
                            /\ todo' # {} => Target'
          OBVIOUS
        <4>1. coll[n] = target /\ Target /\ DOMAIN dirs = Named
              /\ \A m \in Name : coll[m] # NoObj => Listed(m) = objs[coll[m]].segIds
          BY <1>4 DEF Target
        <4>2. segs = obj.segIds
          BY <1>0, <4>1, ObjectFacts, StateFacts
        <4>3. oldId \in ToSet(segs) /\ si \in DOMAIN segs /\ segs[si] = oldId
          BY <1>8, <4>2 DEF ToSet
        <4>4. X = ids
          BY <3>3, <4>2, <4>3
        <4>5. ASSUME NEW m \in Name, coll'[m] # NoObj
              PROVE  Listed(m)' = objs'[coll'[m]].segIds
          <5>1. CASE m = n
            BY <2>1, <2>6, <3>6, <4>1, <4>4, <5>1
          <5>2. CASE m # n
            <6>1. coll'[m] = coll[m] /\ coll[m] # target /\ coll[m] \in DOMAIN objs
              BY <2>1, <4>1, <4>5, <5>2, StateFacts
            <6> QED
              BY <2>6, <3>6, <4>1, <4>5, <5>2, <6>1
          <5> QED
            BY <5>1, <5>2
        <4>6. oldId \in Named /\ oldId # new
          BY <3>2, <4>3
        <4>7. old' = {oldId} /\ Named' = (Named \ {oldId}) \cup IF gone THEN {} ELSE {new}
          BY <3>1, <3>7, <4>3
        <4> HIDE DEF oldId, gone, new
        <4> QED
          BY <2>7, <3>11, <4>1, <4>5, <4>6, <4>7
      <3> HIDE DEF rest, si
      <3> QED
        BY <1>0, <1>4, <1>5, <1>6, <2>1, <2>6, <3>1, <3>6, <3>8, <3>9, <3>10, <3>12, Settled
    <2> QED
      BY <2>8, <2>9
  <1> QED
    BY <1>7, <1>8

-----------------------------------------------------------------------------
(* A flush of all collections. *)

FreshIds == {fresh[o] : o \in DOMAIN fresh}

LEMMA FlushWriteKeeps ==
    ASSUME IInv, FlushWrite
    PROVE  IInv'
  <1> DEFINE Before(o) == {p \in Flushed : p < o}
             IdOf(o) == nextSegId + Cardinality(Before(o))
             more == Cardinality(Flushed)
             ObjOf(d) == CHOOSE o \in Flushed : IdOf(o) = d
  <1>1. /\ pc = "ready"
        /\ fresh' = [o \in Flushed |-> IdOf(o)]
        /\ dirs' = [d \in DOMAIN dirs \cup {IdOf(o) : o \in Flushed} |->
                      IF d < nextSegId THEN dirs[d] ELSE SegmentOf(objs[ObjOf(d)].view.mutable)]
        /\ nextSegId' = nextSegId + more
        /\ pc' = "flush_publish"
        /\ UNCHANGED <<manifest, walFile, objs, coll, nextLsn, op, target, todo, old, records, history>>
    BY DEF FlushWrite
  <1>2. /\ Known /\ old = {}
        /\ \A d \in Named \cup DOMAIN dirs : d \in Nat /\ d < nextSegId
        /\ ~Stale => /\ \A m \in Name : coll[m] # NoObj => Listed(m) = objs[coll[m]].segIds
                     /\ DOMAIN dirs = Named
    BY <1>1, SettledFacts
  <1>3. todo = {} /\ nextSegId \in Nat
    BY <1>1 DEF IInv, Phases, Types
  <1>4. /\ IsFiniteSet(Flushed) /\ Flushed \subseteq Nat /\ Flushed \subseteq DOMAIN objs
        /\ more \in Nat
    <2>1. DOMAIN objs = 1..Len(objs) /\ Len(objs) \in Nat
      BY StateFacts
    <2>2. Flushed \subseteq 1..Len(objs)
      BY <2>1 DEF Flushed
    <2>3. IsFiniteSet(1..Len(objs))
      BY <2>1, FS_Interval
    <2>4. IsFiniteSet(Flushed)
      BY <2>2, <2>3, FS_Subset
    <2> QED
      BY <2>1, <2>2, <2>4, FS_CardinalityType
  <1> HIDE DEF more
  <1>5. ASSUME NEW o \in Flushed
        PROVE  /\ IdOf(o) \in Nat /\ IdOf(o) >= nextSegId /\ IdOf(o) < nextSegId + more
               /\ Cardinality(Before(o)) \in Nat /\ IsFiniteSet(Before(o))
    <2>1. Before(o) \subseteq Flushed /\ o \notin Before(o)
      BY <1>4
    <2>2. IsFiniteSet(Before(o)) /\ Cardinality(Before(o)) <= more /\ Cardinality(Before(o)) # more
      BY <1>4, <2>1, FS_Subset DEF more
    <2>3. Cardinality(Before(o)) \in Nat
      BY <2>2, FS_CardinalityType
    <2> HIDE DEF Before
    <2> QED
      BY <1>3, <1>4, <2>2, <2>3
  <1>6. ASSUME NEW o \in Flushed, NEW p \in Flushed, o < p
        PROVE  IdOf(o) # IdOf(p)
    <2>1. Before(o) \subseteq Before(p) /\ o \in Before(p) /\ o \notin Before(o)
      <3>1. o \in Nat /\ p \in Nat /\ \A q \in Flushed : q \in Nat
        BY <1>4
      <3>2. \A q \in Flushed : q < o => q < p
        BY <1>6, <3>1
      <3>3. ~(o < o)
        BY <3>1
      <3> QED
        BY <1>6, <3>2, <3>3
    <2>2. Cardinality(Before(o)) # Cardinality(Before(p))
      BY <1>5, <2>1, FS_Subset
    <2>3. Cardinality(Before(o)) \in Nat /\ Cardinality(Before(p)) \in Nat
      BY <1>5
    <2> HIDE DEF Before
    <2> QED
      BY <1>3, <2>2, <2>3
  <1> HIDE DEF IdOf
  <1>7. \A o, p \in Flushed : IdOf(o) = IdOf(p) => o = p
    <2> SUFFICES ASSUME NEW o \in Flushed, NEW p \in Flushed, o # p
                 PROVE  IdOf(o) # IdOf(p)
      OBVIOUS
    <2>1. o < p \/ p < o
      BY <1>4
    <2> QED
      BY <1>6, <2>1
  <1>8. Flushed' = Flushed /\ Named' = Named /\ (\A n : Listed(n)' = Listed(n)) /\ Known' = Known
    BY <1>1, SameCollections
  <1>9. /\ DOMAIN fresh' = Flushed
        /\ \A o \in Flushed : fresh'[o] = IdOf(o)
        /\ DOMAIN dirs' = DOMAIN dirs \cup {IdOf(o) : o \in Flushed}
    BY <1>1
  <1>10. \A d \in DOMAIN dirs' : dirs'[d] \in Segment /\ d \in Nat /\ d < nextSegId'
    <2> TAKE d \in DOMAIN dirs'
    <2>1. CASE d \in DOMAIN dirs
      <3>1. d \in Nat /\ d < nextSegId /\ dirs[d] \in Segment
        BY <1>2, <2>1 DEF IInv, Types
      <3> HIDE DEF ObjOf
      <3> QED
        BY <1>1, <1>3, <1>4, <2>1, <3>1
    <2>2. CASE d \notin DOMAIN dirs
      <3>1. PICK o \in Flushed : d = IdOf(o)
        BY <1>9, <2>2
      <3>2. d \in Nat /\ d >= nextSegId /\ d < nextSegId'
        BY <1>1, <1>5, <3>1
      <3>3. ObjOf(d) \in Flushed
        BY <3>1
      <3>4. objs[ObjOf(d)].view \in View
        BY <1>4, <3>3, StateFacts, ObjectFacts
      <3>5. SegmentOf(objs[ObjOf(d)].view.mutable) \in Segment
        BY <3>4, RebuildsAreSegments DEF View
      <3>6. ~(d < nextSegId)
        BY <1>3, <3>2
      <3> HIDE DEF ObjOf
      <3> QED
        BY <1>1, <3>2, <3>5, <3>6
    <2> QED
      BY <2>1, <2>2
  <1>11. Types'
    <2>1. DOMAIN dirs' \subseteq Nat
      BY <1>10
    <2>2. nextSegId' = nextSegId + more
      BY <1>1
    <2>3. nextSegId' \in Nat
      BY <1>3, <1>4, <2>2
    <2> QED
      BY <1>1, <1>10, <2>1, <2>3 DEF IInv, Types, PC
  <1>12. Phases'
    BY <1>1, <1>2, <1>3, <1>8, <1>9 DEF Phases
  <1>13. Ids'
    <2>1. OwnedOnce(manifest.colls')
      BY <1>1, StateFacts
    <2>2. \A d \in Named' : d < nextSegId'
      BY <1>1, <1>2, <1>3, <1>4, <1>8
    <2>3. \A o \in Flushed : fresh'[o] \in DOMAIN dirs' /\ fresh'[o] \notin Named'
      <3> TAKE o \in Flushed
      <3>1. IdOf(o) \in Nat /\ IdOf(o) >= nextSegId
        BY <1>5
      <3>2. IdOf(o) \notin Named
        BY <1>2, <1>3, <3>1
      <3> QED
        BY <1>8, <1>9, <3>2
    <2> QED
      BY <1>1, <1>7, <1>9, <1>10, <2>1, <2>2, <2>3 DEF Ids
  <1>14. Stale' = Stale
    BY <1>1 DEF Stale, history
  <1>15. ~Stale' => Mirror'
    <2> SUFFICES ASSUME ~Stale PROVE Mirror'
      BY <1>14
    <2>1. DOMAIN dirs' = Named' \cup old' \cup {fresh'[o] : o \in DOMAIN fresh'}
      BY <1>1, <1>2, <1>8, <1>9
    <2> QED
      BY <1>1, <1>2, <1>3, <1>8, <2>1 DEF Mirror
  <1> QED
    BY <1>2, <1>8, <1>11, <1>12, <1>13, <1>15 DEF IInv

LEMMA FlushPublishKeeps ==
    ASSUME IInv, FlushPublish
    PROVE  IInv'
  <1> DEFINE Longer(n) == [dim |-> Entry(n).dim, segments |-> Append(Listed(n), fresh[coll[n]])]
             due == {n \in Name : coll[n] \in DOMAIN fresh}
  <1>1. /\ pc = "flush_publish"
        /\ manifest' = [floor |-> nextLsn - 1,
                        colls |-> [n \in Name |->
                          IF n \in due THEN [Entry(n) EXCEPT !.segments = Append(@, fresh[coll[n]])]
                          ELSE Entry(n)]]
        /\ pc' = "flush_reset"
        /\ UNCHANGED <<walFile, dirs, objs, coll, nextSegId, nextLsn, op, target, todo, fresh, old,
                       records, history>>
    BY DEF FlushPublish
  <1>2. /\ Known /\ Up
        /\ DOMAIN fresh = Flushed /\ todo = {} /\ old = {}
        /\ OwnedOnce(manifest.colls)
        /\ \A d \in Named \cup DOMAIN dirs : d < nextSegId
        /\ \A o \in DOMAIN fresh : fresh[o] \in DOMAIN dirs /\ fresh[o] \notin Named /\ fresh[o] \in Nat
        /\ \A o, p \in DOMAIN fresh : fresh[o] = fresh[p] => o = p
    BY <1>1 DEF IInv, Phases, Ids, Up, Types
  <1>3. \A n \in due : /\ coll[n] # NoObj /\ coll[n] \in DOMAIN objs
                       /\ Entry(n) # NoEntry
                       /\ Entry(n).segments = Listed(n) /\ Entry(n).dim \in Dim
                       /\ Entry(n) = [dim |-> Entry(n).dim, segments |-> Listed(n)]
    <2> TAKE n \in due
    <2>1. coll[n] \in DOMAIN objs /\ coll[n] # NoObj
      BY <1>2, StateFacts, ObjectFacts DEF Flushed
    <2>2. Entry(n) # NoEntry /\ Entry(n) \in ManifestEntry /\ Entry(n).segments = Listed(n)
      BY <1>2, <2>1, StateFacts DEF Known
    <2>3. Entry(n).dim \in Dim /\ Entry(n) = [dim |-> Entry(n).dim, segments |-> Entry(n).segments]
      BY <2>2 DEF ManifestEntry
    <2> QED
      BY <2>1, <2>2, <2>3
  <1>4. \A n \in due : [Entry(n) EXCEPT !.segments = Append(@, fresh[coll[n]])] = Longer(n)
    <2> TAKE n \in due
    <2>1. Entry(n) = [dim |-> Entry(n).dim, segments |-> Listed(n)]
      BY <1>3
    <2> QED
      BY <2>1
  <1>5. ASSUME NEW n \in Name
        PROVE  /\ Entry(n)' = IF n \in due THEN Longer(n) ELSE Entry(n)
               /\ Listed(n)' = IF n \in due THEN Append(Listed(n), fresh[coll[n]]) ELSE Listed(n)
               /\ Listed(n)' \in Seq(Nat)
               /\ Entry(n)' \in ManifestEntry
               /\ Entry(n)' # NoEntry <=> Entry(n) # NoEntry
               /\ Entry(n)'.dim = Entry(n).dim
               /\ Distinct(Listed(n)')
               /\ ToSet(Listed(n)') = ToSet(Listed(n)) \cup IF n \in due THEN {fresh[coll[n]]} ELSE {}
    <2>1. Entry(n)' = IF n \in due THEN Longer(n) ELSE Entry(n)
      <3> HIDE DEF Longer, due
      <3>1. manifest'.colls[n] = IF n \in due
                                   THEN [Entry(n) EXCEPT !.segments = Append(@, fresh[coll[n]])]
                                   ELSE Entry(n)
        BY <1>1
      <3> QED
        BY <1>4, <3>1 DEF Entry
    <2>2. Listed(n)' = Entry(n)'.segments
      BY DEF Listed, SegmentsOf, Entry
    <2>3. /\ Listed(n) \in Seq(Nat) /\ Distinct(Listed(n)) /\ ToSet(Listed(n)) \subseteq Named
          /\ Entry(n) \in ManifestEntry /\ Entry(n).segments = Listed(n)
      BY StateFacts
    <2>4. CASE n \in due
      <3>1. Entry(n)' = Longer(n) /\ Listed(n)' = Append(Listed(n), fresh[coll[n]])
        BY <2>1, <2>2, <2>4
      <3>2. fresh[coll[n]] \in Nat /\ fresh[coll[n]] \notin ToSet(Listed(n))
        BY <1>2, <2>3, <2>4
      <3>3. /\ Append(Listed(n), fresh[coll[n]]) \in Seq(Nat)
            /\ Distinct(Append(Listed(n), fresh[coll[n]]))
            /\ ToSet(Append(Listed(n), fresh[coll[n]])) = ToSet(Listed(n)) \cup {fresh[coll[n]]}
        BY <2>3, <3>2, DistinctAppended
      <3>4. Longer(n) \in ManifestEntry /\ Longer(n) # NoEntry /\ Longer(n).dim = Entry(n).dim
        BY <1>3, <2>4, <3>3, DimAssumption DEF ManifestEntry, NoEntry
      <3>5. Entry(n) # NoEntry
        BY <1>3, <2>4
      <3> HIDE DEF Longer
      <3> QED
        BY <2>4, <3>1, <3>3, <3>4, <3>5
    <2>5. CASE n \notin due
      BY <2>1, <2>2, <2>3, <2>5
    <2> QED
      BY <2>4, <2>5
  <1> HIDE DEF Longer, due
  <1>6. manifest' \in [floor : Nat, colls : Entries]
    <2>1. nextLsn - 1 \in Nat
      BY <1>1 DEF IInv, Types
    <2>2. manifest'.colls \in Entries
      <3>1. \A n \in Name : manifest'.colls[n] \in ManifestEntry
        BY <1>5 DEF Entry
      <3>2. manifest'.colls = [n \in Name |-> manifest'.colls[n]]
        BY <1>1
      <3> QED
        BY <3>1, <3>2 DEF Entries
    <2>3. manifest' = [floor |-> nextLsn - 1, colls |-> manifest'.colls]
      BY <1>1
    <2> QED
      BY <2>1, <2>2, <2>3
  <1>7. \A n \in due, m \in due : fresh[coll[n]] = fresh[coll[m]] => n = m
    BY <1>2, <1>3, StateFacts DEF due
  <1>8. OwnedOnce(manifest.colls')
    <2>1. \A n \in Name : SegmentsOf(manifest.colls', n) = Listed(n)'
      BY DEF Listed
    <2>2. \A n \in Name : Distinct(SegmentsOf(manifest.colls', n))
      BY <1>5, <2>1
    <2>3. ASSUME NEW n \in Name, NEW m \in Name, n # m
          PROVE  ToSet(SegmentsOf(manifest.colls', n)) \cap ToSet(SegmentsOf(manifest.colls', m)) = {}
      <3>1. ToSet(Listed(n)) \cap ToSet(Listed(m)) = {}
        BY <1>2, <2>3 DEF OwnedOnce, Listed
      <3>2. ToSet(Listed(n)) \subseteq Named /\ ToSet(Listed(m)) \subseteq Named
        BY StateFacts
      <3>3. n \in due => fresh[coll[n]] \notin Named
        BY <1>2 DEF due
      <3>4. m \in due => fresh[coll[m]] \notin Named
        BY <1>2 DEF due
      <3>5. /\ ToSet(Listed(n)') = ToSet(Listed(n)) \cup IF n \in due THEN {fresh[coll[n]]} ELSE {}
            /\ ToSet(Listed(m)') = ToSet(Listed(m)) \cup IF m \in due THEN {fresh[coll[m]]} ELSE {}
        BY <1>5
      <3> QED
        BY <1>7, <2>1, <2>3, <3>1, <3>2, <3>3, <3>4, <3>5
    <2> QED
      BY <2>2, <2>3 DEF OwnedOnce
  <1>9. Named' = Named \cup FreshIds
    <2>1. \A d : d \in Named' <=> \E n \in Name : d \in ToSet(Listed(n)')
      BY NamedBy DEF Named, Listed
    <2>2. \A d : d \in Named <=> \E n \in Name : d \in ToSet(Listed(n))
      BY NamedBy DEF Named, Listed
    <2>3. ASSUME NEW o \in DOMAIN fresh
          PROVE  \E n \in due : coll[n] = o
      <3>1. o \in DOMAIN objs /\ coll[objs[o].name] = o
        BY <1>2 DEF Flushed, IsCurrent
      <3> QED
        BY <3>1, StateFacts, ObjectFacts DEF due
    <2>4. ASSUME NEW d PROVE d \in Named' <=> d \in Named \cup FreshIds
      <3>1. ASSUME d \in Named' PROVE d \in Named \cup FreshIds
        <4>1. PICK n \in Name : d \in ToSet(Listed(n)')
          BY <2>1, <3>1
        <4>2. d \in ToSet(Listed(n)) \/ (n \in due /\ d = fresh[coll[n]])
          BY <1>5, <4>1
        <4> QED
          BY <2>2, <4>2 DEF FreshIds, due
      <3>2. ASSUME d \in Named PROVE d \in Named'
        <4>1. PICK n \in Name : d \in ToSet(Listed(n))
          BY <2>2, <3>2
        <4>2. d \in ToSet(Listed(n)')
          BY <1>5, <4>1
        <4> QED
          BY <2>1, <4>2
      <3>3. ASSUME d \in FreshIds PROVE d \in Named'
        <4>1. PICK o \in DOMAIN fresh : d = fresh[o]
          BY <3>3 DEF FreshIds
        <4>2. PICK n \in due : coll[n] = o
          BY <2>3
        <4>3. n \in Name /\ d \in ToSet(Listed(n)')
          BY <1>5, <4>1, <4>2 DEF due
        <4> QED
          BY <2>1, <4>3
      <3> QED
        BY <3>1, <3>2, <3>3
    <2> QED
      BY <2>4
  <1>10. Flushed' = Flushed
    BY <1>1 DEF Flushed, IsCurrent
  <1>11. Types'
    BY <1>1, <1>6 DEF IInv, Types, PC
  <1>12. Phases'
    BY <1>1, <1>2, <1>10 DEF Phases
  <1>13. Ids'
    <2>1. \A d \in Named' \cup DOMAIN dirs' : d < nextSegId'
      BY <1>1, <1>2, <1>9 DEF FreshIds
    <2> QED
      BY <1>1, <1>2, <1>8, <2>1 DEF Ids
  <1>14. Known'
    <2>1. ASSUME NEW n \in Name
          PROVE  IF coll'[n] = NoObj THEN Entry(n)' = NoEntry
                 ELSE Entry(n)' # NoEntry /\ Entry(n)'.dim = objs'[coll'[n]].dim
      BY <1>1, <1>2, <1>5 DEF Known
    <2> QED
      BY <2>1 DEF Known
  <1>15. Stale' = Stale
    BY <1>1 DEF Stale, history
  <1>16. ~Stale' => Mirror'
    <2> SUFFICES ASSUME ~Stale PROVE Mirror'
      BY <1>15
    <2>1. /\ \A n \in Name : coll[n] # NoObj => Listed(n) = objs[coll[n]].segIds
          /\ DOMAIN dirs = Named \cup FreshIds
      BY <1>1, <1>2 DEF IInv, Mirror, FreshIds
    <2>2. \A n \in Name : coll'[n] # NoObj =>
            Listed(n)' = IF coll'[n] \in DOMAIN fresh' THEN Append(objs'[coll'[n]].segIds, fresh'[coll'[n]])
                         ELSE objs'[coll'[n]].segIds
      BY <1>1, <1>5, <2>1 DEF due
    <2>3. DOMAIN dirs' = Named' \cup old'
      BY <1>1, <1>2, <1>9, <2>1
    <2> QED
      BY <1>1, <1>2, <2>2, <2>3 DEF Mirror
  <1> QED
    BY <1>11, <1>12, <1>13, <1>14, <1>16 DEF IInv

LEMMA FlushResetKeeps ==
    ASSUME IInv, FlushReset
    PROVE  IInv'
  <1> DEFINE Flush(o) == Object(objs[o].name, objs[o].dim,
                                ApplyFlush(objs[o].view, dirs[fresh[o]]), Append(objs[o].segIds, fresh[o]))
  <1>1. /\ pc = "flush_reset"
        /\ walFile' = <<>>
        /\ objs' = [o \in DOMAIN objs |->
                      IF o \in DOMAIN fresh
                        THEN Edited(objs[o], ApplyFlush(objs[o].view, dirs[fresh[o]]),
                                    Append(objs[o].segIds, fresh[o]))
                        ELSE objs[o]]
        /\ fresh' = <<>>
        /\ pc' = "ready"
        /\ UNCHANGED <<manifest, dirs, coll, nextSegId, nextLsn, op, target, todo, old, records, history>>
    BY DEF FlushReset, Edited
  <1>2. /\ Known /\ Up
        /\ DOMAIN fresh = Flushed /\ todo = {} /\ old = {}
        /\ \A d \in Named \cup DOMAIN dirs : d < nextSegId
        /\ \A o \in DOMAIN fresh : fresh[o] \in Nat /\ dirs[fresh[o]] \in Segment /\ o \in DOMAIN objs
    BY <1>1 DEF IInv, Phases, Ids, Up, Types, Flushed
  <1>3. ASSUME NEW o \in DOMAIN fresh
        PROVE  /\ Edited(objs[o], ApplyFlush(objs[o].view, dirs[fresh[o]]), Append(objs[o].segIds, fresh[o]))
                    = Flush(o)
               /\ Flush(o) \in CollObject
               /\ Len(Flush(o).segIds) = Len(Flush(o).view.immutables)
               /\ Flush(o).segIds = Append(objs[o].segIds, fresh[o])
               /\ Flush(o).name = objs[o].name /\ Flush(o).dim = objs[o].dim
    <2>1. objs[o] \in CollObject /\ objs[o].view \in View /\ objs[o].segIds \in Seq(Nat)
          /\ Len(objs[o].segIds) = Len(objs[o].view.immutables)
          /\ objs[o].name \in Name /\ objs[o].dim \in Dim
      BY <1>2, StateFacts, ObjectFacts
    <2> DEFINE view == ApplyFlush(objs[o].view, dirs[fresh[o]])
               ids == Append(objs[o].segIds, fresh[o])
    <2>2. view \in View /\ Len(view.immutables) = Len(objs[o].view.immutables) + 1
      <3>1. view \in View
        BY <1>2, <2>1, ApplyFlushType
      <3>2. objs[o].view.immutables \in Seq(Segment)
        BY <2>1 DEF View
      <3>3. view.immutables = Append(objs[o].view.immutables, dirs[fresh[o]])
        BY DEF ApplyFlush
      <3> QED
        BY <1>2, <3>1, <3>2, <3>3
    <2>3. ids \in Seq(Nat) /\ Len(ids) = Len(objs[o].segIds) + 1
      BY <1>2, <2>1
    <2>4. Edited(objs[o], view, ids) = Object(objs[o].name, objs[o].dim, view, ids)
      BY <2>1, EditedObject
    <2>5. Flush(o) = Object(objs[o].name, objs[o].dim, view, ids)
      OBVIOUS
    <2> HIDE DEF view, ids, Flush
    <2>6. /\ Flush(o).segIds = ids /\ Flush(o).view = view /\ Flush(o).name = objs[o].name
          /\ Flush(o).dim = objs[o].dim
          /\ Flush(o) \in CollObject
      BY <2>1, <2>2, <2>3, <2>5 DEF Object, CollObject
    <2> USE DEF view, ids
    <2>7. Len(Flush(o).segIds) = Len(Flush(o).view.immutables)
      <3> HIDE DEF view, ids
      <3> QED
        BY <2>1, <2>2, <2>3, <2>6
    <2> QED
      BY <2>4, <2>5, <2>6, <2>7
  <1> HIDE DEF Flush
  <1>4. /\ DOMAIN objs' = DOMAIN objs
        /\ \A o \in DOMAIN objs : objs'[o] = IF o \in DOMAIN fresh THEN Flush(o) ELSE objs[o]
    BY <1>1, <1>3
  <1>5. Objects(objs')
    <2>1. DOMAIN objs' = 1..Len(objs) /\ Len(objs) \in Nat /\ \A o \in DOMAIN objs : objs[o] \in CollObject
      BY <1>4, StateFacts, ObjectFacts
    <2>2. \A o \in 1..Len(objs) : objs'[o] \in CollObject
      BY <1>3, <1>4, <2>1
    <2>3. objs' = [o \in 1..Len(objs) |-> objs'[o]]
      BY <1>1, <2>1
    <2>4. objs' \in Seq(CollObject)
      BY <2>1, <2>2, <2>3
    <2>5. \A o \in DOMAIN objs' : Len(objs'[o].segIds) = Len(objs'[o].view.immutables)
      <3> TAKE o \in DOMAIN objs'
      <3>1. o \in DOMAIN objs /\ Len(objs[o].segIds) = Len(objs[o].view.immutables)
        BY <1>4, StateFacts, ObjectFacts
      <3>2. CASE o \in DOMAIN fresh
        BY <1>3, <1>4, <3>1, <3>2
      <3>3. CASE o \notin DOMAIN fresh
        BY <1>4, <3>1, <3>3
      <3> QED
        BY <3>2, <3>3
    <2> QED
      BY <2>4, <2>5 DEF Objects
  <1>6. \A o \in DOMAIN objs : objs'[o].name = objs[o].name /\ objs'[o].dim = objs[o].dim
    BY <1>3, <1>4
  <1>7. /\ coll' \in [Name -> {NoObj} \cup DOMAIN objs']
        /\ \A n \in Name : coll'[n] # NoObj => objs'[coll'[n]].name = n
    BY <1>1, <1>4, <1>6, StateFacts DEF IInv, Types
  <1>8. Named' = Named /\ (\A n : Listed(n)' = Listed(n) /\ Entry(n)' = Entry(n))
    BY <1>1 DEF Named, Listed, Entry
  <1>9. Types'
    <2>1. walFile' = <<>> /\ <<>> \in Seq(LogRecord)
      BY <1>1
    <2> QED
      BY <1>1, <1>5, <1>7, <2>1 DEF IInv, Types, PC
  <1>10. Known'
    BY <1>1, <1>2, <1>6, <1>8, StateFacts DEF Known
  <1>11. Stale' = Stale
    BY <1>1 DEF Stale, history
  <1>12. ~Stale' => /\ \A n \in Name : coll'[n] # NoObj => Listed(n)' = objs'[coll'[n]].segIds
                    /\ DOMAIN dirs' = Named' \cup old'
                    /\ old' \cap Named' = {}
    <2> SUFFICES ASSUME ~Stale
                 PROVE  /\ \A n \in Name : coll'[n] # NoObj => Listed(n)' = objs'[coll'[n]].segIds
                        /\ DOMAIN dirs' = Named' \cup old'
                        /\ old' \cap Named' = {}
      BY <1>11
    <2>1. /\ \A n \in Name : coll[n] # NoObj =>
               Listed(n) = IF coll[n] \in DOMAIN fresh THEN Append(objs[coll[n]].segIds, fresh[coll[n]])
                           ELSE objs[coll[n]].segIds
          /\ DOMAIN dirs = Named
      BY <1>1, <1>2 DEF IInv, Mirror
    <2>2. \A n \in Name : coll'[n] # NoObj => Listed(n)' = objs'[coll'[n]].segIds
      <3> TAKE n \in Name
      <3> SUFFICES ASSUME coll[n] # NoObj PROVE Listed(n) = objs'[coll[n]].segIds
        BY <1>1, <1>8
      <3>1. coll[n] \in DOMAIN objs
        BY StateFacts
      <3> QED
        BY <1>3, <1>4, <2>1, <3>1
    <2> QED
      BY <1>1, <1>2, <1>8, <2>1, <2>2
  <1>13. OwnedOnce(manifest.colls')
    BY <1>1, StateFacts
  <1>14. \A d \in Named' \cup DOMAIN dirs' : d < nextSegId'
    BY <1>1, <1>2, <1>8
  <1>15. DOMAIN fresh' = {}
    <2>1. fresh' = <<>>
      BY <1>1
    <2> QED
      BY <2>1
  <1> QED
    BY <1>1, <1>2, <1>9, <1>10, <1>12, <1>13, <1>14, <1>15, Settled

-----------------------------------------------------------------------------
(* A compaction. *)

LEMMA CompactWriteKeeps ==
    ASSUME IInv, NEW o \in DOMAIN objs, CompactWrite(o)
    PROVE  IInv'
  <1> DEFINE obj == objs[o]
             merged == Merged(obj.view)
             ids == IF IsEmpty(merged) THEN <<>> ELSE <<nextSegId>>
             view == ApplyCompact(obj.view)
  <1>1. /\ pc = "ready"
        /\ objs' = [objs EXCEPT ![o].view = ApplyCompact(@), ![o].segIds = ids]
        /\ dirs' = [d \in DOMAIN dirs \cup ToSet(ids) |->
                      IF d \in ToSet(ids) THEN SegmentOf(merged) ELSE dirs[d]]
        /\ nextSegId' = nextSegId + Len(ids)
        /\ old' = ToSet(obj.segIds)
        /\ target' = o
        /\ excused' = excused \cup IF IsCurrent(o) THEN {} ELSE {"stale"}
        /\ pc' = "compact_publish"
        /\ UNCHANGED <<manifest, walFile, coll, nextLsn, op, todo, fresh, records, promised, creates,
                       crashes>>
    BY DEF CompactWrite
  <1>2. /\ Known /\ old = {} /\ DOMAIN fresh = {}
        /\ \A d \in Named \cup DOMAIN dirs : d \in Nat /\ d < nextSegId
        /\ ~Stale => /\ \A m \in Name : coll[m] # NoObj => Listed(m) = objs[coll[m]].segIds
                     /\ DOMAIN dirs = Named
    BY <1>1, SettledFacts
  <1>3. todo = {} /\ nextSegId \in Nat /\ pc \notin {"flush_publish", "flush_reset"}
    BY <1>1 DEF IInv, Phases, Types
  <1>4. /\ obj \in CollObject /\ obj.view \in View /\ ToSet(obj.segIds) \subseteq Nat
        /\ obj.name \in Name
    BY StateFacts, ObjectFacts
  <1>5. /\ view \in View /\ SegmentOf(merged) \in Segment /\ Len(view.immutables) = Len(ids)
        /\ ids \in Seq(Nat)
        /\ \/ ids = <<>> /\ ToSet(ids) = {} /\ Len(ids) = 0
           \/ ids = <<nextSegId>> /\ ToSet(ids) = {nextSegId} /\ Len(ids) = 1
    <2>1. /\ view \in View /\ SegmentOf(merged) \in Segment
          /\ Len(view.immutables) = IF IsEmpty(merged) THEN 0 ELSE 1
      BY <1>4, CompactType
    <2>2. <<>> \in Seq(Nat) /\ <<nextSegId>> \in Seq(Nat) /\ ToSet(<<>>) = {}
          /\ ToSet(<<nextSegId>>) = {nextSegId} /\ Len(<<>>) = 0 /\ Len(<<nextSegId>>) = 1
      BY <1>3 DEF ToSet
    <2> HIDE DEF view, merged
    <2> QED
      BY <2>1, <2>2
  <1> HIDE DEF ids, merged
  <1>6. objs' = WithObject(objs, o, view, ids)
    <2>1. Edited(obj, view, ids) = Object(obj.name, obj.dim, view, ids)
      BY <1>4, EditedObject
    <2>2. objs' = [objs EXCEPT ![o] = Edited(obj, view, ids)]
      BY <1>1 DEF Edited
    <2> HIDE DEF view
    <2> QED
      BY <2>1, <2>2 DEF WithObject
  <1> HIDE DEF view
  <1>7. /\ Objects(objs') /\ DOMAIN objs' = DOMAIN objs
        /\ objs'[o].segIds = ids
        /\ \A p \in DOMAIN objs : p # o => objs'[p] = objs[p]
        /\ \A p \in DOMAIN objs : objs'[p].name = objs[p].name /\ objs'[p].dim = objs[p].dim
        /\ coll' \in [Name -> {NoObj} \cup DOMAIN objs']
        /\ \A m \in Name : coll'[m] # NoObj => objs'[coll'[m]].name = m
    BY <1>1, <1>5, <1>6, ObjectStep
  <1>8. /\ DOMAIN dirs' = DOMAIN dirs \cup ToSet(ids)
        /\ \A d \in DOMAIN dirs' : dirs'[d] \in Segment /\ d \in Nat /\ d < nextSegId'
        /\ nextSegId' \in Nat /\ nextSegId' >= nextSegId
    <2>1. \A d \in DOMAIN dirs : dirs[d] \in Segment
      BY DEF IInv, Types
    <2>2. nextSegId' = nextSegId + Len(ids) /\ DOMAIN dirs' = DOMAIN dirs \cup ToSet(ids)
      BY <1>1
    <2>3. nextSegId' \in Nat /\ nextSegId' >= nextSegId
      BY <1>3, <1>5, <2>2
    <2>4. \A d \in DOMAIN dirs' : d \in Nat /\ d < nextSegId'
      <3>1. \A d \in DOMAIN dirs : d \in Nat /\ d < nextSegId'
        BY <1>2, <1>3, <2>3
      <3>2. \A d \in ToSet(ids) : d \in Nat /\ d < nextSegId'
        <4>1. CASE ids = <<nextSegId>> /\ ToSet(ids) = {nextSegId} /\ Len(ids) = 1
          BY <1>3, <2>2, <4>1
        <4> QED
          BY <1>5, <4>1
      <3> QED
        BY <2>2, <3>1, <3>2
    <2>5. \A d \in DOMAIN dirs' : dirs'[d] \in Segment
      BY <1>1, <1>5, <2>1
    <2> QED
      BY <2>2, <2>3, <2>4, <2>5
  <1>9. Named' = Named /\ (\A n : Listed(n)' = Listed(n) /\ Entry(n)' = Entry(n))
    BY <1>1 DEF Named, Listed, Entry
  <1>10. Types'
    <2>1. DOMAIN dirs' \subseteq Nat
      BY <1>8
    <2> QED
      BY <1>1, <1>4, <1>7, <1>8, <2>1 DEF IInv, Types, PC
  <1>11. Phases'
    BY <1>1, <1>2, <1>3, <1>7 DEF Phases
  <1>12. Ids'
    <2>1. OwnedOnce(manifest.colls')
      BY <1>1, StateFacts
    <2>2. \A d \in Named' \cup DOMAIN dirs' : d < nextSegId'
      BY <1>2, <1>3, <1>8, <1>9
    <2>3. \/ objs'[target'].segIds = <<>>
          \/ \E d \in DOMAIN dirs' \ Named' : objs'[target'].segIds = <<d>>
      <3>1. nextSegId \notin Named
        BY <1>2, <1>3
      <3> QED
        BY <1>1, <1>5, <1>7, <1>8, <1>9, <3>1
    <2> QED
      BY <1>1, <1>2, <2>1, <2>2, <2>3 DEF Ids
  <1>13. Known'
    BY <1>1, <1>2, <1>7, <1>9, StateFacts DEF Known
  <1>14. ~Stale' => Mirror'
    <2> SUFFICES ASSUME ~Stale' PROVE Mirror'
      OBVIOUS
    <2>1. ~Stale /\ IsCurrent(o)
      BY <1>1 DEF Stale
    <2>2. coll[obj.name] = o
      BY <2>1 DEF IsCurrent
    <2>3. Target'
      BY <1>1, <1>7, <2>2 DEF Target
    <2>4. Listed(obj.name) = obj.segIds
      BY <1>2, <1>4, <2>1, <2>2, StateFacts, ObjectFacts
    <2>5. old' = ToSet(Listed(obj.name)) /\ old' \subseteq Named
      BY <1>1, <1>4, <2>4, StateFacts
    <2>6. DOMAIN dirs' = Named' \cup old' \cup ToSet(objs'[target'].segIds)
      BY <1>1, <1>2, <1>7, <1>8, <1>9, <2>1, <2>5
    <2>7. old' = ToSet(Listed(objs[target].name))'
      <3>1. objs'[target'].name = obj.name
        BY <1>1, <1>7
      <3> QED
        BY <1>9, <2>5, <3>1 DEF Listed
    <2>8. \A n \in Name : coll'[n] # NoObj /\ coll'[n] # target' => Listed(n)' = objs'[coll'[n]].segIds
      BY <1>1, <1>2, <1>7, <1>9, <2>1, StateFacts
    <2> QED
      BY <1>1, <1>2, <2>3, <2>6, <2>7, <2>8 DEF Mirror
  <1> QED
    BY <1>10, <1>11, <1>12, <1>13, <1>14 DEF IInv

LEMMA CompactPublishKeeps ==
    ASSUME IInv, CompactPublish
    PROVE  IInv'
  <1> DEFINE obj == objs[target]
             ids == obj.segIds
  <1>0. pc = "compact_publish" /\ target \in DOMAIN objs /\ todo = {} /\ DOMAIN fresh = {}
    BY DEF CompactPublish, IInv, Phases
  <1>1. obj.name \in Name /\ ids \in Seq(Nat)
    BY <1>0, StateFacts, ObjectFacts
  <1> PICK n \in Name : n = obj.name
    BY <1>1
  <1>2. /\ IF Entry(n) = NoEntry
             THEN Fail /\ old' = {} /\ UNCHANGED manifest
             ELSE /\ manifest' = [manifest EXCEPT !.colls[n].segments = ids]
                  /\ IF old = {} THEN Finish ELSE pc' = "clean" /\ UNCHANGED records
                  /\ UNCHANGED old
        /\ UNCHANGED <<walFile, dirs, objs, coll, nextSegId, nextLsn, op, target, todo, fresh, history>>
    BY DEF CompactPublish
  <1>3. /\ Known
        /\ \A d \in Named \cup DOMAIN dirs : d < nextSegId
        /\ \/ ids = <<>>
           \/ \E d \in DOMAIN dirs \ Named : ids = <<d>>
        /\ ~Stale => /\ \A m \in Name : coll[m] # NoObj /\ coll[m] # target =>
                          Listed(m) = objs[coll[m]].segIds
                     /\ DOMAIN dirs = Named \cup old \cup ToSet(ids)
                     /\ old = ToSet(Listed(n))
                     /\ coll[n] = target
    BY <1>0 DEF IInv, Ids, Up, Mirror, Target
  <1>4. Stale' = Stale
    BY <1>2 DEF Stale, history
  <1>5. CASE Entry(n) = NoEntry
    <2>1. Fail /\ old' = {} /\ UNCHANGED manifest
      BY <1>2, <1>5
    <2>2. /\ pc' \in {"ready", "replay", "failed"} /\ pc' \in PC
          /\ records' \in Seq(LogRecord)
      BY <2>1, EndFacts
    <2>3. Named' = Named /\ (\A m : Listed(m)' = Listed(m)) /\ Known' = Known
      BY <1>2, <2>1, SameCollections
    <2>4. Types'
      BY <1>0, <1>2, <2>1, <2>2 DEF IInv, Types
    <2>5. Stale
      <3>1. coll[n] = NoObj
        BY <1>3, <1>5 DEF Known
      <3>2. target # NoObj
        BY <1>0, StateFacts, ObjectFacts
      <3> QED
        BY <1>3, <3>1, <3>2
    <2>6. OwnedOnce(manifest.colls')
      BY <2>1, StateFacts
    <2>7. \A d \in Named' \cup DOMAIN dirs' : d < nextSegId'
      BY <1>2, <1>3, <2>3
    <2> QED
      BY <1>0, <1>2, <1>3, <1>4, <2>1, <2>2, <2>3, <2>4, <2>5, <2>6, <2>7, Settled
  <1>6. CASE Entry(n) # NoEntry
    <2> DEFINE e == [dim |-> Entry(n).dim, segments |-> ids]
    <2>1. /\ manifest' = [manifest EXCEPT !.colls[n].segments = ids]
          /\ IF old = {} THEN Finish ELSE pc' = "clean" /\ UNCHANGED records
          /\ UNCHANGED old
      BY <1>2, <1>6
    <2>2. /\ pc' \in {"ready", "replay", "failed", "clean"} /\ pc' \in PC
          /\ records' \in Seq(LogRecord)
          /\ old # {} => pc' = "clean"
      <3>1. CASE old = {}
        BY <2>1, <3>1, EndFacts
      <3>2. CASE old # {}
        BY <2>1, <3>2 DEF IInv, Types, PC
      <3> QED
        BY <3>1, <3>2
    <2>3. Distinct(ids) /\ ToSet(ids) \cap Named = {} /\ ToSet(ids) \subseteq DOMAIN dirs
      <3>1. CASE ids = <<>>
        BY <3>1, NoEntryFacts
      <3>2. ASSUME NEW d \in DOMAIN dirs \ Named, ids = <<d>>
            PROVE  Distinct(ids) /\ ToSet(ids) = {d}
        BY <3>2 DEF Distinct, ToSet
      <3> HIDE DEF ids
      <3> QED
        BY <1>3, <3>1, <3>2
    <2> HIDE DEF ids
    <2>4. e \in ManifestEntry /\ e.segments = ids /\ e # NoEntry /\ e.dim = Entry(n).dim
      <3>1. Entry(n).dim \in Dim
        BY <1>6, StateFacts DEF ManifestEntry
      <3> QED
        BY <1>1, <3>1, DimAssumption DEF ManifestEntry, NoEntry
    <2>5. manifest' = [floor |-> manifest.floor, colls |-> WithEntry(manifest.colls, n, e)]
      <3>1. manifest = [floor |-> manifest.floor, colls |-> manifest.colls]
            /\ manifest.colls \in Entries
        BY StateFacts
      <3>2. Entry(n) = [dim |-> Entry(n).dim, segments |-> Entry(n).segments]
        BY <1>6, StateFacts DEF ManifestEntry
      <3>3. [manifest.colls[n] EXCEPT !.segments = ids] = e
        BY <3>2 DEF Entry
      <3>4. manifest' = [manifest EXCEPT !.colls =
                           [manifest.colls EXCEPT ![n] = [manifest.colls[n] EXCEPT !.segments = ids]]]
        BY <2>1
      <3> HIDE DEF e
      <3> QED
        BY <3>1, <3>3, <3>4 DEF WithEntry
    <2> HIDE DEF e
    <2>6. /\ manifest' \in [floor : Nat, colls : Entries]
          /\ OwnedOnce(manifest.colls')
          /\ Entry(n)' = e /\ Listed(n)' = ids
          /\ \A m \in Name \ {n} : Listed(m)' = Listed(m) /\ Entry(m)' = Entry(m)
          /\ Named' = (Named \ ToSet(Listed(n))) \cup ToSet(ids)
      <3>1. ToSet(e.segments) \cap (Named \ ToSet(Listed(n))) = {} /\ Distinct(e.segments)
        BY <2>3, <2>4
      <3> QED
        BY <2>4, <2>5, <3>1, EntryStep
    <2>7. Known'
      <3>1. ASSUME NEW m \in Name
            PROVE  IF coll'[m] = NoObj THEN Entry(m)' = NoEntry
                   ELSE Entry(m)' # NoEntry /\ Entry(m)'.dim = objs'[coll'[m]].dim
        <4>1. IF coll[m] = NoObj THEN Entry(m) = NoEntry
              ELSE Entry(m) # NoEntry /\ Entry(m).dim = objs[coll[m]].dim
          BY <1>3 DEF Known
        <4>2. coll' = coll /\ objs' = objs
          BY <1>2
        <4>3. CASE m = n
          BY <1>6, <2>4, <2>6, <4>1, <4>2, <4>3
        <4>4. CASE m # n
          BY <2>6, <4>1, <4>2, <4>4
        <4> QED
          BY <4>3, <4>4
      <3> QED
        BY <3>1 DEF Known
    <2>8. Types'
      BY <1>0, <1>2, <2>1, <2>2, <2>6 DEF IInv, Types
    <2>9. \A d \in Named' \cup DOMAIN dirs' : d < nextSegId'
      BY <1>2, <1>3, <2>3, <2>6
    <2>10. ~Stale => /\ \A m \in Name : coll'[m] # NoObj => Listed(m)' = objs'[coll'[m]].segIds
                     /\ DOMAIN dirs' = Named' \cup old'
                     /\ old' \cap Named' = {}
      <3> SUFFICES ASSUME ~Stale
                   PROVE  /\ \A m \in Name : coll'[m] # NoObj => Listed(m)' = objs'[coll'[m]].segIds
                          /\ DOMAIN dirs' = Named' \cup old'
                          /\ old' \cap Named' = {}
        OBVIOUS
      <3>1. /\ \A m \in Name : coll[m] # NoObj /\ coll[m] # target => Listed(m) = objs[coll[m]].segIds
            /\ DOMAIN dirs = Named \cup old \cup ToSet(ids)
            /\ old = ToSet(Listed(n)) /\ coll[n] = target
        BY <1>3
      <3>2. \A m \in Name : coll'[m] # NoObj => Listed(m)' = objs'[coll'[m]].segIds
        <4> TAKE m \in Name
        <4> SUFFICES ASSUME coll[m] # NoObj PROVE Listed(m)' = objs[coll[m]].segIds
          BY <1>2
        <4>1. CASE m = n
          BY <2>6, <3>1, <4>1 DEF ids
        <4>2. CASE m # n
          <5>1. coll[m] # target
            BY <3>1, <4>2, StateFacts
          <5> QED
            BY <2>6, <3>1, <4>2, <5>1
        <4> QED
          BY <4>1, <4>2
      <3>3. ToSet(Listed(n)) \subseteq Named
        BY StateFacts
      <3> QED
        BY <1>2, <2>1, <2>3, <2>6, <3>1, <3>2, <3>3
    <2> QED
      BY <1>0, <1>2, <1>4, <2>1, <2>2, <2>6, <2>7, <2>8, <2>9, <2>10, Settled
  <1> QED
    BY <1>5, <1>6

-----------------------------------------------------------------------------
(* The end of the process, and the recovery. *)

LEMMA LoseMemoryKeeps ==
    ASSUME IInv, LoseMemory
    PROVE  IInv'
  <1>1. /\ objs' = <<>> /\ coll' = [n \in Name |-> NoObj] /\ nextSegId' = 0 /\ nextLsn' = 0
        /\ pc' = "down" /\ todo' = {} /\ fresh' = <<>> /\ old' = {} /\ records' = <<>>
        /\ UNCHANGED <<manifest, walFile, dirs>>
    BY DEF LoseMemory, disk
  <1>2. DOMAIN <<>> = {} /\ <<>> \in Seq(LogRecord) /\ <<>> \in Seq(CollObject)
    OBVIOUS
  <1>3. Objects(objs') /\ DOMAIN fresh' = {}
    BY <1>1, <1>2 DEF Objects
  <1>4. coll' \in [Name -> {NoObj} \cup DOMAIN objs'] /\ \A n \in Name : coll'[n] = NoObj
    BY <1>1
  <1>5. Types'
    BY <1>1, <1>2, <1>3, <1>4 DEF IInv, Types, PC
  <1>6. Phases'
    BY <1>1, <1>3 DEF Phases
  <1>7. Ids'
    <2>1. OwnedOnce(manifest.colls')
      BY <1>1, StateFacts
    <2> QED
      BY <1>1, <1>3, <2>1 DEF Ids, Up
  <1> QED
    BY <1>1, <1>5, <1>6, <1>7 DEF IInv, Up

(* The sequence of a finite set. *)
LEMMA SetAsSeq ==
    ASSUME NEW S, IsFiniteSet(S)
    PROVE  /\ SetToSeq(S) \in Seq(S)
           /\ ToSet(SetToSeq(S)) = S
           /\ Distinct(SetToSeq(S))
  <1> DEFINE n == Cardinality(S)
             s == SetToSeq(S)
  <1>1. n \in Nat /\ ExistsBijection(1..n, S)
    BY FS_CardinalityType
  <1> HIDE DEF n
  <1>2. \E f \in [1..n -> S] : IsInjective(f)
    BY <1>1 DEF ExistsBijection, Bijection, Injection
  <1>3. s \in [1..n -> S] /\ IsInjective(s)
    BY <1>2 DEF SetToSeq, n
  <1> HIDE DEF s
  <1>4. s \in Injection(1..n, S)
    BY <1>3 DEF Injection
  <1>5. Cardinality(1..n) = n
    BY <1>1, FS_Interval
  <1>6. s \in Surjection(1..n, S)
    BY <1>4, <1>5, FS_Injection DEF n
  <1>7. ToSet(s) = S
    BY <1>3, <1>6 DEF Surjection, ToSet
  <1>8. s \in Seq(S)
    BY <1>1, <1>3
  <1>9. Distinct(s)
    BY <1>3 DEF IsInjective, Distinct
  <1> QED
    BY <1>7, <1>8, <1>9 DEF s

LEMMA NoPosition ==
    ASSUME NEW S, NEW s \in Seq(S), NEW d, d \notin ToSet(s)
    PROVE  PositionIn(s, d) = 0
  <1>1. \A i \in 1..Len(s) : s[i] # d
    BY DEF ToSet
  <1> QED
    BY <1>1 DEF PositionIn, SelectInSeq

LEMMA OpenKeeps ==
    ASSUME IInv, Open
    PROVE  IInv'
  <1> DEFINE present == {n \in Name : Entry(n) # NoEntry}
             names == SetToSeq(present)
             used == UNION {ToSet(Entry(n).segments) : n \in Name}
  <1>1. /\ pc = "down"
        /\ nextLsn' = NextLsnAtOpen(walFile, manifest.floor)
        /\ IF used \subseteq DOMAIN dirs
             THEN /\ objs' = Loaded(names)
                  /\ coll' = [n \in Name |-> PositionIn(names, n)]
                  /\ nextSegId' = NextSegIdAtOpen(used)
                  /\ dirs' = [d \in used |-> dirs[d]]
                  /\ records' = ToReplay(walFile, manifest.floor)
                  /\ pc' = "replay"
             ELSE pc' = "failed" /\ UNCHANGED <<objs, coll, nextSegId, dirs, records>>
        /\ UNCHANGED <<manifest, walFile, op, target, todo, fresh, old, history>>
    BY DEF Open, PositionIn
  <1>2. todo = {} /\ DOMAIN fresh = {} /\ old = {}
    BY <1>1 DEF IInv, Phases
  <1>3. nextLsn' \in Nat /\ nextLsn' > 0 /\ ToReplay(walFile, manifest.floor) \in Seq(LogRecord)
    <2>1. walFile \in Seq(LogRecord) /\ manifest.floor \in Nat
      BY StateFacts DEF IInv, Types
    <2> QED
      BY <1>1, <2>1, NextLsnType, ToReplayType
  <1>4. used = Named
    BY DEF Named, NamedIn, SegmentsOf, Entry
  <1>5. /\ Named' = Named
        /\ \A n \in Name : Listed(n)' = Listed(n) /\ Entry(n)' = Entry(n)
    BY <1>1 DEF Named, Listed, Entry
  <1>6. OwnedOnce(manifest.colls')
    BY <1>1, StateFacts
  <1>7. CASE ~(used \subseteq DOMAIN dirs)
    <2>1. pc' = "failed" /\ UNCHANGED <<objs, coll, nextSegId, dirs, records>>
      BY <1>1, <1>7
    <2>2. Types'
      BY <1>1, <1>3, <2>1 DEF IInv, Types, PC
    <2>3. Phases'
      BY <1>1, <1>2, <2>1 DEF Phases
    <2>4. Ids'
      BY <1>1, <1>2, <1>6, <2>1 DEF Ids, Up
    <2> QED
      BY <2>1, <2>2, <2>3, <2>4 DEF IInv, Up
  <1>8. CASE used \subseteq DOMAIN dirs
    <2>1. /\ objs' = Loaded(names)
          /\ coll' = [n \in Name |-> PositionIn(names, n)]
          /\ nextSegId' = NextSegIdAtOpen(used)
          /\ dirs' = [d \in used |-> dirs[d]]
          /\ records' = ToReplay(walFile, manifest.floor)
          /\ pc' = "replay"
      BY <1>1, <1>8
    <2>2. names \in Seq(present) /\ ToSet(names) = present /\ present \subseteq Name
      <3>1. IsFiniteSet(present)
        BY NameAssumption, FS_Subset
      <3> QED
        BY <3>1, SetAsSeq
    <2> HIDE DEF names, used
    <2> DEFINE loaded == Loaded(names)
    <2>3. /\ DOMAIN loaded = DOMAIN names
          /\ \A i \in DOMAIN names :
               /\ loaded[i] \in CollObject
               /\ loaded[i].name = names[i] /\ loaded[i].dim = Entry(names[i]).dim
               /\ loaded[i].segIds = Listed(names[i])
               /\ Len(loaded[i].segIds) = Len(loaded[i].view.immutables)
      <3>1. DOMAIN loaded = DOMAIN names
        BY DEF Loaded
      <3>2. ASSUME NEW i \in DOMAIN names
            PROVE  /\ loaded[i] \in CollObject
                   /\ loaded[i].name = names[i] /\ loaded[i].dim = Entry(names[i]).dim
                   /\ loaded[i].segIds = Listed(names[i])
                   /\ Len(loaded[i].segIds) = Len(loaded[i].view.immutables)
        <4>1. names[i] \in present
          BY <2>2
        <4> PICK n \in Name : n = names[i] /\ Entry(n) # NoEntry
          BY <4>1
        <4> DEFINE segs == [k \in DOMAIN Listed(n) |-> dirs[Listed(n)[k]]]
                   view == [mutable |-> EmptyMutable, immutables |-> segs]
        <4>2. /\ Listed(n) \in Seq(Nat) /\ Entry(n).segments = Listed(n) /\ Entry(n).dim \in Dim
              /\ ToSet(Listed(n)) \subseteq DOMAIN dirs
          BY <1>4, <1>8, StateFacts DEF ManifestEntry
        <4>3. \A k \in DOMAIN Listed(n) : dirs[Listed(n)[k]] \in Segment
          <5>1. \A k \in DOMAIN Listed(n) : Listed(n)[k] \in DOMAIN dirs
            BY <4>2 DEF ToSet
          <5> QED
            BY <5>1 DEF IInv, Types
        <4>4. segs \in Seq(Segment) /\ Len(segs) = Len(Listed(n))
          <5>1. DOMAIN Listed(n) = 1..Len(Listed(n)) /\ Len(Listed(n)) \in Nat
            BY <4>2
          <5> QED
            BY <4>3, <5>1
        <4>5. view \in View /\ view.immutables = segs
          BY <4>4, EmptyMutableType DEF View
        <4>6. loaded[i] = Object(n, Entry(n).dim, view, Listed(n))
          BY <4>2 DEF Loaded
        <4> HIDE DEF view, segs, loaded
        <4>7. /\ loaded[i].name = n /\ loaded[i].dim = Entry(n).dim /\ loaded[i].view = view
              /\ loaded[i].segIds = Listed(n)
              /\ loaded[i] \in CollObject
          BY <4>2, <4>5, <4>6 DEF Object, CollObject
        <4> QED
          BY <4>4, <4>5, <4>7
      <3> QED
        BY <3>1, <3>2
    <2> HIDE DEF loaded
    <2>4. objs' = loaded
      BY <2>1 DEF loaded
    <2>5. Objects(objs')
      <3>1. DOMAIN names = 1..Len(names) /\ Len(names) \in Nat
        BY <2>2
      <3>2. loaded = [i \in DOMAIN names |-> loaded[i]]
        BY <2>3 DEF loaded, Loaded
      <3>3. loaded \in Seq(CollObject)
        BY <2>3, <3>1, <3>2
      <3> QED
        BY <2>3, <2>4, <3>3 DEF Objects
    <2>6. ASSUME NEW n \in Name
          PROVE  /\ coll'[n] \in {NoObj} \cup DOMAIN objs'
                 /\ coll'[n] = NoObj <=> Entry(n) = NoEntry
                 /\ coll'[n] # NoObj => /\ objs'[coll'[n]].name = n
                                        /\ objs'[coll'[n]].dim = Entry(n).dim
                                        /\ objs'[coll'[n]].segIds = Listed(n)
      <3>1. coll'[n] = PositionIn(names, n)
        BY <2>1
      <3>2. CASE n \in present
        <4>1. PositionIn(names, n) \in DOMAIN names /\ names[PositionIn(names, n)] = n
          BY <2>2, <3>2, PositionOf
        <4>2. DOMAIN names = 1..Len(names)
          BY <2>2
        <4>3. PositionIn(names, n) # NoObj
          BY <4>1, <4>2 DEF NoObj
        <4> QED
          BY <2>3, <2>4, <3>1, <3>2, <4>1, <4>3
      <3>3. CASE n \notin present
        <4>1. PositionIn(names, n) = NoObj
          BY <2>2, <3>3, NoPosition DEF NoObj
        <4> QED
          BY <3>1, <3>3, <4>1
      <3> QED
        BY <3>2, <3>3
    <2>7. coll' \in [Name -> {NoObj} \cup DOMAIN objs']
      BY <2>1, <2>6
    <2>8. /\ nextSegId' \in Nat
          /\ \A d \in Named : d \in Nat /\ d < nextSegId'
      BY <1>4, <2>1, StateFacts, NamedAreBounded DEF Named
    <2>9. DOMAIN dirs' = Named /\ \A d \in Named : dirs'[d] \in Segment
      BY <1>4, <1>8, <2>1 DEF IInv, Types
    <2>10. Types'
      <3>1. DOMAIN dirs' \subseteq Nat
        BY <2>8, <2>9
      <3> QED
        BY <1>1, <1>2, <1>3, <2>1, <2>5, <2>6, <2>7, <2>8, <2>9, <3>1 DEF IInv, Types, PC
    <2>11. Known'
      BY <1>5, <2>6 DEF Known
    <2> QED
      BY <1>1, <1>2, <1>5, <1>6, <2>1, <2>6, <2>8, <2>9, <2>10, <2>11, Settled
  <1> QED
    BY <1>7, <1>8

LEMMA ReplayRecordKeeps ==
    ASSUME IInv, ReplayRecord
    PROVE  IInv'
  <1> DEFINE r == Head(records).op
             o == coll[r.name]
  <1>1. /\ pc = "replay" /\ records # <<>>
        /\ op' = r
        /\ \/ (Finish \/ Fail) /\ target' = target
           \/ r.kind = "create" /\ o = NoObj /\ pc' = "create" /\ records' = records /\ target' = target
           \/ r.kind = "drop" /\ pc' = "drop" /\ records' = records /\ target' = target
           \/ /\ r.kind \notin {"create", "drop"} /\ o # NoObj
              /\ pc' = "apply" /\ target' = o /\ records' = records
        /\ UNCHANGED <<manifest, walFile, dirs, objs, coll, nextSegId, nextLsn, todo, fresh, old, history>>
    BY DEF ReplayRecord, disk
  <1>2. r \in Call
    BY <1>1, RecordFacts DEF IInv, Types
  <1>3. r.name \in Name /\ r.kind \in {"create", "drop", "upsert", "delete"}
    BY <1>2 DEF Call
  <1>4. /\ Known /\ DOMAIN fresh = {} /\ old = {}
        /\ \A d \in Named \cup DOMAIN dirs : d \in Nat /\ d < nextSegId
        /\ ~Stale => /\ \A n \in Name : coll[n] # NoObj => Listed(n) = objs[coll[n]].segIds
                     /\ DOMAIN dirs = Named
    BY <1>1, SettledFacts
  <1>5. todo = {}
    BY <1>1 DEF IInv, Phases
  <1>6. Named' = Named /\ (\A n : Listed(n)' = Listed(n)) /\ Known' = Known
    BY <1>1, SameCollections
  <1>7. Stale' = Stale
    BY <1>1 DEF Stale, history
  <1>8. OwnedOnce(manifest.colls') /\ \A d \in Named' \cup DOMAIN dirs' : d < nextSegId'
    BY <1>1, <1>4, <1>6, StateFacts
  <1> HIDE DEF r
  <1>9. CASE Finish \/ Fail
    <2>1. records' \in Seq(LogRecord) /\ pc' \in PC /\ pc' \in {"ready", "replay", "failed"}
      BY <1>9, EndFacts
    <2>2. Types'
      BY <1>1, <2>1 DEF IInv, Types
    <2> QED
      BY <1>1, <1>4, <1>5, <1>6, <1>7, <1>8, <2>1, <2>2, Settled
  <1>10. CASE /\ records' = records
              /\ \/ r.kind = "create" /\ o = NoObj /\ pc' = "create" /\ target' = target
                 \/ r.kind = "drop" /\ pc' = "drop" /\ target' = target
                 \/ r.kind \notin {"create", "drop"} /\ o # NoObj /\ pc' = "apply" /\ target' = o
    <2>1. Types'
      BY <1>1, <1>10 DEF IInv, Types, PC
    <2>2. pc' = "apply" => /\ target' \in DOMAIN objs /\ objs[target'].name = r.name
                           /\ r.kind \in {"upsert", "delete"} /\ coll[r.name] = target'
      BY <1>3, <1>10, StateFacts
    <2>3. Phases'
      BY <1>1, <1>2, <1>4, <1>5, <1>10, <2>2 DEF Phases
    <2>4. Ids'
      BY <1>1, <1>4, <1>8, <1>10 DEF Ids
    <2>5. ~Stale' => Mirror'
      <3>1. pc' = "apply" => Target'
        BY <1>1, <2>2 DEF Target
      <3> QED
        BY <1>1, <1>4, <1>5, <1>6, <1>7, <1>10, <3>1 DEF Mirror
    <2> QED
      BY <1>4, <1>6, <2>1, <2>3, <2>4, <2>5 DEF IInv
  <1> QED
    BY <1>1, <1>9, <1>10

LEMMA ReplayEndKeeps ==
    ASSUME IInv, ReplayEnd
    PROVE  IInv'
  <1>1. /\ pc = "replay" /\ pc' = "ready"
        /\ UNCHANGED <<manifest, walFile, dirs, objs, coll, nextSegId, nextLsn, op, target, todo,
                       fresh, old, records, history>>
    BY DEF ReplayEnd, disk
  <1>2. /\ Known /\ DOMAIN fresh = {} /\ old = {}
        /\ \A d \in Named \cup DOMAIN dirs : d \in Nat /\ d < nextSegId
        /\ ~Stale => /\ \A n \in Name : coll[n] # NoObj => Listed(n) = objs[coll[n]].segIds
                     /\ DOMAIN dirs = Named
    BY <1>1, SettledFacts
  <1>3. todo = {}
    BY <1>1 DEF IInv, Phases
  <1>4. Named' = Named /\ (\A n : Listed(n)' = Listed(n)) /\ Known' = Known
    BY <1>1, SameCollections
  <1>5. Types'
    BY <1>1 DEF IInv, Types, PC
  <1>6. Stale' = Stale
    BY <1>1 DEF Stale, history
  <1>7. OwnedOnce(manifest.colls') /\ \A d \in Named' \cup DOMAIN dirs' : d < nextSegId'
    BY <1>1, <1>2, <1>4, StateFacts
  <1> QED
    BY <1>1, <1>2, <1>3, <1>4, <1>5, <1>6, <1>7, Settled

LEMMA StutterKeeps ==
    ASSUME IInv, UNCHANGED vars
    PROVE  IInv'
  <1>1. UNCHANGED <<manifest, walFile, dirs, objs, coll, nextSegId, nextLsn, pc, op, target, todo,
                    fresh, old, records, excused>>
    BY DEF vars, disk, call, history
  <1>2. Named' = Named /\ (\A n : Listed(n)' = Listed(n)) /\ Known' = Known /\ Flushed' = Flushed
    BY <1>1, SameCollections
  <1>3. Types'
    BY <1>1 DEF IInv, Types
  <1>4. Phases'
    BY <1>1, <1>2 DEF IInv, Phases
  <1>5. Ids'
    BY <1>1, <1>2 DEF IInv, Ids, Up
  <1>6. Target' = Target /\ Stale' = Stale /\ Up' = Up
    BY <1>1 DEF Target, Stale, Up
  <1>7. (Up /\ ~Stale => Mirror)'
    <2>1. Listed(objs[target].name)' = Listed(objs[target].name)
      BY <1>1 DEF Listed
    <2> QED
      BY <1>1, <1>2, <1>6, <2>1 DEF IInv, Mirror
  <1> QED
    BY <1>2, <1>3, <1>4, <1>5, <1>6, <1>7 DEF IInv

-----------------------------------------------------------------------------
(* The invariant, and what it implies. *)

LEMMA NextKeeps == IInv /\ [Next]_vars => IInv'
  <1> SUFFICES ASSUME IInv, [Next]_vars PROVE IInv'
    OBVIOUS
  <1>1. ASSUME NEW name \in Name, NEW dim \in Dim, Create(name, dim) PROVE IInv'
    BY <1>1, CreateKeeps
  <1>2. CASE CreatePublish
    BY <1>2, CreatePublishKeeps
  <1>3. ASSUME NEW name \in Name, Drop(name) PROVE IInv'
    BY <1>3, DropKeeps
  <1>4. CASE DropPublish
    BY <1>4, DropPublishKeeps
  <1>5. CASE Clean
    BY <1>5, CleanKeeps
  <1>6. ASSUME NEW o \in DOMAIN objs, NEW kind \in {"upsert", "delete"}, NEW id \in Id,
               Write(o, kind, {id})
        PROVE  IInv'
    BY <1>6, WriteKeeps
  <1>7. CASE Apply
    BY <1>7, ApplyKeeps
  <1>8. CASE RebuildOne
    BY <1>8, RebuildOneKeeps
  <1>9. CASE FlushWrite
    BY <1>9, FlushWriteKeeps
  <1>10. CASE FlushPublish
    BY <1>10, FlushPublishKeeps
  <1>11. CASE FlushReset
    BY <1>11, FlushResetKeeps
  <1>12. ASSUME NEW o \in DOMAIN objs, CompactWrite(o) PROVE IInv'
    BY <1>12, CompactWriteKeeps
  <1>13. CASE CompactPublish
    BY <1>13, CompactPublishKeeps
  <1>14. CASE Crash
    BY <1>14, LoseMemoryKeeps DEF Crash
  <1>15. CASE Retry
    BY <1>15, LoseMemoryKeeps DEF Retry
  <1>16. CASE Open
    BY <1>16, OpenKeeps
  <1>17. CASE ReplayRecord
    BY <1>17, ReplayRecordKeeps
  <1>18. CASE ReplayEnd
    BY <1>18, ReplayEndKeeps
  <1>19. CASE Read
    BY <1>19, StutterKeeps DEF Read
  <1>20. CASE UNCHANGED vars
    BY <1>20, StutterKeeps
  <1> QED
    BY <1>1, <1>2, <1>3, <1>4, <1>5, <1>6, <1>7, <1>8, <1>9, <1>10, <1>11, <1>12, <1>13, <1>14,
       <1>15, <1>16, <1>17, <1>18, <1>19, <1>20 DEF Next

(* The invariant holds of every database, however many collections it has. *)
THEOREM LifecycleInvariant == Spec => []IInv
  <1> QED
    BY InitHolds, NextKeeps, PTL DEF Spec

(* The state keeps its shape: every name of the manifest has a dimension   *)
(* of a configuration, and every object has one id for each segment of its *)
(* view (create_collection, flush_locked, compact_locked,                  *)
(* rebuild_segment_locked and open_inner of engine.rs).                    *)
THEOREM LifecycleTypes == Spec => []TypeOK
  <1>1. IInv => TypeOK
    <2> SUFFICES ASSUME IInv PROVE TypeOK
      OBVIOUS
    <2>1. DOMAIN manifest.colls = Name
      <3>1. manifest.colls \in [Name -> ManifestEntry]
        BY StateFacts DEF Entries
      <3> QED
        BY <3>1
    <2>2. \A n \in Name : Entry(n) = NoEntry \/ Entry(n).dim \in Dim
      BY StateFacts DEF ManifestEntry
    <2>3. \A d \in DOMAIN dirs : dirs[d] \in Segment
      BY DEF IInv, Types
    <2>4. \A o \in DOMAIN objs :
            /\ objs[o].name \in Name /\ objs[o].dim \in Dim
            /\ objs[o].view \in View
            /\ Len(objs[o].segIds) = Len(objs[o].view.immutables)
      BY StateFacts, ObjectFacts
    <2>5. (\A n \in Name : coll[n] \in {NoObj} \cup DOMAIN objs) /\ pc \in PC
      BY StateFacts DEF IInv, Types
    <2> QED
      BY <2>1, <2>2, <2>3, <2>4, <2>5, StateFacts DEF TypeOK
  <1> QED
    BY <1>1, LifecycleInvariant, PTL

(* No segment belongs to two collections, though segment ids are handed    *)
(* out again after a crash (Manifest::max_segment_id at open) and handles  *)
(* of dropped collections rebuild and compact under a name that another    *)
(* collection may have.                                                    *)
THEOREM NoSegmentHasTwoOwners == Spec => []SegmentsAreOwnedOnce
  <1>1. IInv => SegmentsAreOwnedOnce
    <2> SUFFICES ASSUME IInv PROVE SegmentsAreOwnedOnce
      OBVIOUS
    <2>1. \A n \in Name : Entry(n).segments = SegmentsOf(manifest.colls, n)
      BY DEF Entry, SegmentsOf
    <2> QED
      BY <2>1, StateFacts, OwnedOnceIs DEF SegmentsAreOwnedOnce
  <1> QED
    BY <1>1, LifecycleInvariant, PTL

(* Between calls the manifest, the memory and the segment directories      *)
(* agree, unless a handle of a dropped collection has been used: what a    *)
(* restart loads is what was shown, and no directory leaks.                *)
THEOREM ManifestIsMemory == Spec => []ManifestMirrorsMemory
  <1>1. IInv => ManifestMirrorsMemory
    <2> SUFFICES ASSUME IInv, pc = "ready", ~Stale
                 PROVE  /\ \A n \in Name :
                             IF coll[n] = NoObj THEN Entry(n) = NoEntry
                             ELSE Entry(n) = [dim |-> objs[coll[n]].dim, segments |-> objs[coll[n]].segIds]
                        /\ DOMAIN dirs = UNION {ToSet(Entry(n).segments) : n \in Name}
      BY DEF ManifestMirrorsMemory, Stale
    <2>1. /\ Known /\ old = {}
          /\ \A n \in Name : coll[n] # NoObj => Listed(n) = objs[coll[n]].segIds
          /\ DOMAIN dirs = Named \cup old
      BY SettledFacts
    <2>2. Named = UNION {ToSet(Entry(n).segments) : n \in Name}
      BY DEF Named, NamedIn, SegmentsOf, Entry
    <2>3. ASSUME NEW n \in Name, coll[n] # NoObj
          PROVE  Entry(n) = [dim |-> objs[coll[n]].dim, segments |-> objs[coll[n]].segIds]
      <3>1. Entry(n) # NoEntry /\ Entry(n).dim = objs[coll[n]].dim
        BY <2>1, <2>3 DEF Known
      <3>2. Entry(n) = [dim |-> Entry(n).dim, segments |-> Entry(n).segments]
        BY <3>1, StateFacts DEF ManifestEntry
      <3>3. Entry(n).segments = objs[coll[n]].segIds
        BY <2>1, <2>3, StateFacts
      <3> QED
        BY <3>1, <3>2, <3>3
    <2> QED
      BY <2>1, <2>2, <2>3 DEF Known
  <1> QED
    BY <1>1, LifecycleInvariant, PTL

-----------------------------------------------------------------------------
(***************************************************************************)
(* Recovery.  As long as nothing in "excused" has happened, the manifest,  *)
(* the directories and the log lead, for each name, to what was promised   *)
(* (Kept), wherever a crash leaves them; and what is still to be done of a *)
(* call or of a replay leads memory there (OnTrack).                       *)
(***************************************************************************)


(* The records of a log that create or drop a collection, and those that   *)
(* write to it.                                                            *)
Marks(s, n) == {i \in DOMAIN s : s[i].op.name = n /\ s[i].op.kind \in {"create", "drop"}}
Creates(s, n) == {i \in Marks(s, n) : s[i].op.kind = "create"}
WritesOf(s, n) == {i \in DOMAIN s : s[i].op.name = n /\ s[i].op.kind \in {"upsert", "delete"}}

(* Mark j is the last one before record i; no mark is before record i.     *)
Under(s, n, j, i) == j < i /\ \A k \in Marks(s, n) : k < i => k <= j
Earliest(s, n, i) == \A k \in Marks(s, n) : k >= i
Latest(s, n, j) == \A k \in Marks(s, n) : k <= j

(* The dimension that a mark leaves a name with, 0 when it has none.       *)
Made(r) == IF r.kind = "create" THEN r.dim ELSE 0

Ordered(s, n) ==
    \A j \in Marks(s, n) :
      /\ \A k \in Marks(s, n) : Under(s, n, j, k) => s[k].op.kind # s[j].op.kind
      /\ \A i \in WritesOf(s, n) : Under(s, n, j, i) =>
           s[j].op.kind = "create" /\ s[i].op.dim = s[j].op.dim

(* Name n, of dimension c now, can go through the records, and is of       *)
(* dimension p afterwards.                                                 *)
Playable(s, n, c, p) ==
    /\ Ordered(s, n)
    /\ \A i \in WritesOf(s, n) :
         Earliest(s, n, i) => c # 0 /\ (s[i].op.kind = "upsert" => s[i].op.dim = c)
    /\ \A j \in Creates(s, n), i \in WritesOf(s, n) :
         Earliest(s, n, j) /\ Under(s, n, j, i) /\ s[i].op.kind = "upsert" => c \in {0, s[i].op.dim}
    /\ Marks(s, n) = {} => p = c
    /\ \A j \in Marks(s, n) : Latest(s, n, j) => p = Made(s[j].op)
    /\ \A j \in Creates(s, n) : Marks(s, n) = {j} => c \in {0, s[j].op.dim}

(* What the log is like, wherever a recovery starts it from, *)
LogOf(s, n, p) ==
    /\ Ordered(s, n)
    /\ Marks(s, n) # {} => \A i \in WritesOf(s, n) : \E k \in Creates(s, n) : k < i
    /\ \A k \in Creates(s, n), i \in WritesOf(s, n) :
         i < k /\ s[i].op.kind = "upsert" => s[i].op.dim = s[k].op.dim
    /\ \A j \in Marks(s, n) : Latest(s, n, j) => p = Made(s[j].op)

(* and where it may start it from.                                         *)
StartsAt(s, n, c, p) ==
    /\ Marks(s, n) = {} => p = c /\ \A i \in WritesOf(s, n) : c # 0 /\ s[i].op.dim = c
    /\ \A j \in Creates(s, n) : Earliest(s, n, j) => c = 0 \/ \E k \in Creates(s, n) : c = s[k].op.dim

Settles(r, n, id) ==
    r.name = n /\ (r.kind = "drop" \/ (r.kind \in {"upsert", "delete"} /\ id \in r.ids))

Outcome(r) == IF r.kind = "upsert" THEN NewRow ELSE NoRow

(* From row a of the id the records lead to row b. *)
Leads(s, n, id, a, b) ==
    /\ (\A i \in DOMAIN s : ~Settles(s[i].op, n, id)) => b = a
    /\ \A i \in DOMAIN s :
         Settles(s[i].op, n, id) /\ (\A k \in DOMAIN s : k > i => ~Settles(s[k].op, n, id))
           => b = Outcome(s[i].op)

-----------------------------------------------------------------------------
Pending == ToReplay(walFile, manifest.floor)

(* The segments that a list of ids stands for. *)
SealedFrom(ds, ids) ==
    [mutable |-> EmptyMutable, immutables |-> [k \in DOMAIN ids |-> ds[ids[k]]]]

DiskView(n) == SealedFrom(dirs, Listed(n))
OnDisk(n) == LiveStore(DiskView(n))
InMemory(n) == IF coll[n] = NoObj THEN [id \in Id |-> NoRow] ELSE LiveStore(objs[coll[n]].view)

(* The directories have the immutable segments of a view. *)
Backed(ds, v, ids) ==
    /\ WellFormed(v)
    /\ \A i \in DOMAIN ids : ids[i] \in DOMAIN ds /\ ds[ids[i]] = v.immutables[i]

(* What is still to be done: the call in progress, or the rest of a replay.*)
Rest == IF pc \in {"create", "drop", "apply"} /\ records = <<>> THEN <<Record(0, op)>>
        ELSE IF pc \in {"rebuild", "clean"} /\ records # <<>> THEN Tail(records)
        ELSE records

Kept ==
    /\ promised \in [Name -> [dim : {0} \cup Dim, store : Rows]]
    /\ Named \subseteq DOMAIN dirs
    /\ \A n \in Name :
         /\ WellFormed(DiskView(n))
         /\ LogOf(Pending, n, promised[n].dim)
         /\ StartsAt(Pending, n, Entry(n).dim, promised[n].dim)
         /\ \A id \in Id : Leads(Pending, n, id, OnDisk(n)[id], promised[n].store[id])

Logged ==
    /\ \A i \in DOMAIN walFile : walFile[i].lsn < nextLsn
    /\ pc \in {"create", "drop", "apply"} => \E k \in DOMAIN Pending : Pending[k].op = op
    /\ \A i \in DOMAIN records : \E k \in DOMAIN Pending : Pending[k] = records[i]
    /\ records # <<>> => pc \in {"replay", "create", "drop", "apply", "rebuild", "clean"}
    /\ records # <<>> /\ pc \in {"create", "drop", "apply"} => op = Head(records).op
    /\ pc = "drop" => op.kind = "drop"
    /\ pc = "apply" => objs[target].name = op.name

Held ==
    /\ \A n \in Name : coll[n] # NoObj => Backed(dirs, objs[coll[n]].view, objs[coll[n]].segIds)
    /\ \A o \in DOMAIN fresh : dirs[fresh[o]] = SegmentOf(objs[o].view.mutable)
    /\ pc = "compact_publish" => IsEmpty(objs[target].view.mutable)

OnTrack ==
    \A n \in Name :
      /\ Playable(Rest, n, Entry(n).dim, promised[n].dim)
      /\ \A id \in Id : Leads(Rest, n, id, InMemory(n)[id], promised[n].store[id])

Recovers ==
    /\ Kept
    /\ pc # "failed"
    /\ pc # "down" => Logged /\ Held /\ OnTrack

-----------------------------------------------------------------------------
(* Sequences of records, record by record. *)

LEMMA OpKinds ==
    ASSUME NEW r \in Call
    PROVE  /\ r.kind \in {"create", "drop", "upsert", "delete"}
           /\ r.name \in Name
           /\ r.kind # "drop" => r.dim \in Dim /\ r.dim # 0
           /\ r.kind \in {"upsert", "delete"} => r.ids \in SUBSET Id
  BY DimAssumption DEF Call

LEMMA IndexFacts ==
    ASSUME NEW s \in Seq(LogRecord), NEW n
    PROVE  /\ Marks(s, n) \in SUBSET (1 .. Len(s)) /\ WritesOf(s, n) \in SUBSET (1 .. Len(s))
           /\ Creates(s, n) \in SUBSET Marks(s, n)
           /\ Len(s) \in Nat
           /\ \A i \in 1 .. Len(s) : s[i].op \in Call
           /\ Marks(s, n) \cap WritesOf(s, n) = {}
  <1>1. DOMAIN s = 1 .. Len(s) /\ Len(s) \in Nat /\ \A i \in DOMAIN s : s[i].op \in Call
    BY RecordFacts
  <1> QED
    BY <1>1 DEF Marks, Creates, WritesOf

LEMMA AppendedIndex ==
    ASSUME NEW s \in Seq(LogRecord), NEW r \in LogRecord, NEW n
    PROVE  LET t == Append(s, r)
               m == Len(s) + 1
           IN  /\ t \in Seq(LogRecord) /\ DOMAIN t = DOMAIN s \cup {m} /\ m \notin DOMAIN s
               /\ t[m] = r /\ \A i \in DOMAIN s : t[i] = s[i] /\ i < m
               /\ Marks(t, n) = Marks(s, n) \cup
                    IF r.op.name = n /\ r.op.kind \in {"create", "drop"} THEN {m} ELSE {}
               /\ Creates(t, n) = Creates(s, n) \cup
                    IF r.op.name = n /\ r.op.kind = "create" THEN {m} ELSE {}
               /\ WritesOf(t, n) = WritesOf(s, n) \cup
                    IF r.op.name = n /\ r.op.kind \in {"upsert", "delete"} THEN {m} ELSE {}
  <1> DEFINE t == Append(s, r)
             m == Len(s) + 1
  <1>1. /\ t \in Seq(LogRecord) /\ DOMAIN t = DOMAIN s \cup {m} /\ m \notin DOMAIN s
        /\ t[m] = r /\ \A i \in DOMAIN s : t[i] = s[i] /\ i < m
    OBVIOUS
  <1> HIDE DEF t, m
  <1>2. Marks(t, n) = Marks(s, n) \cup IF r.op.name = n /\ r.op.kind \in {"create", "drop"} THEN {m} ELSE {}
    BY <1>1 DEF Marks
  <1>3. Creates(t, n) = Creates(s, n) \cup IF r.op.name = n /\ r.op.kind = "create" THEN {m} ELSE {}
    BY <1>1, <1>2 DEF Creates, Marks
  <1>4. WritesOf(t, n) = WritesOf(s, n) \cup
          IF r.op.name = n /\ r.op.kind \in {"upsert", "delete"} THEN {m} ELSE {}
    BY <1>1 DEF WritesOf
  <1> QED
    BY <1>1, <1>2, <1>3, <1>4 DEF t, m

LEMMA TailIndex ==
    ASSUME NEW s \in Seq(LogRecord), s # <<>>, NEW n
    PROVE  LET t == Tail(s)
               r == Head(s).op
           IN  /\ t \in Seq(LogRecord) /\ r = s[1].op /\ r \in Call /\ 1 \in DOMAIN s
               /\ \A i \in DOMAIN s : i = 1 \/ (i > 1 /\ i - 1 \in DOMAIN t)
               /\ \A i \in DOMAIN t : i \in Nat /\ i > 0 /\ i + 1 \in DOMAIN s /\ t[i] = s[i + 1]
               /\ \A i : i \in Marks(t, n) => i + 1 \in Marks(s, n)
               /\ \A i : i \in Creates(t, n) => i + 1 \in Creates(s, n)
               /\ \A i : i \in WritesOf(t, n) => i + 1 \in WritesOf(s, n)
               /\ \A i \in Marks(s, n) : i = 1 \/ i - 1 \in Marks(t, n)
               /\ \A i \in Creates(s, n) : i = 1 \/ i - 1 \in Creates(t, n)
               /\ \A i \in WritesOf(s, n) : i = 1 \/ i - 1 \in WritesOf(t, n)
  <1> DEFINE t == Tail(s)
  <1>1. /\ t \in Seq(LogRecord) /\ Head(s) = s[1] /\ 1 \in DOMAIN s /\ Len(s) \in Nat
        /\ DOMAIN s = 1 .. Len(s) /\ DOMAIN t = 1 .. (Len(s) - 1)
        /\ \A i \in DOMAIN t : t[i] = s[i + 1]
    OBVIOUS
  <1> HIDE DEF t
  <1>2. Head(s).op \in Call
    BY RecordFacts
  <1>3. /\ \A i \in DOMAIN s : i = 1 \/ (i > 1 /\ i - 1 \in DOMAIN t)
        /\ \A i \in DOMAIN t : i \in Nat /\ i > 0 /\ i + 1 \in DOMAIN s /\ t[i] = s[i + 1]
    BY <1>1
  <1>4. ASSUME NEW i \in DOMAIN s, i # 1 PROVE i - 1 \in DOMAIN t /\ t[i - 1] = s[i]
    BY <1>1, <1>4
  <1>5. /\ \A i : i \in Marks(t, n) => i + 1 \in Marks(s, n)
        /\ \A i : i \in WritesOf(t, n) => i + 1 \in WritesOf(s, n)
    BY <1>3 DEF Marks, WritesOf
  <1>6. \A i : i \in Creates(t, n) => i + 1 \in Creates(s, n)
    BY <1>3, <1>5 DEF Creates, Marks
  <1>7. /\ \A i \in Marks(s, n) : i = 1 \/ i - 1 \in Marks(t, n)
        /\ \A i \in WritesOf(s, n) : i = 1 \/ i - 1 \in WritesOf(t, n)
    BY <1>4 DEF Marks, WritesOf
  <1>8. \A i \in Creates(s, n) : i = 1 \/ i - 1 \in Creates(t, n)
    BY <1>4, <1>7 DEF Creates, Marks
  <1> QED
    BY <1>1, <1>2, <1>3, <1>5, <1>6, <1>7, <1>8 DEF t

(* A mark or a write that is put at the end of the log. *)
LEMMA LogAppended ==
    ASSUME NEW s \in Seq(LogRecord), NEW r \in LogRecord, NEW n, NEW c, NEW p, NEW q,
           LogOf(s, n, p), StartsAt(s, n, c, p),
           \/ r.op.name # n /\ q = p
           \/ /\ r.op.name = n /\ r.op.kind = "create" /\ p = c /\ c = 0 /\ q = r.op.dim
              /\ \A i \in WritesOf(s, n) : s[i].op.kind = "upsert" => s[i].op.dim = r.op.dim
           \/ /\ r.op.name = n /\ r.op.kind = "drop" /\ p = c /\ c # 0 /\ q = 0
              /\ \A i \in WritesOf(s, n) : \E k \in Creates(s, n) : k < i
           \/ /\ r.op.name = n /\ r.op.kind \in {"upsert", "delete"} /\ p = c /\ c # 0 /\ q = p
              /\ r.op.dim = c
    PROVE  LogOf(Append(s, r), n, q) /\ StartsAt(Append(s, r), n, c, q)
  <1> DEFINE t == Append(s, r)
             m == Len(s) + 1
  <1>1. /\ t \in Seq(LogRecord) /\ m \notin DOMAIN s /\ t[m] = r
        /\ \A i \in DOMAIN s : t[i] = s[i] /\ i < m /\ i \in Nat
        /\ Marks(t, n) = Marks(s, n) \cup
             IF r.op.name = n /\ r.op.kind \in {"create", "drop"} THEN {m} ELSE {}
        /\ Creates(t, n) = Creates(s, n) \cup
             IF r.op.name = n /\ r.op.kind = "create" THEN {m} ELSE {}
        /\ WritesOf(t, n) = WritesOf(s, n) \cup
             IF r.op.name = n /\ r.op.kind \in {"upsert", "delete"} THEN {m} ELSE {}
    BY AppendedIndex
  <1>2. /\ Marks(s, n) \in SUBSET DOMAIN s /\ WritesOf(s, n) \in SUBSET DOMAIN s
        /\ Creates(s, n) \in SUBSET Marks(s, n) /\ m \in Nat
        /\ \A j \in Marks(s, n) : j \in Creates(s, n) <=> s[j].op.kind = "create"
        /\ \A j \in Marks(s, n) : s[j].op.kind \in {"create", "drop"}
    BY DEF Marks, Creates, WritesOf
  <1> HIDE DEF t, m
  (* Every mark of s is followed by a later one, up to one that is the last. *)
  <1>3. ASSUME Marks(s, n) # {}
        PROVE  \E j \in Marks(s, n) : Latest(s, n, j) /\ \A k \in Marks(s, n) : k <= j
    <2>1. Len(s) \in Nat /\ Marks(s, n) \in SUBSET Nat /\ \A k \in Marks(s, n) : k <= Len(s)
      BY <1>2
    <2> QED
      BY <1>3, <2>1, GreatestExists DEF Latest
  <1>4. ASSUME r.op.name # n, q = p
        PROVE  LogOf(t, n, q) /\ StartsAt(t, n, c, q)
    <2>1. Marks(t, n) = Marks(s, n) /\ Creates(t, n) = Creates(s, n) /\ WritesOf(t, n) = WritesOf(s, n)
      BY <1>1, <1>4
    <2>2. /\ \A j, i : Under(t, n, j, i) <=> Under(s, n, j, i)
          /\ \A i : Earliest(t, n, i) <=> Earliest(s, n, i)
          /\ \A i : Latest(t, n, i) <=> Latest(s, n, i)
      BY <2>1 DEF Under, Earliest, Latest
    <2>3. \A i \in DOMAIN s : t[i] = s[i]
      BY <1>1
    <2>4. Ordered(t, n)
      BY <1>2, <2>1, <2>2, <2>3 DEF LogOf, Ordered
    <2> QED
      BY <1>2, <1>4, <2>1, <2>2, <2>3, <2>4 DEF LogOf, StartsAt
  <1>5. ASSUME r.op.name = n, r.op.kind \in {"create", "drop"}, p = c,
               q = Made(r.op),
               r.op.kind = "create" => c = 0 /\ \A i \in WritesOf(s, n) :
                                         s[i].op.kind = "upsert" => s[i].op.dim = r.op.dim,
               r.op.kind = "drop" => c # 0 /\ \A i \in WritesOf(s, n) : \E k \in Creates(s, n) : k < i
        PROVE  LogOf(t, n, q) /\ StartsAt(t, n, c, q)
    <2>1. Marks(t, n) = Marks(s, n) \cup {m} /\ WritesOf(t, n) = WritesOf(s, n)
          /\ Creates(t, n) = Creates(s, n) \cup IF r.op.kind = "create" THEN {m} ELSE {}
      BY <1>1, <1>5
    <2>2. \A i \in DOMAIN s : t[i] = s[i] /\ i < m /\ i \in Nat /\ m \in Nat
      BY <1>1, <1>2
    <2>3. ASSUME NEW j \in Marks(s, n), NEW i \in DOMAIN s
          PROVE  Under(t, n, j, i) <=> Under(s, n, j, i)
      BY <2>1, <2>2, <1>2 DEF Under
    <2>4. ASSUME NEW j \in Marks(s, n), Under(t, n, j, m) PROVE s[j].op.kind # r.op.kind
      <3>1. Latest(s, n, j)
        BY <2>1, <2>2, <2>4, <1>2 DEF Under, Latest
      <3>2. p = Made(s[j].op)
        BY <3>1 DEF LogOf
      <3>3. r.op.kind = "drop" => s[j].op.kind = "create"
        BY <1>2, <1>5, <3>2 DEF Made
      <3>4. s[j].op.kind = "create" => s[j].op.dim # 0
        BY OpKinds, IndexFacts, <1>2
      <3> QED
        BY <1>5, <3>2, <3>3, <3>4 DEF Made
    <2>5. \A i \in DOMAIN s : ~Under(t, n, m, i)
      BY <2>2 DEF Under
    <2>6. Ordered(t, n)
      <3>1. ASSUME NEW j \in Marks(t, n), NEW k \in Marks(t, n), Under(t, n, j, k)
            PROVE  t[k].op.kind # t[j].op.kind
        <4>1. CASE j = m
          <5>1. k = m \/ k \in DOMAIN s
            BY <2>1, <1>2
          <5>2. ~Under(t, n, m, m)
            BY <1>2 DEF Under
          <5> QED
            BY <2>5, <3>1, <4>1, <5>1, <5>2
        <4>2. CASE j # m /\ k = m
          <5>1. j \in Marks(s, n) /\ t[j] = s[j] /\ t[k] = r
            BY <1>1, <1>2, <2>1, <2>2, <4>2
          <5> QED
            BY <2>4, <3>1, <4>2, <5>1
        <4>3. CASE j # m /\ k # m
          <5>1. j \in Marks(s, n) /\ k \in Marks(s, n) /\ t[j] = s[j] /\ t[k] = s[k] /\ Under(s, n, j, k)
            BY <1>2, <2>1, <2>2, <2>3, <3>1, <4>3
          <5> QED
            BY <5>1 DEF LogOf, Ordered
        <4> QED
          BY <4>1, <4>2, <4>3
      <3>2. ASSUME NEW j \in Marks(t, n), NEW i \in WritesOf(t, n), Under(t, n, j, i)
            PROVE  t[j].op.kind = "create" /\ t[i].op.dim = t[j].op.dim
        <4>1. i \in WritesOf(s, n) /\ i \in DOMAIN s /\ j # m
          BY <1>2, <2>1, <2>5, <3>2
        <4>2. j \in Marks(s, n) /\ t[j] = s[j] /\ t[i] = s[i] /\ Under(s, n, j, i)
          BY <1>2, <2>1, <2>2, <2>3, <3>2, <4>1
        <4> QED
          BY <4>1, <4>2 DEF LogOf, Ordered
      <3> QED
        BY <3>1, <3>2 DEF Ordered
    <2>7. ASSUME NEW i \in WritesOf(t, n) PROVE \E k \in Creates(t, n) : k < i
      <3>1. CASE r.op.kind = "drop"
        BY <1>5, <2>1, <2>7, <3>1
      <3>2. CASE r.op.kind = "create"
        <4>1. i \in WritesOf(s, n) /\ c = 0
          BY <1>5, <2>1, <3>2
        <4>2. Marks(s, n) # {}
          BY <4>1 DEF StartsAt
        <4> QED
          BY <2>1, <4>1, <4>2 DEF LogOf
      <3> QED
        BY <1>5, <3>1, <3>2
    <2>8. ASSUME NEW k \in Creates(t, n), NEW i \in WritesOf(t, n), i < k, t[i].op.kind = "upsert"
          PROVE  t[i].op.dim = t[k].op.dim
      <3>1. i \in WritesOf(s, n) /\ t[i] = s[i]
        BY <1>2, <2>1, <2>2
      <3>2. CASE k = m
        <4>1. r.op.kind = "create"
          BY <1>2, <2>1, <2>2, <2>8, <3>2
        <4> QED
          BY <1>1, <1>5, <2>8, <3>1, <3>2, <4>1
      <3>3. CASE k # m
        <4>1. k \in Creates(s, n) /\ t[k] = s[k]
          BY <1>2, <2>1, <2>2, <2>8, <3>3
        <4> QED
          BY <2>8, <3>1, <4>1 DEF LogOf
      <3> QED
        BY <3>2, <3>3
    <2>9. ASSUME NEW j \in Marks(t, n), Latest(t, n, j) PROVE q = Made(t[j].op)
      <3>1. j = m
        <4>1. m \in Marks(t, n) /\ m <= j
          BY <2>1, <2>9 DEF Latest
        <4>2. j = m \/ j < m
          BY <1>2, <2>1, <2>2
        <4> QED
          BY <1>2, <2>1, <2>2, <4>1, <4>2
      <3> QED
        BY <1>1, <1>5, <3>1
    <2>10. LogOf(t, n, q)
      BY <2>6, <2>7, <2>8, <2>9 DEF LogOf
    <2>11. ASSUME NEW j \in Creates(t, n), Earliest(t, n, j)
           PROVE  c = 0 \/ \E k \in Creates(t, n) : c = t[k].op.dim
      <3>1. CASE j = m
        <4>1. r.op.kind = "create"
          BY <1>2, <2>1, <2>2, <3>1
        <4> QED
          BY <1>5, <4>1
      <3>2. CASE j # m
        <4>1. j \in Creates(s, n) /\ Earliest(s, n, j)
          BY <2>1, <2>11, <3>2 DEF Earliest
        <4>2. c = 0 \/ \E k \in Creates(s, n) : c = s[k].op.dim
          BY <4>1 DEF StartsAt
        <4>3. \A k \in Creates(s, n) : k \in Creates(t, n) /\ t[k] = s[k]
          BY <1>2, <2>1, <2>2
        <4> QED
          BY <4>2, <4>3
      <3> QED
        BY <3>1, <3>2
    <2>12. StartsAt(t, n, c, q)
      BY <2>1, <2>11 DEF StartsAt
    <2> QED
      BY <2>10, <2>12
  <1>6. ASSUME r.op.name = n, r.op.kind \in {"upsert", "delete"}, p = c, c # 0, q = p, r.op.dim = c
        PROVE  LogOf(t, n, q) /\ StartsAt(t, n, c, q)
    <2>1. Marks(t, n) = Marks(s, n) /\ WritesOf(t, n) = WritesOf(s, n) \cup {m}
          /\ Creates(t, n) = Creates(s, n)
      BY <1>1, <1>6
    <2>2. \A i \in DOMAIN s : t[i] = s[i] /\ i < m /\ i \in Nat /\ m \in Nat
      BY <1>1, <1>2
    <2>3. /\ \A j, i : Under(t, n, j, i) <=> Under(s, n, j, i)
          /\ \A i : Earliest(t, n, i) <=> Earliest(s, n, i)
          /\ \A i : Latest(t, n, i) <=> Latest(s, n, i)
      BY <2>1 DEF Under, Earliest, Latest
    <2>4. ASSUME NEW j \in Marks(s, n), Latest(s, n, j)
          PROVE  s[j].op.kind = "create" /\ s[j].op.dim = c
      <3>1. p = Made(s[j].op)
        BY <2>4 DEF LogOf
      <3> QED
        BY <1>2, <1>6, <3>1 DEF Made
    <2>5. Ordered(t, n)
      <3>1. ASSUME NEW j \in Marks(s, n), NEW i \in WritesOf(t, n), Under(t, n, j, i)
            PROVE  t[j].op.kind = "create" /\ t[i].op.dim = t[j].op.dim
        <4>1. CASE i = m
          <5>1. Latest(s, n, j)
            BY <1>2, <2>1, <2>2, <3>1, <4>1 DEF Under, Latest
          <5> QED
            BY <1>1, <1>2, <1>6, <2>2, <2>4, <4>1, <5>1
        <4>2. CASE i # m
          <5>1. i \in WritesOf(s, n) /\ t[i] = s[i] /\ t[j] = s[j] /\ Under(s, n, j, i)
            BY <1>2, <2>1, <2>2, <2>3, <3>1, <4>2
          <5> QED
            BY <5>1 DEF LogOf, Ordered
        <4> QED
          BY <4>1, <4>2
      <3>2. ASSUME NEW j \in Marks(s, n), NEW k \in Marks(s, n), Under(t, n, j, k)
            PROVE  t[k].op.kind # t[j].op.kind
        BY <1>2, <2>2, <2>3, <3>2 DEF LogOf, Ordered
      <3> QED
        BY <2>1, <3>1, <3>2 DEF Ordered
    <2>6. ASSUME Marks(t, n) # {}, NEW i \in WritesOf(t, n) PROVE \E k \in Creates(t, n) : k < i
      <3>1. CASE i = m
        <4>1. PICK j \in Marks(s, n) : Latest(s, n, j)
          BY <1>3, <2>1, <2>6
        <4>2. j \in Creates(s, n) /\ j < m
          BY <1>2, <2>2, <2>4, <4>1
        <4> QED
          BY <2>1, <3>1, <4>2
      <3>2. CASE i # m
        BY <2>1, <2>6, <3>2 DEF LogOf
      <3> QED
        BY <3>1, <3>2
    <2>7. ASSUME NEW k \in Creates(t, n), NEW i \in WritesOf(t, n), i < k, t[i].op.kind = "upsert"
          PROVE  t[i].op.dim = t[k].op.dim
      <3>1. k \in Creates(s, n) /\ k < m /\ k \in Nat
        BY <1>2, <2>1, <2>2
      <3>2. i # m
        BY <2>7, <3>1, <1>2
      <3>3. i \in WritesOf(s, n) /\ t[i] = s[i] /\ t[k] = s[k]
        BY <1>2, <2>1, <2>2, <3>1, <3>2
      <3> QED
        BY <2>7, <3>1, <3>3 DEF LogOf
    <2>8. LogOf(t, n, q)
      <3>1. ASSUME NEW j \in Marks(t, n), Latest(t, n, j) PROVE q = Made(t[j].op)
        <4>1. j \in Marks(s, n) /\ Latest(s, n, j) /\ t[j] = s[j]
          BY <1>2, <2>1, <2>2, <2>3, <3>1
        <4> QED
          BY <1>6, <4>1 DEF LogOf
      <3> QED
        BY <2>5, <2>6, <2>7, <3>1 DEF LogOf
    <2>9. ASSUME Marks(t, n) = {}, NEW i \in WritesOf(t, n) PROVE c # 0 /\ t[i].op.dim = c
      <3>1. CASE i = m
        BY <1>1, <1>6, <3>1
      <3>2. CASE i # m
        <4>1. i \in WritesOf(s, n) /\ t[i] = s[i]
          BY <1>2, <2>1, <2>2, <3>2
        <4> QED
          BY <2>1, <2>9, <4>1 DEF StartsAt
      <3> QED
        BY <3>1, <3>2
    <2>10. StartsAt(t, n, c, q)
      BY <1>2, <1>6, <2>1, <2>2, <2>3, <2>9 DEF StartsAt
    <2> QED
      BY <2>8, <2>10
  <1>7. CASE r.op.name = n /\ r.op.kind = "create"
    BY <1>5, <1>7 DEF t, Made
  <1>8. CASE r.op.name = n /\ r.op.kind = "drop"
    BY <1>5, <1>8 DEF t, Made
  <1> QED
    BY <1>4, <1>6, <1>7, <1>8 DEF t

-----------------------------------------------------------------------------
(* The dimension of a name, record by record. *)

DimAfter(c, r, n) == IF r.name # n THEN c
                     ELSE IF r.kind = "drop" THEN 0
                     ELSE IF r.kind = "create" /\ c = 0 THEN r.dim
                     ELSE c

IsMark(r, n) == r.name = n /\ r.kind \in {"create", "drop"}

LEMMA Plays ==
    ASSUME NEW s \in Seq(LogRecord), NEW n, NEW c, NEW p, LogOf(s, n, p), StartsAt(s, n, c, p)
    PROVE  Playable(s, n, c, p)
  <1>1. /\ Marks(s, n) \subseteq Nat /\ WritesOf(s, n) \subseteq Nat
        /\ Creates(s, n) \subseteq Marks(s, n) /\ Marks(s, n) \cap WritesOf(s, n) = {}
    BY IndexFacts
  <1>2. ASSUME NEW i \in WritesOf(s, n), Earliest(s, n, i)
        PROVE  c # 0 /\ (s[i].op.kind = "upsert" => s[i].op.dim = c)
    <2>1. CASE Marks(s, n) = {}
      BY <2>1 DEF StartsAt
    <2>2. CASE Marks(s, n) # {}
      <3>1. PICK k \in Creates(s, n) : k < i
        BY <2>2 DEF LogOf
      <3>2. k >= i
        BY <1>1, <1>2 DEF Earliest
      <3> QED
        BY <1>1, <3>1, <3>2
    <2> QED
      BY <2>1, <2>2
  <1>3. ASSUME NEW j \in Creates(s, n), NEW i \in WritesOf(s, n),
               Earliest(s, n, j), Under(s, n, j, i), s[i].op.kind = "upsert"
        PROVE  c \in {0, s[i].op.dim}
    <2>1. c = 0 \/ \E k \in Creates(s, n) : c = s[k].op.dim
      BY <1>3 DEF StartsAt
    <2>2. ASSUME NEW k \in Creates(s, n) PROVE s[i].op.dim = s[k].op.dim
      <3>1. k < i \/ i < k
        BY <1>1
      <3>2. CASE i < k
        BY <1>3, <3>2 DEF LogOf
      <3>3. CASE k < i
        <4>1. k = j
          BY <1>1, <1>3, <3>3 DEF Under, Earliest
        <4> QED
          BY <1>1, <1>3, <4>1 DEF LogOf, Ordered
      <3> QED
        BY <3>1, <3>2, <3>3
    <2> QED
      BY <2>1, <2>2
  <1>4. ASSUME NEW j \in Creates(s, n), Marks(s, n) = {j} PROVE c \in {0, s[j].op.dim}
    <2>1. Earliest(s, n, j)
      BY <1>1, <1>4 DEF Earliest
    <2>2. Creates(s, n) \subseteq {j}
      BY <1>1, <1>4
    <2>3. c = 0 \/ \E k \in Creates(s, n) : c = s[k].op.dim
      BY <2>1 DEF StartsAt
    <2> QED
      BY <2>2, <2>3
  <1>5. Ordered(s, n) /\ (\A j \in Marks(s, n) : Latest(s, n, j) => p = Made(s[j].op))
        /\ (Marks(s, n) = {} => p = c)
    BY DEF LogOf, StartsAt
  <1> QED
    BY <1>2, <1>3, <1>4, <1>5 DEF Playable

(* The first record is played. *)
LEMMA PlaysOn ==
    ASSUME NEW s \in Seq(LogRecord), s # <<>>, NEW n, NEW c, NEW p, Playable(s, n, c, p)
    PROVE  Playable(Tail(s), n, DimAfter(c, Head(s).op, n), p)
  <1> DEFINE t == Tail(s)
             r == Head(s).op
             d == DimAfter(c, r, n)
  <1>1. /\ t \in Seq(LogRecord) /\ r = s[1].op /\ r \in Call /\ 1 \in DOMAIN s
        /\ \A i \in DOMAIN s : i = 1 \/ (i > 1 /\ i - 1 \in DOMAIN t)
        /\ \A i \in DOMAIN t : i \in Nat /\ i > 0 /\ i + 1 \in DOMAIN s /\ t[i] = s[i + 1]
        /\ \A i : i \in Marks(t, n) => i + 1 \in Marks(s, n)
        /\ \A i : i \in Creates(t, n) => i + 1 \in Creates(s, n)
        /\ \A i : i \in WritesOf(t, n) => i + 1 \in WritesOf(s, n)
        /\ \A i \in Marks(s, n) : i = 1 \/ i - 1 \in Marks(t, n)
        /\ \A i \in Creates(s, n) : i = 1 \/ i - 1 \in Creates(t, n)
        /\ \A i \in WritesOf(s, n) : i = 1 \/ i - 1 \in WritesOf(t, n)
    BY TailIndex
  <1> HIDE DEF t, r
  <1>2. /\ Marks(s, n) \subseteq DOMAIN s /\ Marks(s, n) \subseteq Nat
        /\ Marks(t, n) \subseteq DOMAIN t /\ WritesOf(t, n) \subseteq DOMAIN t
        /\ Creates(t, n) \subseteq Marks(t, n) /\ Creates(s, n) \subseteq Marks(s, n)
        /\ 1 \in Marks(s, n) <=> IsMark(r, n)
        /\ 1 \in Creates(s, n) <=> IsMark(r, n) /\ r.kind = "create"
        /\ \A j \in Marks(s, n) : j \in Creates(s, n) <=> s[j].op.kind = "create"
    BY <1>1, IndexFacts DEF Marks, Creates, WritesOf, IsMark
  <1>3. ASSUME NEW j \in Marks(t, n), NEW i \in DOMAIN t
        PROVE  Under(t, n, j, i) => Under(s, n, j + 1, i + 1)
    <2>1. j \in Nat /\ i \in Nat
      BY <1>1, <1>2
    <2> SUFFICES ASSUME Under(t, n, j, i), NEW k \in Marks(s, n), k < i + 1 PROVE k <= j + 1
      BY <2>1 DEF Under
    <2>2. k = 1 \/ (k - 1 \in Marks(t, n) /\ k \in Nat)
      BY <1>1, <1>2
    <2>3. k - 1 \in Marks(t, n) => k - 1 <= j
      BY <1>1, <1>2, <2>1 DEF Under
    <2> QED
      BY <1>2, <2>1, <2>2, <2>3
  <1>4. ASSUME NEW i \in DOMAIN t, Earliest(t, n, i)
        PROVE  IF IsMark(r, n) THEN Under(s, n, 1, i + 1) ELSE Earliest(s, n, i + 1)
    <2>1. i \in Nat /\ i > 0
      BY <1>1
    <2>2. ASSUME NEW k \in Marks(s, n) PROVE k = 1 \/ k >= i + 1
      <3>1. k = 1 \/ (k - 1 \in Marks(t, n) /\ k \in Nat)
        BY <1>1, <1>2
      <3>2. k - 1 \in Marks(t, n) => k - 1 >= i
        BY <1>4 DEF Earliest
      <3> QED
        BY <2>1, <3>1, <3>2
    <2>3. CASE IsMark(r, n)
      BY <1>2, <2>1, <2>2, <2>3 DEF Under
    <2>4. CASE ~IsMark(r, n)
      BY <1>2, <2>1, <2>2, <2>4 DEF Earliest
    <2> QED
      BY <2>3, <2>4
  <1>5. Ordered(s, n)
    BY DEF Playable
  <1>6. IsMark(r, n) => Earliest(s, n, 1)
    <2>1. \A k \in Marks(s, n) : k >= 1
      BY <1>1, <1>2
    <2> QED
      BY <2>1 DEF Earliest
  <1>7. ~IsMark(r, n) => d = c
    BY <1>1, OpKinds DEF IsMark, DimAfter
  <1>8. IsMark(r, n) => d = IF r.kind = "drop" THEN 0 ELSE IF c = 0 THEN r.dim ELSE c
    BY <1>1, OpKinds DEF IsMark, DimAfter
  <1>9. Ordered(t, n)
    <2>1. ASSUME NEW j \in Marks(t, n), NEW k \in Marks(t, n), Under(t, n, j, k)
          PROVE  t[k].op.kind # t[j].op.kind
      BY <1>1, <1>2, <1>3, <1>5, <2>1 DEF Ordered
    <2>2. ASSUME NEW j \in Marks(t, n), NEW i \in WritesOf(t, n), Under(t, n, j, i)
          PROVE  t[j].op.kind = "create" /\ t[i].op.dim = t[j].op.dim
      BY <1>1, <1>2, <1>3, <1>5, <2>2 DEF Ordered
    <2> QED
      BY <2>1, <2>2 DEF Ordered
  <1> HIDE DEF d
  (* After a mark comes one of the other kind. *)
  <1>10. ASSUME IsMark(r, n), NEW j \in Creates(t, n), Earliest(t, n, j) PROVE d = 0
    <2>1. Under(s, n, 1, j + 1) /\ j + 1 \in Marks(s, n) /\ s[j + 1].op.kind = "create"
      BY <1>1, <1>2, <1>4, <1>10
    <2>2. r.kind # "create"
      BY <1>1, <1>2, <1>5, <1>10, <2>1 DEF Ordered
    <2> QED
      BY <1>8, <1>10, <2>2 DEF IsMark
  <1>11. ASSUME NEW i \in WritesOf(t, n), Earliest(t, n, i)
         PROVE  d # 0 /\ (t[i].op.kind = "upsert" => t[i].op.dim = d)
    <2>0. i \in DOMAIN t /\ t[i] = s[i + 1] /\ i + 1 \in WritesOf(s, n)
      BY <1>1, <1>2
    <2>1. CASE ~IsMark(r, n)
      BY <1>4, <1>7, <1>11, <2>0, <2>1 DEF Playable
    <2>2. CASE IsMark(r, n)
      <3>1. Under(s, n, 1, i + 1) /\ 1 \in Marks(s, n)
        BY <1>2, <1>4, <1>11, <2>0, <2>2
      <3>2. r.kind = "create" /\ s[i + 1].op.dim = r.dim
        BY <1>1, <1>5, <2>0, <3>1 DEF Ordered
      <3>3. 1 \in Creates(s, n)
        BY <1>2, <2>2, <3>2
      <3>4. s[i + 1].op.kind = "upsert" => c \in {0, s[i + 1].op.dim}
        BY <1>6, <2>0, <2>2, <3>1, <3>3 DEF Playable
      <3>5. r.dim # 0 /\ d = IF c = 0 THEN r.dim ELSE c
        BY <1>1, <1>8, <2>2, <3>2, OpKinds
      <3> QED
        BY <2>0, <3>2, <3>4, <3>5
    <2> QED
      BY <2>1, <2>2
  <1>12. ASSUME NEW j \in Creates(t, n), NEW i \in WritesOf(t, n),
                Earliest(t, n, j), Under(t, n, j, i), t[i].op.kind = "upsert"
         PROVE  d \in {0, t[i].op.dim}
    <2>0. /\ i \in DOMAIN t /\ t[i] = s[i + 1] /\ i + 1 \in WritesOf(s, n)
          /\ j \in DOMAIN t /\ j + 1 \in Creates(s, n) /\ j \in Marks(t, n)
      BY <1>1, <1>2
    <2>1. CASE ~IsMark(r, n)
      BY <1>3, <1>4, <1>7, <1>12, <2>0, <2>1 DEF Playable
    <2>2. CASE IsMark(r, n)
      BY <1>10, <1>12, <2>2
    <2> QED
      BY <2>1, <2>2
  <1>13. ASSUME Marks(t, n) = {} PROVE p = d
    <2>1. CASE ~IsMark(r, n)
      <3>1. Marks(s, n) = {}
        BY <1>1, <1>2, <1>13, <2>1
      <3> QED
        BY <1>7, <2>1, <3>1 DEF Playable
    <2>2. CASE IsMark(r, n)
      <3>1. Marks(s, n) = {1}
        BY <1>1, <1>2, <1>13, <2>2
      <3>2. Latest(s, n, 1)
        BY <3>1 DEF Latest
      <3>3. p = Made(r)
        BY <1>1, <3>1, <3>2 DEF Playable
      <3>4. r.kind = "create" => c \in {0, r.dim}
        BY <1>1, <1>2, <2>2, <3>1 DEF Playable
      <3> QED
        BY <1>8, <2>2, <3>3, <3>4 DEF Made, IsMark
    <2> QED
      BY <2>1, <2>2
  <1>14. ASSUME NEW j \in Marks(t, n), Latest(t, n, j) PROVE p = Made(t[j].op)
    <2>1. j \in Nat /\ j > 0 /\ j + 1 \in Marks(s, n) /\ t[j] = s[j + 1]
      BY <1>1, <1>2
    <2>2. Latest(s, n, j + 1)
      <3> SUFFICES ASSUME NEW k \in Marks(s, n) PROVE k <= j + 1
        BY DEF Latest
      <3>1. k \in Nat /\ (k = 1 \/ k - 1 \in Marks(t, n))
        BY <1>1, <1>2
      <3>2. k - 1 \in Marks(t, n) => k - 1 <= j
        BY <1>14 DEF Latest
      <3> QED
        BY <2>1, <3>1, <3>2
    <2> QED
      BY <2>1, <2>2 DEF Playable
  <1>15. ASSUME NEW j \in Creates(t, n), Marks(t, n) = {j} PROVE d \in {0, t[j].op.dim}
    <2>0. j \in DOMAIN t /\ j \in Nat /\ j + 1 \in Creates(s, n) /\ t[j] = s[j + 1]
      BY <1>1, <1>2
    <2>1. CASE ~IsMark(r, n)
      <3>1. \A k \in Marks(s, n) : k = j + 1
        <4> TAKE k \in Marks(s, n)
        <4>1. k \in Nat /\ k - 1 = j
          BY <1>1, <1>2, <1>15, <2>1
        <4> QED
          BY <2>0, <4>1
      <3>2. Marks(s, n) = {j + 1}
        BY <1>2, <2>0, <3>1
      <3> QED
        BY <1>7, <2>0, <2>1, <3>2 DEF Playable
    <2>2. CASE IsMark(r, n)
      <3>1. Earliest(t, n, j)
        BY <1>15, <2>0 DEF Earliest
      <3> QED
        BY <1>10, <2>2, <3>1
    <2> QED
      BY <2>1, <2>2
  <1>16. Playable(t, n, d, p)
    BY <1>9, <1>11, <1>12, <1>13, <1>14, <1>15 DEF Playable
  <1> QED
    BY <1>16 DEF t, r, d

(* A write that is due finds its collection, of its dimension. *)
LEMMA HeadPlays ==
    ASSUME NEW s \in Seq(LogRecord), s # <<>>, NEW n, NEW c, NEW p, Playable(s, n, c, p),
           Head(s).op.name = n, Head(s).op.kind \in {"upsert", "delete"}
    PROVE  c # 0 /\ (Head(s).op.kind = "upsert" => Head(s).op.dim = c)
  <1>1. 1 \in DOMAIN s /\ Head(s).op = s[1].op
    BY TailIndex
  <1>2. 1 \in WritesOf(s, n)
    BY <1>1 DEF WritesOf
  <1>3. Earliest(s, n, 1)
    BY IndexFacts DEF Earliest
  <1> QED
    BY <1>1, <1>2, <1>3 DEF Playable

LEMMA PlaysNothing ==
    ASSUME NEW n, NEW c, NEW p
    PROVE  /\ Playable(<<>>, n, c, p) <=> p = c
           /\ p = c => LogOf(<<>>, n, p) /\ StartsAt(<<>>, n, c, p)
  <1>1. Marks(<<>>, n) = {} /\ Creates(<<>>, n) = {} /\ WritesOf(<<>>, n) = {}
    BY DEF Marks, Creates, WritesOf
  <1> QED
    BY <1>1 DEF Playable, Ordered, LogOf, StartsAt

LEMMA PlaysOne ==
    ASSUME NEW r \in LogRecord, NEW n, NEW c,
           r.op.name = n => /\ r.op.kind = "create" => c = 0
                            /\ r.op.kind \in {"upsert", "delete"} => c # 0 /\ r.op.dim = c
    PROVE  Playable(<<r>>, n, c, DimAfter(c, r.op, n))
  <1> DEFINE s == <<r>>
  <1>1. s \in Seq(LogRecord) /\ DOMAIN s = {1} /\ s[1] = r /\ r.op \in Call
    BY DEF LogRecord
  <1>2. r.op.kind \in {"create", "drop", "upsert", "delete"}
    BY <1>1, OpKinds
  <1> HIDE DEF s
  <1>3. /\ Marks(s, n) = IF IsMark(r.op, n) THEN {1} ELSE {}
        /\ Creates(s, n) = IF IsMark(r.op, n) /\ r.op.kind = "create" THEN {1} ELSE {}
        /\ WritesOf(s, n) = IF r.op.name = n /\ ~IsMark(r.op, n) THEN {1} ELSE {}
    BY <1>1, <1>2 DEF Marks, Creates, WritesOf, IsMark
  <1>4. \A j, i \in {1} : ~Under(s, n, j, i)
    BY DEF Under
  <1>5. CASE IsMark(r.op, n)
    BY <1>1, <1>2, <1>3, <1>4, <1>5 DEF Playable, Ordered, IsMark, DimAfter, Made, s
  <1>6. CASE ~IsMark(r.op, n)
    BY <1>1, <1>2, <1>3, <1>4, <1>6 DEF Playable, Ordered, IsMark, DimAfter, Made, s
  <1> QED
    BY <1>5, <1>6

(* A mark has reached the manifest; its record is still in the log. *)
LEMMA StartsAfter ==
    ASSUME NEW s \in Seq(LogRecord), NEW n, NEW c, NEW p, StartsAt(s, n, c, p),
           NEW k \in DOMAIN s, IsMark(s[k].op, n)
    PROVE  StartsAt(s, n, DimAfter(c, s[k].op, n), p)
  <1>1. k \in Marks(s, n) /\ (s[k].op.kind = "create" => k \in Creates(s, n))
    BY DEF Marks, Creates, IsMark
  <1>2. CASE s[k].op.kind = "drop"
    BY <1>1, <1>2 DEF IsMark, DimAfter, StartsAt
  <1>3. CASE s[k].op.kind = "create"
    BY <1>1, <1>3 DEF IsMark, DimAfter, StartsAt
  <1> QED
    BY <1>2, <1>3 DEF IsMark

-----------------------------------------------------------------------------
(* The row of an id, record by record. *)

RowAfter(a, r, n, id) == IF Settles(r, n, id) THEN Outcome(r) ELSE a

LEMMA LeadsNothing ==
    ASSUME NEW n, NEW id, NEW a, NEW b
    PROVE  Leads(<<>>, n, id, a, b) <=> b = a
  BY DEF Leads

LEMMA LeadsAppended ==
    ASSUME NEW s \in Seq(LogRecord), NEW r \in LogRecord, NEW n, NEW id, NEW a, NEW b,
           Leads(s, n, id, a, b)
    PROVE  Leads(Append(s, r), n, id, a, RowAfter(b, r.op, n, id))
  <1> DEFINE t == Append(s, r)
             m == Len(s) + 1
  <1>1. /\ DOMAIN t = DOMAIN s \cup {m} /\ m \notin DOMAIN s /\ m \in Nat
        /\ t[m] = r /\ \A i \in DOMAIN s : t[i] = s[i] /\ i < m /\ ~(m < i)
    OBVIOUS
  <1> HIDE DEF t, m
  <1>2. CASE Settles(r.op, n, id)
    <2>1. ASSUME NEW i \in DOMAIN t, \A k \in DOMAIN t : k > i => ~Settles(t[k].op, n, id)
          PROVE  i = m
      BY <1>1, <1>2, <2>1
    <2> QED
      BY <1>1, <1>2, <2>1 DEF Leads, RowAfter, t
  <1>3. CASE ~Settles(r.op, n, id)
    <2>1. \A i \in DOMAIN t : Settles(t[i].op, n, id) => i \in DOMAIN s
      BY <1>1, <1>3
    <2>2. \A i \in DOMAIN s : (\A k \in DOMAIN t : k > i => ~Settles(t[k].op, n, id))
                                => \A k \in DOMAIN s : k > i => ~Settles(s[k].op, n, id)
      BY <1>1
    <2>3. (\A i \in DOMAIN t : ~Settles(t[i].op, n, id)) => \A i \in DOMAIN s : ~Settles(s[i].op, n, id)
      BY <1>1
    <2>4. Leads(t, n, id, a, b)
      BY <1>1, <2>1, <2>2, <2>3 DEF Leads
    <2> QED
      BY <1>3, <2>4 DEF RowAfter, t
  <1> QED
    BY <1>2, <1>3

(* The first record is replayed. *)
LEMMA LeadsOn ==
    ASSUME NEW s \in Seq(LogRecord), s # <<>>, NEW n, NEW id, NEW a, NEW b, Leads(s, n, id, a, b)
    PROVE  Leads(Tail(s), n, id, RowAfter(a, Head(s).op, n, id), b)
  <1> DEFINE t == Tail(s)
             r == Head(s).op
             c == RowAfter(a, r, n, id)
  <1>1. /\ r = s[1].op /\ 1 \in DOMAIN s
        /\ \A i \in DOMAIN s : i = 1 \/ (i > 1 /\ i - 1 \in DOMAIN t /\ s[i] = t[i - 1] /\ i \in Nat)
        /\ \A i \in DOMAIN t : i \in Nat /\ i > 0 /\ i + 1 \in DOMAIN s /\ t[i] = s[i + 1]
    OBVIOUS
  <1> HIDE DEF t, r
  <1>2. ASSUME \A i \in DOMAIN t : ~Settles(t[i].op, n, id) PROVE b = c
    <2>1. ASSUME NEW k \in DOMAIN s, k > 1 PROVE ~Settles(s[k].op, n, id)
      <3>1. k - 1 \in DOMAIN t /\ s[k] = t[k - 1]
        BY <1>1, <2>1
      <3> QED
        BY <1>2, <3>1
    <2>2. CASE Settles(r, n, id)
      BY <1>1, <2>1, <2>2 DEF Leads, RowAfter
    <2>3. CASE ~Settles(r, n, id)
      <3>1. \A k \in DOMAIN s : ~Settles(s[k].op, n, id)
        BY <1>1, <1>2, <2>3
      <3> QED
        BY <2>3, <3>1 DEF Leads, RowAfter
    <2> QED
      BY <2>2, <2>3
  <1>3. ASSUME NEW i \in DOMAIN t, Settles(t[i].op, n, id),
               \A k \in DOMAIN t : k > i => ~Settles(t[k].op, n, id)
        PROVE  b = Outcome(t[i].op)
    <2>1. i + 1 \in DOMAIN s /\ t[i] = s[i + 1] /\ i \in Nat
      BY <1>1
    <2>2. ASSUME NEW k \in DOMAIN s, k > i + 1 PROVE ~Settles(s[k].op, n, id)
      <3>1. k - 1 \in DOMAIN t /\ s[k] = t[k - 1] /\ k - 1 > i
        BY <1>1, <2>1, <2>2
      <3> QED
        BY <1>3, <3>1
    <2> QED
      BY <1>3, <2>1, <2>2 DEF Leads
  <1>4. Leads(t, n, id, c, b)
    BY <1>2, <1>3 DEF Leads
  <1> QED
    BY <1>4 DEF t, r

LEMMA LeadsOne ==
    ASSUME NEW r \in LogRecord, NEW n, NEW id, NEW a
    PROVE  Leads(<<r>>, n, id, a, RowAfter(a, r.op, n, id))
  <1>1. Append(<<>>, r) = <<r>> /\ <<>> \in Seq(LogRecord)
    OBVIOUS
  <1>2. Leads(<<>>, n, id, a, a)
    BY LeadsNothing
  <1>3. Leads(Append(<<>>, r), n, id, a, RowAfter(a, r.op, n, id))
    BY <1>1, <1>2, LeadsAppended
  <1> QED
    BY <1>1, <1>3

(* What a later record settles may be anything before it, *)
LEMMA Resettled ==
    ASSUME NEW s, NEW n, NEW id, NEW a, NEW b, Leads(s, n, id, a, b),
           NEW k \in DOMAIN s, Settles(s[k].op, n, id), NEW c
    PROVE  Leads(s, n, id, c, b)
  BY DEF Leads

(* and what the records lead to they leave alone. *)
LEMMA LeadsOnto ==
    ASSUME NEW s, NEW n, NEW id, NEW a, NEW b, Leads(s, n, id, a, b)
    PROVE  Leads(s, n, id, b, b)
  BY DEF Leads

-----------------------------------------------------------------------------
(* The log file, and what is replayed of it. *)

IsReplay(kept, f, floor) ==
    /\ kept \in [0..Len(f) -> Seq(LogRecord)]
    /\ kept[0] = <<>>
    /\ \A k \in 1..Len(f) :
         kept[k] = IF Skips(f[k], floor) THEN kept[k - 1] ELSE Append(kept[k - 1], f[k])

(* The recursive function of ToReplay. *)
LEMMA ReplayRun ==
    ASSUME NEW f \in Seq(LogRecord), NEW floor \in Nat
    PROVE  \E kept : IsReplay(kept, f, floor) /\ ToReplay(f, floor) = kept[Len(f)]
  <1> DEFINE Logs == Seq(LogRecord)
             n == Len(f)
             step == [k \in 1..n |-> [t \in Logs |-> IF Skips(f[k], floor) THEN t ELSE Append(t, f[k])]]
             K == CHOOSE kept : kept = [k \in 0..n |-> IF k = 0 THEN <<>>
                                                       ELSE IF Skips(f[k], floor) THEN kept[k - 1]
                                                       ELSE Append(kept[k - 1], f[k])]
  <1>1. n \in Nat /\ <<>> \in Logs /\ \A k \in 1..n : f[k] \in LogRecord
    BY RecordFacts
  <1>2. \A k \in 1..n : \A t \in Logs : /\ step[k][t] = IF Skips(f[k], floor) THEN t ELSE Append(t, f[k])
                                       /\ step[k][t] \in Logs
    BY <1>1
  <1>3. ToReplay(f, floor) = K[n]
    BY DEF ToReplay
  <1> HIDE DEF step, n
  <1>4. PICK c : c \in [0..n -> Logs] /\ c[0] = <<>> /\ \A k \in 1..n : c[k] = step[k][c[k - 1]]
    <2>1. AreSteps(step, n, Logs)
      BY <1>2 DEF AreSteps
    <2> HIDE DEF Logs
    <2>2. PICK c : IsRun(c, step, n, <<>>, Logs)
      BY <1>1, <2>1, StepsExist
    <2> QED
      BY <2>2 DEF IsRun
  <1> HIDE DEF Logs
  <1>5. ASSUME NEW k \in 0..n
        PROVE  c[k] = IF k = 0 THEN <<>>
                      ELSE IF Skips(f[k], floor) THEN c[k - 1] ELSE Append(c[k - 1], f[k])
    <2>1. CASE k = 0
      BY <1>4, <2>1
    <2>2. CASE k # 0
      <3>1. k \in 1..n /\ k - 1 \in 0..n
        BY <1>1, <2>2
      <3>2. c[k - 1] \in Logs
        BY <1>4, <3>1
      <3> QED
        BY <1>2, <1>4, <2>2, <3>1, <3>2
    <2> QED
      BY <2>1, <2>2
  <1>6. c = [k \in 0..n |-> IF k = 0 THEN <<>>
                            ELSE IF Skips(f[k], floor) THEN c[k - 1] ELSE Append(c[k - 1], f[k])]
    BY <1>4, <1>5
  <1>7. K = [k \in 0..n |-> IF k = 0 THEN <<>>
                            ELSE IF Skips(f[k], floor) THEN K[k - 1] ELSE Append(K[k - 1], f[k])]
    BY <1>6
  <1> HIDE DEF K
  <1> DEFINE S == {k \in 0..n : K[k] \in Logs}
  <1>8. 0 \in S
    BY <1>1, <1>7
  <1>9. ASSUME NEW k \in 0..(n - 1), k \in S PROVE k + 1 \in S
    <2>1. k + 1 \in 1..n /\ k + 1 \in 0..n /\ k + 1 # 0 /\ (k + 1) - 1 = k /\ K[k] \in Logs
      BY <1>1, <1>9
    <2>2. K[k + 1] = IF Skips(f[k + 1], floor) THEN K[k] ELSE Append(K[k], f[k + 1])
      BY <1>7, <2>1
    <2>3. K[k + 1] \in Logs
      BY <1>1, <2>1, <2>2 DEF Logs
    <2> QED
      BY <2>1, <2>3
  <1>10. \A k \in S : K[k] \in Logs
    OBVIOUS
  <1> HIDE DEF S
  <1>11. \A k \in 0..n : K[k] \in Logs
    BY <1>1, <1>8, <1>9, <1>10, LoopInduction
  <1>12. K[0] = <<>> /\ \A k \in 1..n : K[k] = IF Skips(f[k], floor) THEN K[k - 1] ELSE Append(K[k - 1], f[k])
    <2>1. \A k \in 0..n : K[k] = IF k = 0 THEN <<>>
                                ELSE IF Skips(f[k], floor) THEN K[k - 1] ELSE Append(K[k - 1], f[k])
      BY <1>7
    <2>2. 0 \in 0..n /\ \A k \in 1..n : k \in 0..n /\ k # 0
      BY <1>1
    <2> QED
      BY <2>1, <2>2
  <1>13. K \in [0..n -> Logs]
    BY <1>7, <1>11
  <1>14. IsReplay(K, f, floor)
    BY <1>12, <1>13 DEF IsReplay, Logs, n
  <1> QED
    BY <1>3, <1>14 DEF n

(* A record above the floor. *)
LEMMA ReplayAppended ==
    ASSUME NEW f \in Seq(LogRecord), NEW r \in LogRecord, NEW floor \in Nat, ~Skips(r, floor)
    PROVE  ToReplay(Append(f, r), floor) = Append(ToReplay(f, floor), r)
  <1> DEFINE g == Append(f, r)
             n == Len(f)
  <1>1. g \in Seq(LogRecord) /\ Len(g) = n + 1 /\ g[n + 1] = r /\ n \in Nat
        /\ \A k \in 1..n : g[k] = f[k]
    OBVIOUS
  <1>2. PICK a : IsReplay(a, f, floor) /\ ToReplay(f, floor) = a[n]
    BY ReplayRun
  <1>3. PICK b : IsReplay(b, g, floor) /\ ToReplay(g, floor) = b[n + 1]
    BY <1>1, ReplayRun
  <1> HIDE DEF g, n
  <1> DEFINE S == {k \in 0..n : a[k] = b[k]}
  <1>4. 0 \in S
    BY <1>1, <1>2, <1>3 DEF IsReplay
  <1>5. ASSUME NEW k \in 0..(n - 1), k \in S PROVE k + 1 \in S
    <2>1. k + 1 \in 1..n /\ k + 1 \in 1..(n + 1) /\ k + 1 \in 0..n /\ (k + 1) - 1 = k /\ a[k] = b[k]
      BY <1>1, <1>5
    <2>2. a[k + 1] = IF Skips(f[k + 1], floor) THEN a[k] ELSE Append(a[k], f[k + 1])
      BY <1>2, <2>1 DEF IsReplay, n
    <2>3. b[k + 1] = IF Skips(g[k + 1], floor) THEN b[k] ELSE Append(b[k], g[k + 1])
      BY <1>1, <1>3, <2>1 DEF IsReplay
    <2> QED
      BY <1>1, <2>1, <2>2, <2>3
  <1>6. n \in S => a[n] = b[n]
    OBVIOUS
  <1> HIDE DEF S
  <1>7. n \in S
    <2>1. \A k \in 0..n : k \in S
      BY <1>1, <1>4, <1>5, LoopInduction
    <2> QED
      BY <1>1, <2>1
  <1>8. b[n + 1] = Append(b[n], r)
    <2>1. n + 1 \in 1..Len(g) /\ (n + 1) - 1 = n
      BY <1>1
    <2>2. b[n + 1] = IF Skips(g[n + 1], floor) THEN b[n] ELSE Append(b[n], g[n + 1])
      BY <1>3, <2>1 DEF IsReplay
    <2> QED
      BY <1>1, <2>2
  <1> QED
    BY <1>2, <1>3, <1>6, <1>7, <1>8 DEF g

(* Nothing is replayed of what the manifest says is in the segments. *)
LEMMA AllSkipped ==
    ASSUME NEW f \in Seq(LogRecord), NEW floor \in Nat, \A i \in DOMAIN f : f[i].lsn <= floor
    PROVE  ToReplay(f, floor) = <<>>
  <1> DEFINE n == Len(f)
  <1>1. n \in Nat /\ \A k \in 1..n : Skips(f[k], floor)
    BY RecordFacts DEF Skips
  <1>2. PICK a : IsReplay(a, f, floor) /\ ToReplay(f, floor) = a[n]
    BY ReplayRun
  <1> DEFINE S == {k \in 0..n : a[k] = <<>>}
  <1>3. 0 \in S
    BY <1>1, <1>2 DEF IsReplay
  <1>4. ASSUME NEW k \in 0..(n - 1), k \in S PROVE k + 1 \in S
    <2>1. k + 1 \in 1..n /\ k + 1 \in 0..n /\ (k + 1) - 1 = k /\ a[k] = <<>>
      BY <1>1, <1>4
    <2>2. a[k + 1] = IF Skips(f[k + 1], floor) THEN a[k] ELSE Append(a[k], f[k + 1])
      BY <1>2, <2>1 DEF IsReplay
    <2> QED
      BY <1>1, <2>1, <2>2
  <1>5. n \in S => a[n] = <<>>
    OBVIOUS
  <1> HIDE DEF S, n
  <1>6. n \in S
    <2>1. \A k \in 0..n : k \in S
      BY <1>1, <1>3, <1>4, LoopInduction
    <2> QED
      BY <1>1, <2>1
  <1> QED
    BY <1>2, <1>5, <1>6

LEMMA NextLsnIsNew ==
    ASSUME NEW f \in Seq(LogRecord), NEW floor \in Nat
    PROVE  \A i \in DOMAIN f : f[i].lsn < NextLsnAtOpen(f, floor)
  <1> DEFINE lsns == [i \in 1..Len(f) |-> f[i].lsn]
  <1>1. lsns \in Seq(Nat) /\ DOMAIN lsns = DOMAIN f /\ \A i \in DOMAIN f : lsns[i] = f[i].lsn
    <2>1. lsns \in [1..Len(f) -> Nat]
      BY RecordFacts
    <2> QED
      BY <2>1, RecordFacts
  <1>2. {f[i].lsn : i \in DOMAIN f} = ToSet(lsns)
    BY <1>1 DEF ToSet
  <1> HIDE DEF lsns
  <1>3. LastLsn(f) \in Nat /\ \A i \in DOMAIN lsns : lsns[i] <= LastLsn(f)
    BY <1>1, <1>2, MaxOfSeq DEF LastLsn
  <1> DEFINE T == {floor, LastLsn(f) + 1}
  <1>4. T \in SUBSET Nat /\ T # {} /\ floor + LastLsn(f) + 1 \in Nat
        /\ \A t \in T : t <= floor + LastLsn(f) + 1
    BY <1>3
  <1> HIDE DEF T
  <1>5. Max(T) \in Nat /\ LastLsn(f) + 1 <= Max(T)
    <2>1. Max(T) \in T /\ \A t \in T : t <= Max(T)
      BY <1>4, MaxIsGreatest
    <2>2. LastLsn(f) + 1 \in T
      BY DEF T
    <2> QED
      BY <1>4, <2>1, <2>2
  <1>6. \A i \in DOMAIN f : f[i].lsn \in Nat /\ f[i].lsn <= LastLsn(f)
    BY <1>1, <1>3, RecordFacts
  <1>7. NextLsnAtOpen(f, floor) = Max(T)
    BY DEF T, NextLsnAtOpen
  <1> QED
    BY <1>3, <1>5, <1>6, <1>7

-----------------------------------------------------------------------------
(* The state of a recovery. *)

LEMMA BackedOnDisk ==
    ASSUME NEW ds, NEW v \in View, NEW ids \in Seq(Nat), Len(ids) = Len(v.immutables),
           Backed(ds, v, ids)
    PROVE  /\ SealedFrom(ds, ids) = Sealed(v)
           /\ WellFormed(SealedFrom(ds, ids))
           /\ \A id \in Id : LiveStore(SealedFrom(ds, ids))[id]
                               = IF id \in RowIds(v.mutable) THEN NoRow ELSE LiveStore(v)[id]
  <1>1. v.immutables \in Seq(Segment)
    BY DEF View
  <1>2. DOMAIN ids = DOMAIN v.immutables /\ v.immutables = [k \in DOMAIN v.immutables |-> v.immutables[k]]
    BY <1>1
  <1>3. [k \in DOMAIN ids |-> ds[ids[k]]] = [k \in DOMAIN v.immutables |-> v.immutables[k]]
    BY <1>2 DEF Backed
  <1>4. SealedFrom(ds, ids) = Sealed(v)
    BY <1>2, <1>3 DEF SealedFrom, Sealed
  <1> QED
    BY <1>4, SealedView DEF Backed

LEMMA SealedSame ==
    ASSUME NEW ds, NEW es, NEW ids, \A k \in DOMAIN ids : es[ids[k]] = ds[ids[k]]
    PROVE  SealedFrom(es, ids) = SealedFrom(ds, ids)
  BY DEF SealedFrom

(* The same, said of the three at once. *)
Stored(ds, v, ids) == v \in View /\ ids \in Seq(Nat) /\ Len(ids) = Len(v.immutables) /\ Backed(ds, v, ids)

LEMMA StoredOnDisk ==
    ASSUME NEW ds, NEW v, NEW ids, Stored(ds, v, ids)
    PROVE  /\ SealedFrom(ds, ids) = Sealed(v)
           /\ WellFormed(SealedFrom(ds, ids))
           /\ \A id \in Id : LiveStore(SealedFrom(ds, ids))[id]
                               = IF id \in RowIds(v.mutable) THEN NoRow ELSE LiveStore(v)[id]
  BY BackedOnDisk DEF Stored


LEMMA NothingSealed ==
    ASSUME NEW ds
    PROVE  /\ WellFormed(SealedFrom(ds, <<>>))
           /\ LiveStore(SealedFrom(ds, <<>>)) = [id \in Id |-> NoRow]
  <1>1. SealedFrom(ds, <<>>) = EmptyView
    BY DEF SealedFrom, EmptyView
  <1> QED
    BY <1>1, EmptyViewFacts

(* What the disk has of the collection that a name has in memory. *)
LEMMA HeldFacts ==
    ASSUME IInv, Held, NEW n \in Name, coll[n] # NoObj
    PROVE  LET x == objs[coll[n]]
           IN  /\ coll[n] \in DOMAIN objs /\ x.name = n
               /\ x.view \in View /\ x.segIds \in Seq(Nat)
               /\ Len(x.segIds) = Len(x.view.immutables)
               /\ DOMAIN x.segIds = DOMAIN x.view.immutables
               /\ WellFormed(x.view)
               /\ Backed(dirs, x.view, x.segIds)
               /\ InMemory(n) = LiveStore(x.view)
               /\ Listed(n) = x.segIds => DiskView(n) = Sealed(x.view)
  <1> DEFINE x == objs[coll[n]]
  <1>1. /\ coll[n] \in DOMAIN objs /\ x.name = n
        /\ x.view \in View /\ x.segIds \in Seq(Nat)
        /\ Len(x.segIds) = Len(x.view.immutables)
        /\ DOMAIN x.segIds = DOMAIN x.view.immutables
    BY StateFacts, ObjectFacts
  <1>2. Backed(dirs, x.view, x.segIds) /\ WellFormed(x.view)
    BY DEF Held, Backed
  <1>3. Listed(n) = x.segIds => DiskView(n) = Sealed(x.view)
    <2>1. SealedFrom(dirs, x.segIds) = Sealed(x.view)
      <3> HIDE DEF x
      <3>1. Stored(dirs, x.view, x.segIds)
        BY <1>1, <1>2 DEF Stored
      <3> QED
        BY <3>1, StoredOnDisk
    <2> QED
      BY <2>1 DEF DiskView
  <1> QED
    BY <1>1, <1>2, <1>3 DEF InMemory

LEMMA PendingType ==
    ASSUME IInv
    PROVE  Pending \in Seq(LogRecord) /\ \A i \in DOMAIN Pending : Pending[i].op \in Call
  <1>1. walFile \in Seq(LogRecord) /\ manifest.floor \in Nat
    BY StateFacts DEF IInv, Types
  <1>2. Pending \in Seq(LogRecord)
    BY <1>1, ToReplayType DEF Pending
  <1> QED
    BY <1>2, RecordFacts

(* A step that leaves alone what is on disk. *)
LEMMA KeptSame ==
    ASSUME IInv, Kept, UNCHANGED <<manifest, walFile, promised>>,
           \A d \in Named : d \in DOMAIN dirs' /\ dirs'[d] = dirs[d]
    PROVE  /\ Kept' /\ Pending' = Pending
           /\ \A n \in Name : /\ Listed(n)' = Listed(n) /\ Entry(n)' = Entry(n)
                              /\ DiskView(n)' = DiskView(n)
  <1>1. Pending' = Pending /\ Named' = Named
        /\ \A n : Listed(n)' = Listed(n) /\ Entry(n)' = Entry(n)
    BY DEF Pending, Named, Listed, Entry
  <1>2. ASSUME NEW n \in Name
        PROVE  DiskView(n)' = DiskView(n) /\ OnDisk(n)' = OnDisk(n)
    <2>1. \A k \in DOMAIN Listed(n) : Listed(n)[k] \in Named
      BY StateFacts DEF ToSet
    <2>2. SealedFrom(dirs', Listed(n)) = SealedFrom(dirs, Listed(n))
      BY <2>1, SealedSame
    <2> QED
      BY <1>1, <2>2 DEF DiskView, OnDisk
  <1>3. Kept'
    BY <1>1, <1>2 DEF Kept
  <1> QED
    BY <1>1, <1>2, <1>3

LEMMA RestIs ==
    ASSUME IInv, Logged
    PROVE  /\ Rest \in Seq(LogRecord) /\ records \in Seq(LogRecord)
           /\ pc \in {"create", "drop", "apply"} => op \in Call /\ Rest # <<>> /\ Head(Rest).op = op
           /\ pc \in {"ready", "flush_publish", "flush_reset", "compact_publish"} =>
                Rest = <<>> /\ records = <<>>
           /\ pc = "replay" => Rest = records
  <1>1. records \in Seq(LogRecord)
    BY DEF IInv, Types
  <1>2. pc \in {"create", "drop", "apply"} => op \in Call
    BY DEF IInv, Phases
  <1>3. records # <<>> => Tail(records) \in Seq(LogRecord)
    BY <1>1
  <1>4. op \in Call => /\ <<Record(0, op)>> \in Seq(LogRecord) /\ <<Record(0, op)>> # <<>>
                       /\ Head(<<Record(0, op)>>).op = op
    <2>1. op \in Call => Record(0, op) \in LogRecord /\ Record(0, op).op = op
      BY DEF LogRecord, Record
    <2> HIDE DEF Record
    <2> QED
      BY <2>1
  <1>5. records # <<>> /\ pc \in {"create", "drop", "apply"} => Head(records).op = op
    BY DEF Logged
  <1>6. pc \in {"ready", "flush_publish", "flush_reset", "compact_publish"} => records = <<>>
    BY DEF Logged
  <1> QED
    BY <1>1, <1>2, <1>3, <1>4, <1>5, <1>6 DEF Rest

LEMMA RestAfter ==
    ASSUME IInv, Logged,
           \/ Finish
           \/ UNCHANGED records /\ pc' \in {"rebuild", "clean"}
    PROVE  /\ pc \in {"create", "drop", "apply"} => Rest' = Tail(Rest)
           /\ pc \in {"rebuild", "clean"} => Rest' = Rest
           /\ pc = "replay" /\ Finish /\ records # <<>> => Rest' = Tail(Rest)
  <1>1. Tail(<<Record(0, op)>>) = <<>>
    <2> HIDE DEF Record
    <2> QED
      OBVIOUS
  <1>2. CASE Finish /\ records = <<>>
    <2>1. Rest' = <<>>
      BY <1>2 DEF Finish, Rest
    <2> QED
      BY <1>1, <1>2, <2>1 DEF Rest
  <1>3. CASE Finish /\ records # <<>>
    <2>1. Rest' = Tail(records)
      BY <1>3 DEF Finish, Rest
    <2> QED
      BY <1>3, <2>1 DEF Rest
  <1>4. CASE UNCHANGED records /\ pc' \in {"rebuild", "clean"}
    <2>1. Rest' = IF records # <<>> THEN Tail(records) ELSE records
      BY <1>4 DEF Rest
    <2> QED
      BY <1>1, <1>4, <2>1 DEF Rest
  <1> QED
    BY <1>2, <1>3, <1>4 DEF Finish

LEMMA LoggedSame ==
    ASSUME IInv, Logged, UNCHANGED <<walFile, nextLsn>>, Pending' = Pending,
           \/ Finish
           \/ UNCHANGED records /\ pc' \in {"rebuild", "clean"}
    PROVE  Logged'
  <1>1. /\ records' = records \/ (records # <<>> /\ records' = Tail(records)) \/ records' = <<>>
        /\ pc' \in {"ready", "replay", "rebuild", "clean"}
        /\ records' # <<>> => pc' \in {"replay", "rebuild", "clean"}
    BY DEF Finish
  <1>2. \A i \in DOMAIN records' : \E k \in DOMAIN Pending : Pending[k] = records'[i]
    <2>1. \A i \in DOMAIN records : \E k \in DOMAIN Pending : Pending[k] = records[i]
      BY DEF Logged
    <2>2. records \in Seq(LogRecord)
      BY DEF IInv, Types
    <2>3. records # <<>> => \A i \in DOMAIN Tail(records) : /\ i + 1 \in DOMAIN records
                                                           /\ Tail(records)[i] = records[i + 1]
      BY <2>2
    <2> QED
      BY <1>1, <2>1, <2>3
  <1>3. \A i \in DOMAIN walFile' : walFile'[i].lsn < nextLsn'
    BY DEF Logged
  <1> QED
    BY <1>1, <1>2, <1>3 DEF Logged

LEMMA TrackSame ==
    ASSUME OnTrack, Rest' = Rest, promised' = promised,
           \A n \in Name : Entry(n)'.dim = Entry(n).dim /\ InMemory(n)' = InMemory(n)
    PROVE  OnTrack'
  BY DEF OnTrack

(* The first record of what is left has been played. *)
LEMMA TrackAdvances ==
    ASSUME OnTrack, Rest \in Seq(LogRecord), Rest # <<>>, Rest' = Tail(Rest), promised' = promised,
           \A n \in Name :
             /\ Entry(n)'.dim = DimAfter(Entry(n).dim, Head(Rest).op, n)
             /\ \A id \in Id : InMemory(n)'[id] = RowAfter(InMemory(n)[id], Head(Rest).op, n, id)
    PROVE  OnTrack'
  <1>1. ASSUME NEW n \in Name PROVE Playable(Rest', n, Entry(n)'.dim, promised'[n].dim)
    BY PlaysOn DEF OnTrack
  <1>2. ASSUME NEW n \in Name, NEW id \in Id
        PROVE  Leads(Rest', n, id, InMemory(n)'[id], promised'[n].store[id])
    BY LeadsOn DEF OnTrack
  <1> QED
    BY <1>1, <1>2 DEF OnTrack

(* When nothing is left, memory has what was promised. *)
LEMMA TrackEnds ==
    ASSUME IInv, OnTrack, Rest = <<>>, NEW n \in Name
    PROVE  /\ promised[n].dim = Entry(n).dim
           /\ \A id \in Id : promised[n].store[id] = InMemory(n)[id]
  BY PlaysNothing, LeadsNothing DEF OnTrack

LEMMA ExcusedFacts ==
    ASSUME IInv, excused = {}
    PROVE  ~Stale /\ (Up => Known /\ Mirror)
  BY DEF IInv, Stale

-----------------------------------------------------------------------------
(* Every step keeps a recovery possible. *)

(* An operation reaches the log. *)
LEMMA LogRecovers ==
    ASSUME IInv, Recovers, NEW r \in Call, Log(r), Reuse = {},
           pc' \in {"create", "drop", "apply"},
           pc' = "drop" => r.kind = "drop",
           pc' = "apply" => objs[target'].name = r.name,
           promised' \in [Name -> [dim : {0} \cup Dim, store : Rows]],
           r.kind = "create" =>
             /\ Entry(r.name).dim = 0
             /\ \A i \in WritesOf(Pending, r.name) :
                  Pending[i].op.kind = "upsert" => Pending[i].op.dim = r.dim,
           r.kind = "drop" =>
             /\ Entry(r.name).dim # 0
             /\ \A i \in WritesOf(Pending, r.name) : \E k \in Creates(Pending, r.name) : k < i,
           r.kind \in {"upsert", "delete"} => Entry(r.name).dim # 0 /\ r.dim = Entry(r.name).dim,
           \A n \in Name :
             /\ promised'[n].dim = DimAfter(promised[n].dim, r, n)
             /\ \A id \in Id : promised'[n].store[id] = RowAfter(promised[n].store[id], r, n, id)
    PROVE  Recovers'
  <1> DEFINE rec == Record(nextLsn, r)
  <1>1. /\ pc = "ready" /\ walFile' = Append(walFile, rec) /\ nextLsn' = nextLsn + 1 /\ op' = r
        /\ UNCHANGED <<manifest, dirs, objs, coll, nextSegId, todo, fresh, old, records>>
    BY DEF Log
  <1>2. Kept /\ Logged /\ Held /\ OnTrack
    BY <1>1 DEF Recovers
  <1>3. rec \in LogRecord /\ rec.op = r /\ rec.lsn = nextLsn /\ nextLsn \in Nat
    BY DEF Record, LogRecord, IInv, Types
  <1>4. ~Skips(rec, manifest.floor)
    BY <1>3, StateFacts DEF Reuse, Skips
  <1> HIDE DEF rec
  <1>5. walFile \in Seq(LogRecord) /\ manifest.floor \in Nat /\ Pending \in Seq(LogRecord)
    BY StateFacts, PendingType DEF IInv, Types
  <1>6. Pending' = Append(Pending, rec)
    BY <1>1, <1>3, <1>4, <1>5, ReplayAppended DEF Pending
  <1>7. Rest = <<>> /\ records = <<>>
    BY <1>1, <1>2, RestIs
  <1>8. \A n \in Name : /\ promised[n].dim = Entry(n).dim
                        /\ \A id \in Id : promised[n].store[id] = InMemory(n)[id]
    BY <1>2, <1>7, TrackEnds
  <1>9. Named' = Named /\ \A n : /\ Listed(n)' = Listed(n) /\ Entry(n)' = Entry(n)
                                 /\ DiskView(n)' = DiskView(n) /\ OnDisk(n)' = OnDisk(n)
                                 /\ InMemory(n)' = InMemory(n)
    BY <1>1 DEF Named, Listed, Entry, DiskView, OnDisk, InMemory
  <1>10. r.kind \in {"create", "drop", "upsert", "delete"} /\ r.name \in Name
    BY OpKinds
  <1>11. Kept'
    <2>1. ASSUME NEW n \in Name
          PROVE  LogOf(Pending', n, promised'[n].dim) /\ StartsAt(Pending', n, Entry(n)'.dim, promised'[n].dim)
      <3>1. LogOf(Pending, n, promised[n].dim) /\ StartsAt(Pending, n, Entry(n).dim, promised[n].dim)
        BY <1>2 DEF Kept
      <3>2. promised[n].dim = Entry(n).dim
        BY <1>8
      <3> DEFINE p == promised[n].dim
                 q == promised'[n].dim
      <3>3. q = DimAfter(p, r, n)
        OBVIOUS
      <3> HIDE DEF p, q
      <3>4. \/ rec.op.name # n /\ q = p
            \/ /\ rec.op.name = n /\ rec.op.kind = "create" /\ p = Entry(n).dim /\ Entry(n).dim = 0
               /\ q = rec.op.dim
               /\ \A i \in WritesOf(Pending, n) :
                    Pending[i].op.kind = "upsert" => Pending[i].op.dim = rec.op.dim
            \/ /\ rec.op.name = n /\ rec.op.kind = "drop" /\ p = Entry(n).dim /\ Entry(n).dim # 0
               /\ q = 0
               /\ \A i \in WritesOf(Pending, n) : \E k \in Creates(Pending, n) : k < i
            \/ /\ rec.op.name = n /\ rec.op.kind \in {"upsert", "delete"} /\ p = Entry(n).dim
               /\ Entry(n).dim # 0 /\ q = p /\ rec.op.dim = Entry(n).dim
        <4>1. p = Entry(n).dim
          BY <3>2 DEF p
        <4>2. CASE r.name # n
          BY <1>3, <3>3, <4>2 DEF DimAfter
        <4>3. CASE r.name = n /\ r.kind = "create"
          BY <1>3, <3>3, <4>1, <4>3 DEF DimAfter
        <4>4. CASE r.name = n /\ r.kind = "drop"
          BY <1>3, <3>3, <4>1, <4>4 DEF DimAfter
        <4>5. CASE r.name = n /\ r.kind \in {"upsert", "delete"}
          BY <1>3, <3>3, <4>1, <4>5 DEF DimAfter
        <4> QED
          BY <1>10, <4>2, <4>3, <4>4, <4>5
      <3>5. LogOf(Append(Pending, rec), n, q) /\ StartsAt(Append(Pending, rec), n, Entry(n).dim, q)
        <4>1. LogOf(Pending, n, p) /\ StartsAt(Pending, n, Entry(n).dim, p)
          BY <3>1 DEF p
        <4> QED
          BY <1>3, <1>5, <3>4, <4>1, LogAppended
      <3> QED
        BY <1>6, <1>9, <3>5 DEF q
    <2>2. ASSUME NEW n \in Name, NEW id \in Id
          PROVE  Leads(Pending', n, id, OnDisk(n)'[id], promised'[n].store[id])
      <3>1. Leads(Pending, n, id, OnDisk(n)[id], promised[n].store[id])
        BY <1>2 DEF Kept
      <3>2. Leads(Append(Pending, rec), n, id, OnDisk(n)[id],
                  RowAfter(promised[n].store[id], rec.op, n, id))
        BY <1>3, <1>5, <3>1, LeadsAppended
      <3> QED
        BY <1>3, <1>6, <1>9, <3>2
    <2>3. Named' \subseteq DOMAIN dirs' /\ \A n \in Name : WellFormed(DiskView(n)')
      BY <1>1, <1>2, <1>9 DEF Kept
    <2> QED
      BY <2>1, <2>2, <2>3 DEF Kept
  <1>12. Logged'
    <2>1. \A i \in DOMAIN walFile' : walFile'[i].lsn < nextLsn'
      <3>1. \A i \in DOMAIN walFile : walFile[i].lsn < nextLsn /\ walFile[i].lsn \in Nat
        BY <1>2, <1>5, RecordFacts DEF Logged
      <3>2. \A i \in DOMAIN walFile' : walFile'[i] = rec \/ (i \in DOMAIN walFile /\ walFile'[i] = walFile[i])
        BY <1>1, <1>5
      <3> QED
        BY <1>1, <1>3, <3>1, <3>2
    <2>2. \E k \in DOMAIN Pending' : Pending'[k].op = op'
      <3>1. Len(Pending) + 1 \in DOMAIN Pending' /\ Pending'[Len(Pending) + 1] = rec
        BY <1>3, <1>5, <1>6
      <3> QED
        BY <1>1, <1>3, <3>1
    <2>3. records' = <<>> /\ DOMAIN records' = {}
      BY <1>1, <1>7
    <2>4. /\ pc' = "apply" => objs'[target'].name = op'.name
          /\ pc' = "drop" => op'.kind = "drop"
      BY <1>1
    <2> QED
      BY <2>1, <2>2, <2>3, <2>4 DEF Logged
  <1>13. Held'
    BY <1>1, <1>2 DEF Held
  <1>14. OnTrack'
    <2>1. Rest' = <<Record(0, r)>>
      BY <1>1, <1>7 DEF Rest
    <2>2. Record(0, r) \in LogRecord /\ Record(0, r).op = r
      BY DEF Record, LogRecord
    <2>3. ASSUME NEW n \in Name PROVE Playable(Rest', n, Entry(n)'.dim, promised'[n].dim)
      <3>1. promised[n].dim = Entry(n).dim /\ promised'[n].dim = DimAfter(promised[n].dim, r, n)
        BY <1>8
      <3>2. Playable(<<Record(0, r)>>, n, Entry(n).dim, DimAfter(Entry(n).dim, r, n))
        BY <2>2, PlaysOne
      <3> QED
        BY <1>9, <2>1, <3>1, <3>2
    <2>4. ASSUME NEW n \in Name, NEW id \in Id
          PROVE  Leads(Rest', n, id, InMemory(n)'[id], promised'[n].store[id])
      <3>1. promised[n].store[id] = InMemory(n)[id]
        BY <1>8
      <3>2. Leads(<<Record(0, r)>>, n, id, InMemory(n)[id], RowAfter(InMemory(n)[id], r, n, id))
        BY <2>2, LeadsOne
      <3> QED
        BY <1>9, <2>1, <3>1, <3>2
    <2> QED
      BY <2>3, <2>4 DEF OnTrack
  <1> QED
    BY <1>11, <1>12, <1>13, <1>14 DEF Recovers

LEMMA PromisedType ==
    ASSUME Kept, NEW n \in Name, NEW d \in {0} \cup Dim, NEW st \in Rows
    PROVE  LET q == [promised EXCEPT ![n] = [dim |-> d, store |-> st]]
           IN  /\ q \in [Name -> [dim : {0} \cup Dim, store : Rows]]
               /\ q[n].dim = d /\ q[n].store = st
               /\ \A m \in Name : m # n => q[m] = promised[m]
  BY DEF Kept

LEMMA NoCollFacts ==
    /\ NoColl = [dim |-> 0, store |-> [id \in Id |-> NoRow]]
    /\ [id \in Id |-> NoRow] \in Rows
    /\ \A d : [NoColl EXCEPT !.dim = d] = [dim |-> d, store |-> [id \in Id |-> NoRow]]
  BY DEF NoColl, Rows, OptRow

LEMMA CreateRecovers ==
    ASSUME IInv, Recovers, excused' = {}, NEW name \in Name, NEW dim \in Dim, Create(name, dim)
    PROVE  Recovers'
  <1> DEFINE r == [kind |-> "create", name |-> name, dim |-> dim]
             st == [id \in Id |-> NoRow]
  <1>1. /\ coll[name] = NoObj /\ Log(r) /\ pc' = "create"
        /\ promised' = [promised EXCEPT ![name] = [NoColl EXCEPT !.dim = dim]]
        /\ excused' = excused \cup Reuse \cup IF OfOtherDim(name, dim) # {} THEN {"dim"} ELSE {}
    BY DEF Create
  <1>2. r \in Call /\ r.kind = "create" /\ r.name = name /\ r.dim = dim
    BY DEF Call
  <1>3. pc = "ready"
    BY <1>1 DEF Log
  <1> HIDE DEF r
  <1>4. Kept /\ Logged /\ OnTrack /\ Known
    BY <1>3 DEF Recovers, IInv, Up
  <1>5. Reuse = {} /\ OfOtherDim(name, dim) = {}
    BY <1>1
  <1>6. Entry(name).dim = 0 /\ promised[name].dim = 0 /\ \A id \in Id : promised[name].store[id] = NoRow
    <2>1. Rest = <<>>
      BY <1>3, <1>4, RestIs
    <2>2. Entry(name).dim = 0
      BY <1>1, <1>4, NoEntryFacts DEF Known
    <2>3. \A id \in Id : InMemory(name)[id] = NoRow
      BY <1>1 DEF InMemory
    <2> QED
      BY <1>4, <2>1, <2>2, <2>3, TrackEnds
  <1>7. \A i \in WritesOf(Pending, name) : Pending[i].op.kind = "upsert" => Pending[i].op.dim = dim
    BY <1>5 DEF OfOtherDim, Pending, WritesOf
  <1>8. promised' = [promised EXCEPT ![name] = [dim |-> dim, store |-> st]] /\ st \in Rows
    BY <1>1, NoCollFacts
  <1>9. /\ promised' \in [Name -> [dim : {0} \cup Dim, store : Rows]]
        /\ promised'[name].dim = dim /\ promised'[name].store = st
        /\ \A m \in Name : m # name => promised'[m] = promised[m]
    BY <1>4, <1>8, PromisedType
  <1>10. ASSUME NEW n \in Name
         PROVE  /\ promised'[n].dim = DimAfter(promised[n].dim, r, n)
                /\ \A id \in Id : promised'[n].store[id] = RowAfter(promised[n].store[id], r, n, id)
    BY <1>2, <1>6, <1>9 DEF DimAfter, RowAfter, Settles
  <1> QED
    BY <1>1, <1>2, <1>5, <1>6, <1>7, <1>9, <1>10, LogRecovers

LEMMA DropRecovers ==
    ASSUME IInv, Recovers, excused' = {}, NEW name \in Name, Drop(name)
    PROVE  Recovers'
  <1> DEFINE r == [kind |-> "drop", name |-> name]
             st == [id \in Id |-> NoRow]
  <1>1. /\ coll[name] # NoObj /\ Log(r) /\ pc' = "drop"
        /\ promised' = [promised EXCEPT ![name] = NoColl]
        /\ excused' = excused \cup Reuse \cup IF Orphans(name) # {} THEN {"orphans"} ELSE {}
    BY DEF Drop
  <1>2. r \in Call /\ r.kind = "drop" /\ r.name = name
    BY DEF Call
  <1>3. pc = "ready"
    BY <1>1 DEF Log
  <1> HIDE DEF r
  <1>4. Kept /\ Logged /\ OnTrack /\ Known
    BY <1>3 DEF Recovers, IInv, Up
  <1>5. Reuse = {} /\ Orphans(name) = {}
    BY <1>1
  <1>6. Entry(name).dim # 0
    BY <1>1, <1>4, StateFacts, DimAssumption DEF Known, ManifestEntry
  <1>7. ASSUME NEW i \in WritesOf(Pending, name)
        PROVE  \E k \in Creates(Pending, name) : k < i
    <2> DEFINE On(kinds) == {k \in DOMAIN Pending : Pending[k].op.name = name /\ Pending[k].op.kind \in kinds}
    <2>1. {k \in On({"upsert", "delete"}) : \A j \in On({"create"}) : j > k} = {}
      BY <1>5 DEF Orphans, Pending
    <2>2. On({"upsert", "delete"}) = WritesOf(Pending, name) /\ On({"create"}) = Creates(Pending, name)
      BY DEF WritesOf, Creates, Marks
    <2>3. PICK j \in Creates(Pending, name) : ~(j > i)
      BY <2>1, <2>2
    <2>4. j # i /\ j \in Nat /\ i \in Nat
      BY PendingType, IndexFacts
    <2> QED
      BY <2>3, <2>4
  <1>8. promised' = [promised EXCEPT ![name] = [dim |-> 0, store |-> st]] /\ st \in Rows
    BY <1>1, NoCollFacts
  <1>9. /\ promised' \in [Name -> [dim : {0} \cup Dim, store : Rows]]
        /\ promised'[name].dim = 0 /\ promised'[name].store = st
        /\ \A m \in Name : m # name => promised'[m] = promised[m]
    BY <1>4, <1>8, PromisedType
  <1>10. ASSUME NEW n \in Name
         PROVE  /\ promised'[n].dim = DimAfter(promised[n].dim, r, n)
                /\ \A id \in Id : promised'[n].store[id] = RowAfter(promised[n].store[id], r, n, id)
    BY <1>2, <1>9 DEF DimAfter, RowAfter, Settles, Outcome
  <1> QED
    BY <1>1, <1>2, <1>5, <1>6, <1>7, <1>9, <1>10, LogRecovers

LEMMA NewRowType == NewRow \in Row /\ NewRow # NoRow
  BY VectorAssumption, NoRowAssumption DEF NewRow, Row, OptPayload

(* What a write makes of a row. *)
WrittenRow(kind, ids, row, id) ==
    IF id \in ids THEN IF kind = "upsert" THEN NewRow ELSE NoRow ELSE row

LEMMA WriteEffect ==
    ASSUME NEW s \in Rows, NEW ids \in SUBSET Id
    PROVE  /\ AfterUpsert(s, BatchOf(ids)) \in Rows /\ AfterDelete(s, ids) \in Rows
           /\ \A id \in Id : /\ AfterUpsert(s, BatchOf(ids))[id] = WrittenRow("upsert", ids, s[id], id)
                             /\ AfterDelete(s, ids)[id] = WrittenRow("delete", ids, s[id], id)
  BY NewRowType DEF AfterUpsert, AfterDelete, BatchOf, WrittenRow, Rows, OptRow

LEMMA WriteRecovers ==
    ASSUME IInv, Recovers, excused' = {}, NEW o \in DOMAIN objs, NEW kind \in {"upsert", "delete"},
           NEW id \in Id, Write(o, kind, {id})
    PROVE  Recovers'
  <1> DEFINE n == objs[o].name
             r == [kind |-> kind, name |-> n, dim |-> objs[o].dim, ids |-> {id}]
             was == promised[n].store
             st == IF kind = "upsert" THEN AfterUpsert(was, BatchOf({id})) ELSE AfterDelete(was, {id})
  <1>1. /\ Log(r) /\ pc' = "apply" /\ target' = o
        /\ excused' = excused \cup Reuse \cup IF IsCurrent(o) THEN {} ELSE {"stale"}
    BY DEF Write
  <1>2. Reuse = {} /\ IsCurrent(o) /\ coll[n] = o
    BY <1>1 DEF IsCurrent
  <1>3. n \in Name /\ objs[o].dim \in Dim /\ o # NoObj
    BY StateFacts, ObjectFacts
  <1>4. promised' = [promised EXCEPT ![n].store =
                        IF kind = "upsert" THEN AfterUpsert(@, BatchOf({id})) ELSE AfterDelete(@, {id})]
    BY <1>2 DEF Write, PS!AfterUpsert, PS!AfterDelete, AfterUpsert, AfterDelete
  <1>5. r \in Call /\ r.kind = kind /\ r.name = n /\ r.dim = objs[o].dim /\ r.ids = {id}
    BY <1>3 DEF Call
  <1>6. pc = "ready"
    BY <1>1 DEF Log
  <1> HIDE DEF r, n
  <1>7. Kept /\ Logged /\ OnTrack /\ Known
    BY <1>6 DEF Recovers, IInv, Up
  <1>8. Entry(n).dim # 0 /\ r.dim = Entry(n).dim
    BY <1>2, <1>3, <1>5, <1>7, DimAssumption DEF Known
  <1>9. /\ promised \in [Name -> [dim : {0} \cup Dim, store : Rows]]
        /\ promised[n] = [dim |-> promised[n].dim, store |-> was]
        /\ promised[n].dim \in {0} \cup Dim /\ was \in Rows
    BY <1>3, <1>7 DEF Kept
  <1>10. st \in Rows /\ \A i \in Id : st[i] = WrittenRow(kind, {id}, was[i], i)
    <2> HIDE DEF was
    <2> QED
      BY <1>9, WriteEffect
  <1>11. promised' = [promised EXCEPT ![n] = [dim |-> promised[n].dim, store |-> st]]
    <2>1. [promised[n] EXCEPT !.store = st] = [dim |-> promised[n].dim, store |-> st]
      <3> HIDE DEF was, st
      <3> QED
        BY <1>9
    <2>2. promised' = [promised EXCEPT ![n] = [promised[n] EXCEPT !.store = st]]
      BY <1>3, <1>4, <1>9
    <2> QED
      BY <2>1, <2>2
  <1> HIDE DEF st
  <1>12. /\ promised' \in [Name -> [dim : {0} \cup Dim, store : Rows]]
         /\ promised'[n].dim = promised[n].dim /\ promised'[n].store = st
         /\ \A m \in Name : m # n => promised'[m] = promised[m]
    BY <1>3, <1>7, <1>9, <1>10, <1>11, PromisedType
  <1>13. ASSUME NEW m \in Name
         PROVE  /\ promised'[m].dim = DimAfter(promised[m].dim, r, m)
                /\ \A i \in Id : promised'[m].store[i] = RowAfter(promised[m].store[i], r, m, i)
    <2>1. CASE m # n
      BY <1>5, <1>12, <2>1 DEF DimAfter, RowAfter, Settles
    <2>2. CASE m = n
      BY <1>5, <1>10, <1>12, <2>2 DEF DimAfter, RowAfter, Settles, Outcome, WrittenRow
    <2> QED
      BY <2>1, <2>2
  <1>14. objs[target'].name = r.name
    BY <1>1, <1>5 DEF n
  <1> QED
    BY <1>1, <1>2, <1>3, <1>5, <1>8, <1>12, <1>13, <1>14, LogRecovers

-----------------------------------------------------------------------------
(* create_collection and drop_collection, and the removal of directories. *)

LEMMA CreatePublishRecovers ==
    ASSUME IInv, Recovers, excused = {}, CreatePublish
    PROVE  Recovers'
  <1>0. pc = "create" /\ op \in Call /\ op.kind = "create" /\ op.name \in Name /\ op.dim \in Dim
    BY OpKinds DEF CreatePublish, IInv, Phases
  <1> PICK n \in Name : n = op.name
    BY <1>0
  <1> DEFINE e == [dim |-> op.dim, segments |-> <<>>]
             new == Object(n, op.dim, EmptyView, <<>>)
             k == Len(objs) + 1
  <1>1. /\ manifest' = [manifest EXCEPT !.colls[n] = e]
        /\ objs' = Append(objs, new)
        /\ coll' = [coll EXCEPT ![n] = k]
        /\ Finish
        /\ UNCHANGED <<walFile, dirs, nextSegId, nextLsn, op, target, todo, fresh, old, history>>
    BY DEF CreatePublish
  <1>2. /\ e.segments = <<>> /\ e.dim = op.dim
        /\ new.view = EmptyView /\ new.segIds = <<>>
    BY DEF Object
  <1>3. n \in Name /\ op' = op
    BY <1>1
  <1> HIDE DEF e, new
  <1>4. Kept /\ Logged /\ Held /\ OnTrack /\ Known /\ ~Stale /\ DOMAIN fresh = {}
    BY <1>0, ExcusedFacts, SettledFacts DEF Recovers
  <1>5. /\ manifest.colls \in Entries /\ objs \in Seq(CollObject)
        /\ manifest = [floor |-> manifest.floor, colls |-> manifest.colls]
        /\ coll \in [Name -> {NoObj} \cup DOMAIN objs]
    BY StateFacts DEF IInv, Types
  <1>6. /\ manifest'.floor = manifest.floor
        /\ Entry(n)' = e /\ \A m \in Name : m # n => Entry(m)' = Entry(m)
    BY <1>3, <1>1, <1>5 DEF Entry, Entries
  <1>7. coll[n] = NoObj /\ Entry(n) = NoEntry /\ Entry(n).dim = 0 /\ Listed(n) = <<>>
    <2>1. coll[n] = NoObj
      BY <1>0, <1>4, SettledFacts
    <2>2. Entry(n) = NoEntry
      BY <1>3, <1>4, <2>1 DEF Known
    <2> QED
      BY <1>3, <2>1, <2>2, StateFacts, NoEntryFacts
  <1>8. \A m \in Name : Listed(m)' = Listed(m) /\ Listed(m) = Entry(m).segments
    BY <1>2, <1>6, <1>7, StateFacts DEF Listed, Entry, SegmentsOf
  <1>9. Named' = Named
    <2>1. \A d : d \in Named' <=> \E m \in Name : d \in ToSet(Listed(m)')
      BY NamedBy DEF Named, Listed
    <2>2. \A d : d \in Named <=> \E m \in Name : d \in ToSet(Listed(m))
      BY NamedBy DEF Named, Listed
    <2> QED
      BY <1>8, <2>1, <2>2
  <1>10. Pending' = Pending /\ \A m \in Name : DiskView(m)' = DiskView(m) /\ OnDisk(m)' = OnDisk(m)
    BY <1>1, <1>6, <1>8 DEF Pending, DiskView, OnDisk
  <1>11. \A m \in Name : Entry(m)'.dim = DimAfter(Entry(m).dim, op, m)
    BY <1>0, <1>2, <1>6, <1>7 DEF DimAfter
  <1>12. promised' = promised
    BY <1>1 DEF history
  <1>13. Kept'
    <2>1. ASSUME NEW m \in Name
          PROVE  StartsAt(Pending', m, Entry(m)'.dim, promised'[m].dim)
      <3>1. StartsAt(Pending, m, Entry(m).dim, promised[m].dim)
        BY <1>4 DEF Kept
      <3>2. CASE m # n
        BY <1>6, <1>10, <1>12, <3>1, <3>2
      <3>3. CASE m = n
        <4>1. PICK i \in DOMAIN Pending : Pending[i].op = op
          BY <1>0, <1>4 DEF Logged
        <4>2. IsMark(Pending[i].op, m)
          BY <1>0, <3>3, <4>1 DEF IsMark
        <4>3. StartsAt(Pending, m, DimAfter(Entry(m).dim, op, m), promised[m].dim)
          BY <3>1, <4>1, <4>2, PendingType, StartsAfter
        <4> QED
          BY <1>10, <1>11, <1>12, <4>3
      <3> QED
        BY <3>2, <3>3
    <2> QED
      BY <1>1, <1>4, <1>9, <1>10, <1>12, <2>1 DEF Kept
  <1>14. /\ coll'[n] = k /\ k # NoObj /\ objs'[k] = new /\ k \notin DOMAIN objs
         /\ \A o \in DOMAIN objs : objs'[o] = objs[o]
         /\ \A m \in Name : m # n => coll'[m] = coll[m]
    BY <1>1, <1>3, <1>5 DEF NoObj
  <1>15. /\ InMemory(n)' = [id \in Id |-> NoRow] /\ InMemory(n) = [id \in Id |-> NoRow]
         /\ \A m \in Name : m # n => InMemory(m)' = InMemory(m)
    BY <1>2, <1>3, <1>7, <1>14, EmptyViewFacts, StateFacts DEF InMemory
  <1>16. \A m \in Name, id \in Id : InMemory(m)'[id] = RowAfter(InMemory(m)[id], op, m, id)
    <2>1. \A m \in Name, id \in Id : ~Settles(op, m, id)
      BY <1>0 DEF Settles
    <2> QED
      BY <1>15, <2>1 DEF RowAfter
  <1>17. OnTrack'
    <2>1. Rest' = Tail(Rest) /\ Rest \in Seq(LogRecord) /\ Rest # <<>> /\ Head(Rest).op = op
      BY <1>0, <1>1, <1>4, RestIs, RestAfter
    <2> QED
      BY <1>4, <1>11, <1>12, <1>16, <2>1, TrackAdvances
  <1>18. Held'
    <2>1. ASSUME NEW m \in Name, coll'[m] # NoObj
          PROVE  Backed(dirs', objs'[coll'[m]].view, objs'[coll'[m]].segIds)
      <3>1. CASE m = n
        BY <1>2, <1>14, <3>1, EmptyViewFacts DEF Backed
      <3>2. CASE m # n
        BY <1>1, <1>4, <1>14, <2>1, <3>2, StateFacts DEF Held
      <3> QED
        BY <3>1, <3>2
    <2>2. pc' # "compact_publish"
      BY <1>1 DEF Finish
    <2> QED
      BY <1>1, <1>4, <2>1, <2>2 DEF Held
  <1>19. Logged'
    BY <1>1, <1>4, <1>10, LoggedSame
  <1>20. pc' # "failed"
    BY <1>1 DEF Finish
  <1> QED
    BY <1>13, <1>17, <1>18, <1>19, <1>20 DEF Recovers

LEMMA DropPublishRecovers ==
    ASSUME IInv, Recovers, excused = {}, DropPublish
    PROVE  Recovers'
  <1>0. pc = "drop" /\ op \in Call /\ op.name \in Name
    BY OpKinds DEF DropPublish, IInv, Phases
  <1> PICK n \in Name : n = op.name
    BY <1>0
  <1>1. /\ manifest' = [manifest EXCEPT !.colls[n] = NoEntry]
        /\ coll' = [coll EXCEPT ![n] = NoObj]
        /\ Finish \/ (pc' = "clean" /\ UNCHANGED records)
        /\ UNCHANGED <<walFile, dirs, objs, nextSegId, nextLsn, op, target, todo, fresh, history>>
    BY DEF DropPublish
  <1>2. n \in Name
    OBVIOUS
  <1>3. Kept /\ Logged /\ Held /\ OnTrack /\ DOMAIN fresh = {} /\ op.kind = "drop"
    <2>1. Kept /\ Logged /\ Held /\ OnTrack /\ DOMAIN fresh = {}
      BY <1>0, SettledFacts DEF Recovers
    <2> QED
      BY <1>0, <2>1 DEF Logged
  <1>5. /\ manifest.colls \in Entries
        /\ manifest = [floor |-> manifest.floor, colls |-> manifest.colls]
        /\ coll \in [Name -> {NoObj} \cup DOMAIN objs]
    BY StateFacts DEF IInv, Types
  <1>6. /\ manifest'.floor = manifest.floor
        /\ Entry(n)' = NoEntry /\ \A m \in Name : m # n => Entry(m)' = Entry(m)
    BY <1>2, <1>1, <1>5 DEF Entry, Entries
  <1>8. Listed(n)' = <<>> /\ \A m \in Name : m # n => Listed(m)' = Listed(m)
    BY <1>2, <1>6, NoEntryFacts DEF Listed, Entry, SegmentsOf
  <1>9. Named' \subseteq Named
    <2>1. \A d : d \in Named' <=> \E m \in Name : d \in ToSet(Listed(m)')
      BY NamedBy DEF Named, Listed
    <2>2. \A d : d \in Named <=> \E m \in Name : d \in ToSet(Listed(m))
      BY NamedBy DEF Named, Listed
    <2> QED
      BY <1>2, <1>8, <2>1, <2>2, NoEntryFacts
  <1>10. /\ Pending' = Pending
         /\ \A m \in Name : m # n => DiskView(m)' = DiskView(m) /\ OnDisk(m)' = OnDisk(m)
         /\ WellFormed(DiskView(n)') /\ OnDisk(n)' = [id \in Id |-> NoRow]
    BY <1>1, <1>6, <1>8, NothingSealed DEF Pending, DiskView, OnDisk
  <1>11. \A m \in Name : Entry(m)'.dim = DimAfter(Entry(m).dim, op, m)
    BY <1>3, <1>6, NoEntryFacts DEF DimAfter
  <1>12. promised' = promised
    BY <1>1 DEF history
  <1>13. Kept'
    <2>0. PICK i \in DOMAIN Pending : Pending[i].op = op
      BY <1>0, <1>3 DEF Logged
    <2>1. ASSUME NEW m \in Name
          PROVE  StartsAt(Pending', m, Entry(m)'.dim, promised'[m].dim)
      <3>1. StartsAt(Pending, m, Entry(m).dim, promised[m].dim)
        BY <1>3 DEF Kept
      <3>2. CASE m # n
        BY <1>6, <1>10, <1>12, <3>1, <3>2
      <3>3. CASE m = n
        <4>2. IsMark(Pending[i].op, m)
          BY <1>3, <2>0, <3>3 DEF IsMark
        <4>3. StartsAt(Pending, m, DimAfter(Entry(m).dim, op, m), promised[m].dim)
          BY <2>0, <3>1, <4>2, PendingType, StartsAfter
        <4> QED
          BY <1>10, <1>11, <1>12, <4>3
      <3> QED
        BY <3>2, <3>3
    <2>2. ASSUME NEW m \in Name, NEW id \in Id
          PROVE  Leads(Pending', m, id, OnDisk(m)'[id], promised'[m].store[id])
      <3>1. Leads(Pending, m, id, OnDisk(m)[id], promised[m].store[id])
        BY <1>3 DEF Kept
      <3>2. CASE m # n
        BY <1>10, <1>12, <3>1, <3>2
      <3>3. CASE m = n
        <4>1. Settles(Pending[i].op, m, id)
          BY <1>3, <2>0, <3>3 DEF Settles
        <4> QED
          BY <1>10, <1>12, <3>1, <4>1, Resettled
      <3> QED
        BY <3>2, <3>3
    <2>3. \A m \in Name : WellFormed(DiskView(m)') /\ LogOf(Pending', m, promised'[m].dim)
      BY <1>2, <1>3, <1>10, <1>12 DEF Kept
    <2>4. Named' \subseteq DOMAIN dirs' /\ promised' \in [Name -> [dim : {0} \cup Dim, store : Rows]]
      BY <1>1, <1>3, <1>9, <1>12 DEF Kept
    <2> QED
      BY <2>1, <2>2, <2>3, <2>4 DEF Kept
  <1>14. coll'[n] = NoObj /\ \A m \in Name : m # n => coll'[m] = coll[m]
    BY <1>1, <1>2, <1>5
  <1>15. \A m \in Name, id \in Id : InMemory(m)'[id] = RowAfter(InMemory(m)[id], op, m, id)
    <2> TAKE m \in Name, id \in Id
    <2>1. CASE m = n
      <3>1. Settles(op, m, id) /\ Outcome(op) = NoRow
        BY <1>3, <2>1 DEF Settles, Outcome
      <3> QED
        BY <1>14, <2>1, <3>1 DEF InMemory, RowAfter
    <2>2. CASE m # n
      BY <1>1, <1>14, <2>2 DEF InMemory, RowAfter, Settles
    <2> QED
      BY <2>1, <2>2
  <1>16. OnTrack'
    <2>1. Rest' = Tail(Rest) /\ Rest \in Seq(LogRecord) /\ Rest # <<>> /\ Head(Rest).op = op
      BY <1>0, <1>1, <1>3, RestIs, RestAfter
    <2> QED
      BY <1>3, <1>11, <1>12, <1>15, <2>1, TrackAdvances
  <1>17. Held' /\ pc' # "failed"
    <2>1. pc' # "compact_publish" /\ pc' # "failed"
      BY <1>1 DEF Finish
    <2>2. \A m \in Name : coll'[m] # NoObj => coll'[m] = coll[m]
      BY <1>14
    <2> QED
      BY <1>1, <1>3, <2>1, <2>2 DEF Held
  <1>18. Logged'
    BY <1>1, <1>3, <1>10, LoggedSame
  <1> QED
    BY <1>13, <1>16, <1>17, <1>18 DEF Recovers

LEMMA CleanRecovers ==
    ASSUME IInv, Recovers, excused = {}, Clean
    PROVE  Recovers'
  <1>1. /\ pc = "clean"
        /\ dirs' = [d \in DOMAIN dirs \ old |-> dirs[d]]
        /\ Finish \/ (pc' = "rebuild" /\ UNCHANGED records)
        /\ UNCHANGED <<manifest, walFile, objs, coll, nextSegId, nextLsn, op, target, todo, fresh, history>>
    BY DEF Clean
  <1>2. /\ Kept /\ Logged /\ Held /\ OnTrack /\ DOMAIN fresh = {} /\ ~Stale
        /\ old \cap Named = {}
        /\ \A n \in Name : coll[n] # NoObj => Listed(n) = objs[coll[n]].segIds
    BY <1>1, ExcusedFacts, SettledFacts DEF Recovers
  <1>3. \A d \in Named : d \in DOMAIN dirs' /\ dirs'[d] = dirs[d]
    BY <1>1, <1>2 DEF Kept
  <1>4. /\ Kept' /\ Pending' = Pending /\ promised' = promised
        /\ \A n \in Name : Entry(n)' = Entry(n) /\ InMemory(n)' = InMemory(n)
    BY <1>1, <1>2, <1>3, KeptSame DEF history, InMemory
  <1>5. OnTrack'
    <2>1. Rest' = Rest
      BY <1>1, <1>2, RestAfter
    <2> QED
      BY <1>2, <1>4, <2>1, TrackSame
  <1>6. pc' # "compact_publish" /\ pc' # "failed"
    BY <1>1 DEF Finish
  <1>7. Held'
    <2>1. ASSUME NEW n \in Name, coll[n] # NoObj
          PROVE  Backed(dirs', objs[coll[n]].view, objs[coll[n]].segIds)
      <3>1. Backed(dirs, objs[coll[n]].view, objs[coll[n]].segIds)
        BY <1>2, <2>1 DEF Held
      <3>2. \A i \in DOMAIN objs[coll[n]].segIds : objs[coll[n]].segIds[i] \in Named
        BY <1>2, <2>1, StateFacts DEF ToSet
      <3> QED
        BY <1>3, <3>1, <3>2 DEF Backed
    <2> QED
      BY <1>1, <1>2, <1>6, <2>1 DEF Held
  <1>8. Logged'
    BY <1>1, <1>2, <1>4, LoggedSame
  <1> QED
    BY <1>4, <1>5, <1>6, <1>7, <1>8 DEF Recovers

-----------------------------------------------------------------------------
(* apply_upsert and apply_delete. *)

(* A write, on the view of a collection. *)
Goal(v, kind, ids) == IF kind = "upsert" THEN ApplyUpsert(v, BatchOf(ids)) ELSE ApplyDelete(v, ids)

LEMMA GoalFacts ==
    ASSUME NEW v \in View, WellFormed(v), NEW ids \in SUBSET Id, NEW kind \in {"upsert", "delete"}
    PROVE  LET w == Goal(v, kind, ids)
           IN  /\ w \in View /\ WellFormed(w) /\ Len(w.immutables) = Len(v.immutables)
               /\ \A id \in Id : LiveStore(w)[id] = WrittenRow(kind, ids, LiveStore(v)[id], id)
               /\ \A id \in Id \ ids : id \in RowIds(w.mutable) <=> id \in RowIds(v.mutable)
  <1>1. BatchOf(ids) \in Batch /\ LiveStore(v) \in Rows
    BY BatchOfType, LookupType
  <1>2. v.mutable \in Mutable
    BY DEF View
  <1>3. CASE kind = "upsert"
    <2> DEFINE w == ApplyUpsert(v, BatchOf(ids))
    <2>1. w \in View /\ WellFormed(w) /\ Len(w.immutables) = Len(v.immutables)
          /\ LiveStore(w) = AfterUpsert(LiveStore(v), BatchOf(ids))
      BY <1>1, ApplyUpsertType, UpsertEffect, AppliedLengths
    <2>2. \A id \in Id : LiveStore(w)[id] = WrittenRow("upsert", ids, LiveStore(v)[id], id)
      BY <1>1, <2>1, WriteEffect
    <2>3. \A id \in Id \ ids : id \in RowIds(w.mutable) <=> id \in RowIds(v.mutable)
      <3>1. w.mutable = MutableUpsert(v.mutable, BatchOf(ids))
        BY DEF ApplyUpsert
      <3>2. \A id \in Id \ ids : BatchOf(ids)[id] = NoRow
        BY DEF BatchOf
      <3>3. \A id \in Id \ ids : w.mutable.rows[id] = v.mutable.rows[id]
        BY <3>1, <3>2 DEF MutableUpsert
      <3> QED
        BY <3>3 DEF RowIds
    <2> QED
      BY <1>3, <2>1, <2>2, <2>3 DEF Goal
  <1>4. CASE kind # "upsert"
    <2> DEFINE w == ApplyDelete(v, ids)
    <2>1. w \in View /\ WellFormed(w) /\ Len(w.immutables) = Len(v.immutables)
          /\ LiveStore(w) = AfterDelete(LiveStore(v), ids)
      BY <1>1, ApplyDeleteType, DeleteEffect, AppliedLengths
    <2>2. \A id \in Id : LiveStore(w)[id] = WrittenRow("delete", ids, LiveStore(v)[id], id)
      BY <1>1, <2>1, WriteEffect
    <2>3. \A id \in Id \ ids : id \in RowIds(w.mutable) <=> id \in RowIds(v.mutable)
      <3>1. w.mutable = MutableDelete(v.mutable, ids)
        BY DEF ApplyDelete
      <3>2. w.mutable.rows = v.mutable.rows
        BY <1>2, <3>1 DEF MutableDelete, Mutable
      <3> QED
        BY <3>2 DEF RowIds
    <2> QED
      BY <1>4, <2>1, <2>2, <2>3 DEF Goal
  <1> QED
    BY <1>3, <1>4

(* The segments of other names are not touched. *)
LEMMA OthersListed ==
    ASSUME IInv, NEW n \in Name, NEW m \in Name, m # n
    PROVE  \A k \in DOMAIN Listed(m) : Listed(m)[k] \in Named /\ Listed(m)[k] \notin ToSet(Listed(n))
  <1>1. ToSet(Listed(m)) \cap ToSet(Listed(n)) = {} /\ ToSet(Listed(m)) \subseteq Named
    BY StateFacts DEF OwnedOnce, Listed
  <1>2. \A k \in DOMAIN Listed(m) : Listed(m)[k] \in ToSet(Listed(m))
    BY DEF ToSet
  <1> QED
    BY <1>1, <1>2

LEMMA ApplyDoes ==
    ASSUME IInv, Kept, Logged, Held, ~Stale, Apply
    PROVE  LET x == objs[target]
               w == Goal(x.view, op.kind, op.ids)
           IN  /\ op \in Call /\ op.kind \in {"upsert", "delete"} /\ op.ids \in SUBSET Id
               /\ target \in DOMAIN objs /\ x.name = op.name /\ x.name \in Name /\ coll[x.name] = target
               /\ Listed(x.name) = x.segIds
               /\ Finish \/ (pc' = "rebuild" /\ UNCHANGED records)
               /\ objs'[target].view = w /\ objs'[target].segIds = x.segIds
               /\ \A o \in DOMAIN objs : o # target => objs'[o] = objs[o]
               /\ DOMAIN dirs' = DOMAIN dirs
               /\ \A i \in DOMAIN x.segIds : dirs'[x.segIds[i]] = w.immutables[i]
               /\ \A d \in DOMAIN dirs \ ToSet(x.segIds) : dirs'[d] = dirs[d]
               /\ UNCHANGED <<manifest, walFile, coll, nextSegId, nextLsn, op, target, fresh, old, history>>
  <1> DEFINE obj == objs[target]
             v == obj.view
             goal == Goal(v, op.kind, op.ids)
             touched == {i \in DOMAIN obj.segIds : goal.immutables[i] # v.immutables[i]}
             written == {obj.segIds[i] : i \in touched}
             PosOf(d) == CHOOSE i \in touched : obj.segIds[i] = d
  <1>1. /\ pc = "apply"
        /\ written \subseteq DOMAIN dirs =>
             /\ objs' = [objs EXCEPT ![target].view = goal]
             /\ dirs' = [d \in DOMAIN dirs |->
                           IF d \in written THEN goal.immutables[PosOf(d)] ELSE dirs[d]]
             /\ Finish \/ (pc' = "rebuild" /\ UNCHANGED records)
        /\ UNCHANGED <<manifest, walFile, coll, nextSegId, nextLsn, op, target, fresh, old, history>>
    BY DEF Apply, Goal
  <1>2. target \in DOMAIN objs /\ op \in Call /\ op.kind \in {"upsert", "delete"}
    BY <1>1 DEF IInv, Phases
  <1>3. op.ids \in SUBSET Id
    BY <1>2 DEF Call
  <1>4. /\ obj.segIds \in Seq(Nat) /\ obj.name \in Name /\ target # NoObj
        /\ obj.name = op.name
    BY <1>1, <1>2, StateFacts, ObjectFacts DEF Logged
  <1>5. Target /\ \A n \in Name : coll[n] # NoObj => Listed(n) = objs[coll[n]].segIds
    BY <1>1, SettledFacts
  <1>6. coll[obj.name] = target /\ Listed(obj.name) = obj.segIds
    BY <1>4, <1>5 DEF Target
  <1>7. Distinct(obj.segIds) /\ ToSet(obj.segIds) \subseteq DOMAIN dirs
        /\ Backed(dirs, v, obj.segIds)
    BY <1>4, <1>6, StateFacts DEF Kept, Held
  <1>8. \A i \in DOMAIN obj.segIds : obj.segIds[i] \in ToSet(obj.segIds)
    BY DEF ToSet
  <1>9. /\ objs \in Seq(CollObject)
        /\ obj = [name |-> obj.name, dim |-> obj.dim, view |-> v, segIds |-> obj.segIds]
    BY <1>2, StateFacts, ObjectFacts DEF Object
  <1> HIDE DEF goal
  <1>10. written \subseteq ToSet(obj.segIds)
    BY <1>8
  <1>11. /\ objs' = [objs EXCEPT ![target].view = goal]
         /\ dirs' = [d \in DOMAIN dirs |-> IF d \in written THEN goal.immutables[PosOf(d)] ELSE dirs[d]]
         /\ Finish \/ (pc' = "rebuild" /\ UNCHANGED records)
    BY <1>1, <1>7, <1>10
  <1>12. ASSUME NEW i \in DOMAIN obj.segIds PROVE dirs'[obj.segIds[i]] = goal.immutables[i]
    <2>1. obj.segIds[i] \in DOMAIN dirs /\ dirs[obj.segIds[i]] = v.immutables[i]
      BY <1>7, <1>8 DEF Backed
    <2>2. CASE i \in touched
      <3>1. \A j \in touched : obj.segIds[j] = obj.segIds[i] => j = i
        BY <1>7 DEF Distinct
      <3>2. PosOf(obj.segIds[i]) = i
        BY <2>2, <3>1
      <3>3. obj.segIds[i] \in written
        BY <2>2
      <3> HIDE DEF written, PosOf
      <3> QED
        BY <1>11, <2>1, <3>2, <3>3
    <2>3. CASE i \notin touched
      <3>1. goal.immutables[i] = v.immutables[i]
        BY <2>3
      <3>2. obj.segIds[i] \notin written
        <4>1. ASSUME NEW j \in touched, obj.segIds[j] = obj.segIds[i] PROVE j = i
          BY <1>7, <4>1 DEF Distinct
        <4> QED
          BY <2>3, <4>1
      <3> HIDE DEF written, PosOf
      <3> QED
        BY <1>11, <2>1, <3>1, <3>2
    <2> QED
      BY <2>2, <2>3
  <1> HIDE DEF written, PosOf
  <1>13. DOMAIN dirs' = DOMAIN dirs /\ \A d \in DOMAIN dirs \ ToSet(obj.segIds) : dirs'[d] = dirs[d]
    BY <1>10, <1>11
  <1>14. /\ objs'[target] = [obj EXCEPT !.view = goal]
         /\ \A o \in DOMAIN objs : o # target => objs'[o] = objs[o]
    BY <1>2, <1>9, <1>11
  <1>15. objs'[target].view = goal /\ objs'[target].segIds = obj.segIds
    <2> HIDE DEF obj
    <2> QED
      BY <1>9, <1>14
  <1> QED
    BY <1>1, <1>2, <1>3, <1>4, <1>6, <1>11, <1>12, <1>13, <1>14, <1>15 DEF goal

LEMMA ApplyRecovers ==
    ASSUME IInv, Recovers, excused = {}, Apply
    PROVE  Recovers'
  <1>0. pc = "apply"
    BY DEF Apply
  <1>1. Kept /\ Logged /\ Held /\ OnTrack /\ ~Stale /\ DOMAIN fresh = {}
        /\ \A n \in Name : coll[n] # NoObj => Listed(n) = objs[coll[n]].segIds
    BY <1>0, ExcusedFacts, SettledFacts DEF Recovers
  <1> PICK n \in Name : n = op.name
    BY <1>0, OpKinds DEF IInv, Phases
  <1> DEFINE x == objs[target]
             w == Goal(x.view, op.kind, op.ids)
  <1>2. /\ op \in Call /\ op.kind \in {"upsert", "delete"} /\ op.ids \in SUBSET Id
        /\ target \in DOMAIN objs /\ x.name = n /\ coll[n] = target
        /\ Listed(n) = x.segIds
        /\ Finish \/ (pc' = "rebuild" /\ UNCHANGED records)
        /\ objs'[target].view = w /\ objs'[target].segIds = x.segIds
        /\ \A o \in DOMAIN objs : o # target => objs'[o] = objs[o]
        /\ DOMAIN dirs' = DOMAIN dirs
        /\ \A i \in DOMAIN x.segIds : dirs'[x.segIds[i]] = w.immutables[i]
        /\ \A d \in DOMAIN dirs \ ToSet(x.segIds) : dirs'[d] = dirs[d]
        /\ UNCHANGED <<manifest, walFile, coll, nextSegId, nextLsn, op, target, fresh, old, history>>
    BY <1>1, ApplyDoes
  <1>3. coll[n] # NoObj
    BY <1>2, StateFacts, ObjectFacts
  <1>4. /\ x.view \in View /\ x.segIds \in Seq(Nat) /\ Len(x.segIds) = Len(x.view.immutables)
        /\ WellFormed(x.view) /\ Backed(dirs, x.view, x.segIds)
        /\ InMemory(n) = LiveStore(x.view)
    BY <1>1, <1>2, <1>3, HeldFacts
  <1>5. /\ w \in View /\ WellFormed(w) /\ Len(w.immutables) = Len(x.view.immutables)
        /\ \A id \in Id : LiveStore(w)[id] = WrittenRow(op.kind, op.ids, LiveStore(x.view)[id], id)
        /\ \A id \in Id \ op.ids : id \in RowIds(w.mutable) <=> id \in RowIds(x.view.mutable)
    BY <1>2, <1>4, GoalFacts
  <1> HIDE DEF w, x
  <1>6. Backed(dirs', w, x.segIds)
    BY <1>2, <1>4, <1>5 DEF Backed
  <1>7. /\ Pending' = Pending /\ promised' = promised /\ Named' = Named
        /\ \A m \in Name : Listed(m)' = Listed(m) /\ Entry(m)' = Entry(m)
    BY <1>2 DEF Pending, Named, Listed, Entry, history
  <1>8. \A m \in Name : m # n => DiskView(m)' = DiskView(m) /\ OnDisk(m)' = OnDisk(m)
    <2> TAKE m \in Name
    <2> HAVE m # n
    <2>1. \A k \in DOMAIN Listed(m) : dirs'[Listed(m)[k]] = dirs[Listed(m)[k]]
      BY <1>1, <1>2, OthersListed DEF Kept
    <2>2. SealedFrom(dirs', Listed(m)) = SealedFrom(dirs, Listed(m))
      BY <2>1, SealedSame
    <2> QED
      BY <1>7, <2>2 DEF DiskView, OnDisk
  <1>9. /\ WellFormed(DiskView(n)')
        /\ \A id \in Id \ op.ids : OnDisk(n)'[id] = OnDisk(n)[id]
    <2>1. DiskView(n)' = SealedFrom(dirs', x.segIds) /\ DiskView(n) = SealedFrom(dirs, x.segIds)
      BY <1>2, <1>7 DEF DiskView
    <2>2. /\ WellFormed(SealedFrom(dirs', x.segIds))
          /\ \A id \in Id : LiveStore(SealedFrom(dirs', x.segIds))[id]
                              = IF id \in RowIds(w.mutable) THEN NoRow ELSE LiveStore(w)[id]
      <3>1. Stored(dirs', w, x.segIds)
        BY <1>4, <1>5, <1>6 DEF Stored
      <3> QED
        BY <3>1, StoredOnDisk
    <2>3. \A id \in Id : LiveStore(SealedFrom(dirs, x.segIds))[id]
                           = IF id \in RowIds(x.view.mutable) THEN NoRow ELSE LiveStore(x.view)[id]
      <3>1. Stored(dirs, x.view, x.segIds)
        BY <1>4 DEF Stored
      <3> QED
        BY <3>1, StoredOnDisk
    <2>4. \A id \in Id \ op.ids : LiveStore(w)[id] = LiveStore(x.view)[id]
      BY <1>5 DEF WrittenRow
    <2> QED
      BY <1>5, <2>1, <2>2, <2>3, <2>4 DEF OnDisk
  <1>10. Kept'
    <2>0. PICK i \in DOMAIN Pending : Pending[i].op = op
      BY <1>0, <1>1 DEF Logged
    <2>1. ASSUME NEW m \in Name, NEW id \in Id
          PROVE  Leads(Pending', m, id, OnDisk(m)'[id], promised'[m].store[id])
      <3>1. Leads(Pending, m, id, OnDisk(m)[id], promised[m].store[id])
        BY <1>1 DEF Kept
      <3>2. CASE m # n \/ id \notin op.ids
        BY <1>7, <1>8, <1>9, <3>1, <3>2
      <3>3. CASE m = n /\ id \in op.ids
        <4>1. Settles(Pending[i].op, m, id)
          BY <1>2, <2>0, <3>3 DEF Settles
        <4> QED
          BY <1>7, <3>1, <4>1, Resettled
      <3> QED
        BY <3>2, <3>3
    <2>2. \A m \in Name : /\ WellFormed(DiskView(m)')
                          /\ LogOf(Pending', m, promised'[m].dim)
                          /\ StartsAt(Pending', m, Entry(m)'.dim, promised'[m].dim)
      BY <1>1, <1>7, <1>8, <1>9 DEF Kept
    <2>3. Named' \subseteq DOMAIN dirs' /\ promised' \in [Name -> [dim : {0} \cup Dim, store : Rows]]
      BY <1>1, <1>2, <1>7 DEF Kept
    <2> QED
      BY <2>1, <2>2, <2>3 DEF Kept
  <1>11. \A m \in Name : m # n /\ coll[m] # NoObj => /\ coll[m] # target /\ coll[m] \in DOMAIN objs
                                                      /\ objs'[coll[m]] = objs[coll[m]]
    BY <1>2, <1>3, StateFacts
  <1>12. \A m \in Name, id \in Id : InMemory(m)'[id] = RowAfter(InMemory(m)[id], op, m, id)
    <2> TAKE m \in Name, id \in Id
    <2>1. CASE m # n
      <3>1. InMemory(m)' = InMemory(m)
        BY <1>2, <1>11, <2>1 DEF InMemory
      <3> QED
        BY <2>1, <3>1 DEF RowAfter, Settles
    <2>2. CASE m = n
      <3>1. InMemory(n)' = LiveStore(w)
        BY <1>2, <1>3 DEF InMemory
      <3>2. WrittenRow(op.kind, op.ids, InMemory(n)[id], id) = RowAfter(InMemory(n)[id], op, n, id)
        BY <1>2 DEF WrittenRow, RowAfter, Settles, Outcome
      <3> QED
        BY <1>4, <1>5, <2>2, <3>1, <3>2
    <2> QED
      BY <2>1, <2>2
  <1>13. OnTrack'
    <2>1. Rest' = Tail(Rest) /\ Rest \in Seq(LogRecord) /\ Rest # <<>> /\ Head(Rest).op = op
      BY <1>0, <1>1, <1>2, RestIs, RestAfter
    <2>2. \A m \in Name : Entry(m)'.dim = DimAfter(Entry(m).dim, op, m)
      BY <1>2, <1>7 DEF DimAfter
    <2> QED
      BY <1>1, <1>7, <1>12, <2>1, <2>2, TrackAdvances
  <1>14. Held'
    <2>1. ASSUME NEW m \in Name, coll[m] # NoObj
          PROVE  Backed(dirs', objs'[coll[m]].view, objs'[coll[m]].segIds)
      <3>1. CASE m = n
        BY <1>2, <1>6, <3>1
      <3>2. CASE m # n
        <4>1. Backed(dirs, objs[coll[m]].view, Listed(m)) /\ Listed(m) = objs[coll[m]].segIds
          BY <1>1, <2>1 DEF Held
        <4>2. \A k \in DOMAIN Listed(m) : Listed(m)[k] \in DOMAIN dirs' /\ dirs'[Listed(m)[k]] = dirs[Listed(m)[k]]
          BY <1>1, <1>2, <3>2, OthersListed DEF Kept
        <4>3. Backed(dirs', objs[coll[m]].view, Listed(m))
          BY <4>1, <4>2 DEF Backed
        <4> QED
          BY <1>11, <2>1, <3>2, <4>1, <4>3
      <3> QED
        BY <3>1, <3>2
    <2>2. pc' # "compact_publish"
      BY <1>2 DEF Finish
    <2> QED
      BY <1>1, <1>2, <2>1, <2>2 DEF Held
  <1>15. Logged' /\ pc' # "failed"
    <2>1. Logged'
      BY <1>1, <1>2, <1>7, LoggedSame
    <2> QED
      BY <1>2, <2>1 DEF Finish
  <1> QED
    BY <1>10, <1>13, <1>14, <1>15 DEF Recovers

-----------------------------------------------------------------------------
(* rebuild_segment_locked. *)

LEMMA BackedStill ==
    ASSUME NEW ds, NEW es, NEW v, NEW ids, Backed(ds, v, ids),
           \A i \in DOMAIN ids : ids[i] \in DOMAIN es /\ es[ids[i]] = ds[ids[i]]
    PROVE  Backed(es, v, ids)
  BY DEF Backed

(* A step that moves what is on disk and keeps its rows. *)
LEMMA KeptRows ==
    ASSUME Kept, Pending' = Pending, promised' = promised, Named' \subseteq DOMAIN dirs',
           \A n \in Name : /\ Entry(n)'.dim = Entry(n).dim
                           /\ WellFormed(DiskView(n)')
                           /\ \A id \in Id : OnDisk(n)'[id] = OnDisk(n)[id]
    PROVE  Kept'
  BY DEF Kept

(* The directories after the rebuild of one segment. *)
LEMMA RebuiltPosition ==
    ASSUME NEW v \in View, WellFormed(v), NEW ids \in Seq(Nat), Len(ids) = Len(v.immutables),
           NEW ds, NEW es, Backed(ds, v, ids), NEW si \in DOMAIN ids, NEW new \in Nat,
           new \notin DOMAIN ds, DOMAIN ds \subseteq DOMAIN es, \A d \in DOMAIN ds : es[d] = ds[d],
           ~IsEmpty(Rebuilt(v.immutables[si])) =>
             new \in DOMAIN es /\ es[new] = SegmentOf(Rebuilt(v.immutables[si]))
    PROVE  Backed(es, ApplyRebuild(v, si),
                  IF IsEmpty(Rebuilt(v.immutables[si])) THEN RemovePosition(ids, si)
                  ELSE [ids EXCEPT ![si] = new])
  <1> DEFINE merged == Rebuilt(v.immutables[si])
             gone == IsEmpty(merged)
             w == ApplyRebuild(v, si)
  <1>1. /\ v.immutables \in Seq(Segment) /\ DOMAIN v.immutables = DOMAIN ids
        /\ si \in 1..Len(ids) /\ si \in 1..Len(v.immutables) /\ si \in Nat /\ Len(ids) \in Nat
        /\ v = [mutable |-> v.mutable, immutables |-> v.immutables]
    BY DEF View
  <1>2. WellFormed(w)
    BY RebuildEffect
  <1>3. w.immutables = IF gone THEN RemovePosition(v.immutables, si)
                       ELSE [v.immutables EXCEPT ![si] = SegmentOf(merged)]
    <2> HIDE DEF merged
    <2>1. w = [v EXCEPT !.immutables = IF gone THEN RemovePosition(@, si)
                                       ELSE [@ EXCEPT ![si] = SegmentOf(merged)]]
      BY <1>1 DEF ApplyRebuild, merged
    <2> QED
      BY <1>1, <2>1
  <1>4. \A i \in DOMAIN ids : ids[i] \in DOMAIN es /\ es[ids[i]] = v.immutables[i]
    BY DEF Backed
  <1> HIDE DEF w, merged
  <1>5. CASE gone
    <2>1. /\ DOMAIN RemovePosition(ids, si) = 1..(Len(ids) - 1)
          /\ \A j \in 1..(Len(ids) - 1) : RemovePosition(ids, si)[j] = IF j < si THEN ids[j] ELSE ids[j + 1]
      BY <1>1, RemovedPosition
    <2>2. \A j \in 1..(Len(ids) - 1) :
            RemovePosition(v.immutables, si)[j] = IF j < si THEN v.immutables[j] ELSE v.immutables[j + 1]
      BY <1>1, RemovedPosition
    <2>3. \A j \in 1..(Len(ids) - 1) : j \in DOMAIN ids /\ j + 1 \in DOMAIN ids
      BY <1>1
    <2>4. \A j \in DOMAIN RemovePosition(ids, si) :
            /\ RemovePosition(ids, si)[j] \in DOMAIN es
            /\ es[RemovePosition(ids, si)[j]] = RemovePosition(v.immutables, si)[j]
      BY <1>4, <2>1, <2>2, <2>3
    <2>5. w.immutables = RemovePosition(v.immutables, si)
      BY <1>3, <1>5
    <2>6. Backed(es, w, RemovePosition(ids, si))
      BY <1>2, <2>4, <2>5 DEF Backed
    <2> QED
      BY <1>5, <2>6 DEF w, merged
  <1>6. CASE ~gone
    <2>1. w.immutables = [v.immutables EXCEPT ![si] = SegmentOf(merged)]
      BY <1>3, <1>6
    <2>2. new \in DOMAIN es /\ es[new] = SegmentOf(merged)
      BY <1>6 DEF merged
    <2> DEFINE jds == [ids EXCEPT ![si] = new]
    <2>3. DOMAIN jds = DOMAIN ids /\ \A j \in DOMAIN ids : jds[j] = IF j = si THEN new ELSE ids[j]
      OBVIOUS
    <2>4. \A j \in DOMAIN ids : w.immutables[j] = IF j = si THEN SegmentOf(merged) ELSE v.immutables[j]
      BY <1>1, <2>1
    <2> HIDE DEF jds
    <2>5. Backed(es, w, jds)
      BY <1>2, <1>4, <2>2, <2>3, <2>4 DEF Backed
    <2> QED
      BY <1>6, <2>5 DEF w, merged, jds
  <1> QED
    BY <1>5, <1>6

LEMMA RebuildOneRecovers ==
    ASSUME IInv, IInv', Recovers, excused = {}, RebuildOne
    PROVE  Recovers'
  <1>0. pc = "rebuild" /\ target \in DOMAIN objs
    BY DEF RebuildOne, IInv, Phases
  <1> DEFINE si == Min(todo)
             x == objs[target]
             gone == IsEmpty(Rebuilt(x.view.immutables[si]))
             ids == IF gone THEN RemovePosition(x.segIds, si) ELSE [x.segIds EXCEPT ![si] = nextSegId]
             w == ApplyRebuild(x.view, si)
  <1>1. Kept /\ Logged /\ Held /\ OnTrack /\ ~Stale /\ DOMAIN fresh = {} /\ Target /\ Known
        /\ \A n \in Name : coll[n] # NoObj => Listed(n) = objs[coll[n]].segIds
    BY <1>0, ExcusedFacts, SettledFacts DEF Recovers
  <1>2. x.name \in Name /\ target # NoObj
    BY <1>0, StateFacts, ObjectFacts
  <1> PICK n \in Name : n = x.name
    BY <1>2
  <1>3. /\ coll[n] = target /\ coll[n] # NoObj /\ Entry(n) # NoEntry
        /\ UNCHANGED <<walFile, coll, nextLsn, op, target, fresh, history>>
    BY <1>1, <1>2 DEF Target, Known, RebuildOne
  <1>4. /\ x.view \in View /\ x.segIds \in Seq(Nat) /\ Len(x.segIds) = Len(x.view.immutables)
        /\ WellFormed(x.view) /\ Backed(dirs, x.view, x.segIds)
        /\ InMemory(n) = LiveStore(x.view)
        /\ x = [name |-> x.name, dim |-> x.dim, view |-> x.view, segIds |-> x.segIds]
    BY <1>0, <1>1, <1>3, HeldFacts, StateFacts, ObjectFacts DEF Object
  <1>5. promised' = promised /\ ~Stale'
    BY <1>1, <1>3 DEF history, Stale
  <1>6. CASE si \notin DOMAIN x.segIds
    <2>1. /\ UNCHANGED <<manifest, dirs, objs, nextSegId, old>>
          /\ Finish \/ UNCHANGED <<pc, records>>
      BY <1>6 DEF RebuildOne
    <2>2. Kept' /\ Pending' = Pending
          /\ \A m \in Name : Entry(m)' = Entry(m) /\ InMemory(m)' = InMemory(m)
      BY <1>1, <1>3, <1>5, <2>1, KeptSame DEF Kept, InMemory
    <2>3. Finish \/ (UNCHANGED records /\ pc' \in {"rebuild", "clean"})
      BY <1>0, <2>1
    <2>4. Rest' = Rest /\ Logged'
      BY <1>0, <1>1, <1>3, <2>2, <2>3, RestAfter, LoggedSame
    <2>5. OnTrack'
      BY <1>1, <1>5, <2>2, <2>4, TrackSame
    <2>6. pc' # "compact_publish" /\ pc' # "failed"
      BY <2>3 DEF Finish
    <2>7. Held'
      BY <1>1, <1>3, <2>1, <2>6 DEF Held
    <2> QED
      BY <2>2, <2>4, <2>5, <2>6, <2>7 DEF Recovers
  <1>7. CASE si \in DOMAIN x.segIds
    <2>1. /\ objs' = [objs EXCEPT ![target].view = ApplyRebuild(@, si),
                                  ![target].segIds = IF gone THEN RemovePosition(@, si)
                                                     ELSE [@ EXCEPT ![si] = nextSegId]]
          /\ IF gone THEN UNCHANGED <<dirs, nextSegId>>
             ELSE dirs' = [d \in DOMAIN dirs \cup {nextSegId} |->
                             IF d = nextSegId THEN SegmentOf(Rebuilt(x.view.immutables[si])) ELSE dirs[d]]
          /\ pc' = "clean" /\ UNCHANGED records
          /\ \E segs : manifest' = [manifest EXCEPT !.colls[n].segments = segs]
      <3>1. Entry(x.name) # NoEntry
        BY <1>3
      <3> HIDE DEF si
      <3>2. \E segs : manifest' = [manifest EXCEPT !.colls[x.name].segments = segs]
        BY <1>7, <3>1 DEF RebuildOne, si
      <3> QED
        BY <1>7, <3>1, <3>2 DEF RebuildOne, si
    <2>2. /\ w \in View /\ WellFormed(w) /\ LiveStore(w) = LiveStore(x.view)
          /\ w.mutable = x.view.mutable
      BY <1>4, RebuildEffect
    <2>3. /\ objs'[target].view = w /\ objs'[target].segIds = ids
          /\ \A o \in DOMAIN objs : o # target => objs'[o] = objs[o]
      <3>1. objs' = [objs EXCEPT ![target] = [x EXCEPT !.view = w, !.segIds = ids]]
        BY <1>0, <2>1
      <3>2. objs \in Seq(CollObject)
        BY StateFacts
      <3> HIDE DEF w, ids, x
      <3>3. objs'[target] = [x EXCEPT !.view = w, !.segIds = ids]
            /\ \A o \in DOMAIN objs : o # target => objs'[o] = objs[o]
        BY <1>0, <3>1, <3>2
      <3> QED
        BY <1>4, <3>3
    <2>4. nextSegId \in Nat /\ nextSegId \notin DOMAIN dirs
      <3>1. nextSegId \in Nat
        BY DEF IInv, Types
      <3>2. \A d \in DOMAIN dirs : d < nextSegId
        BY <1>0, SettledFacts
      <3> QED
        BY <3>1, <3>2
    <2>5. /\ DOMAIN dirs \subseteq DOMAIN dirs' /\ \A d \in DOMAIN dirs : dirs'[d] = dirs[d]
          /\ ~gone => nextSegId \in DOMAIN dirs'
                      /\ dirs'[nextSegId] = SegmentOf(Rebuilt(x.view.immutables[si]))
      <3>1. CASE gone
        BY <2>1, <3>1
      <3>2. CASE ~gone
        <4> HIDE DEF x, si
        <4> QED
          BY <2>1, <2>4, <3>2
      <3> QED
        BY <3>1, <3>2
    <2>6. Backed(dirs', w, ids)
      <3> HIDE DEF x, si
      <3> QED
        BY <1>4, <1>7, <2>4, <2>5, RebuiltPosition
    <2> HIDE DEF w, ids
    <2>7. Listed(n)' = ids
      <3>1. Mirror'
        BY <1>5, <2>1 DEF IInv, Up
      <3> QED
        BY <1>3, <2>1, <2>3, <3>1 DEF Mirror
    <2>8. Named' \subseteq DOMAIN dirs'
      <3>1. Mirror'
        BY <1>5, <2>1 DEF IInv, Up
      <3> QED
        BY <3>1 DEF Mirror
    <2>9. /\ \A m \in Name : m # n => Entry(m)' = Entry(m) /\ Listed(m)' = Listed(m)
          /\ Entry(n)'.dim = Entry(n).dim /\ manifest'.floor = manifest.floor
      <3>1. PICK segs : manifest' = [manifest EXCEPT !.colls[n].segments = segs]
        BY <2>1
      <3>2. Entry(n) = [dim |-> Entry(n).dim, segments |-> Entry(n).segments]
        BY <1>3, StateFacts DEF ManifestEntry
      <3>3. /\ manifest.colls \in Entries
            /\ manifest = [floor |-> manifest.floor, colls |-> manifest.colls]
        BY StateFacts
      <3>4. manifest'.colls = [manifest.colls EXCEPT ![n].segments = segs] /\ manifest'.floor = manifest.floor
        BY <3>1, <3>3
      <3>5. manifest'.colls[n] = [manifest.colls[n] EXCEPT !.segments = segs]
            /\ \A m \in Name : m # n => manifest'.colls[m] = manifest.colls[m]
        BY <3>3, <3>4 DEF Entries
      <3>6. Entry(n)' = [Entry(n) EXCEPT !.segments = segs] /\ \A m \in Name : m # n => Entry(m)' = Entry(m)
        BY <3>5 DEF Entry
      <3>7. Entry(n)'.dim = Entry(n).dim
        BY <3>2, <3>6
      <3> QED
        BY <3>4, <3>5, <3>6, <3>7 DEF Listed, SegmentsOf
    <2>10. /\ WellFormed(DiskView(n)')
           /\ \A id \in Id : OnDisk(n)'[id] = OnDisk(n)[id]
      <3>1. DiskView(n)' = SealedFrom(dirs', ids) /\ DiskView(n) = SealedFrom(dirs, x.segIds)
        BY <1>1, <1>3, <2>7 DEF DiskView
      <3>2. Len(ids) = Len(w.immutables) /\ ids \in Seq(Nat)
        <4>1. Objects(objs') /\ target \in DOMAIN objs'
          BY <1>3, <2>3 DEF IInv, Types
        <4> QED
          BY <2>3, <4>1, ObjectFacts
      <3>3. /\ WellFormed(SealedFrom(dirs', ids))
            /\ \A id \in Id : LiveStore(SealedFrom(dirs', ids))[id]
                                = IF id \in RowIds(w.mutable) THEN NoRow ELSE LiveStore(w)[id]
        <4>1. Stored(dirs', w, ids)
          BY <2>2, <2>6, <3>2 DEF Stored
        <4> QED
          BY <4>1, StoredOnDisk
      <3>4. \A id \in Id : LiveStore(SealedFrom(dirs, x.segIds))[id]
                             = IF id \in RowIds(x.view.mutable) THEN NoRow ELSE LiveStore(x.view)[id]
        <4> HIDE DEF x
        <4>1. Stored(dirs, x.view, x.segIds)
          BY <1>4 DEF Stored
        <4> QED
          BY <4>1, StoredOnDisk
      <3> QED
        BY <2>2, <3>1, <3>3, <3>4 DEF OnDisk
    <2>11. \A m \in Name : m # n => DiskView(m)' = DiskView(m)
      <3> TAKE m \in Name
      <3> HAVE m # n
      <3>1. \A k \in DOMAIN Listed(m) : dirs'[Listed(m)[k]] = dirs[Listed(m)[k]]
        BY <1>1, <2>5, OthersListed DEF Kept
      <3>2. SealedFrom(dirs', Listed(m)) = SealedFrom(dirs, Listed(m))
        BY <3>1, SealedSame
      <3> QED
        BY <2>9, <3>2 DEF DiskView
    <2>12. Pending' = Pending
      BY <1>3, <2>9 DEF Pending
    <2>13. Kept'
      <3>1. \A m \in Name : /\ Entry(m)'.dim = Entry(m).dim
                            /\ WellFormed(DiskView(m)')
                            /\ \A id \in Id : OnDisk(m)'[id] = OnDisk(m)[id]
        BY <1>1, <2>9, <2>10, <2>11 DEF Kept, OnDisk
      <3> QED
        BY <1>1, <1>5, <2>8, <2>12, <3>1, KeptRows
    <2>14. \A m \in Name : m # n /\ coll[m] # NoObj => /\ coll[m] # target /\ coll[m] \in DOMAIN objs
                                                        /\ objs'[coll[m]] = objs[coll[m]]
      BY <1>3, <2>3, StateFacts
    <2>15. \A m \in Name : InMemory(m)' = InMemory(m)
      <3>1. InMemory(n)' = InMemory(n)
        BY <1>3, <1>4, <2>2, <2>3 DEF InMemory
      <3>2. \A m \in Name : m # n => InMemory(m)' = InMemory(m)
        BY <1>3, <2>14 DEF InMemory
      <3> QED
        BY <3>1, <3>2
    <2>16. Rest' = Rest /\ Logged'
      BY <1>0, <1>1, <1>3, <2>1, <2>12, RestAfter, LoggedSame
    <2>17. OnTrack'
      BY <1>1, <1>5, <2>9, <2>15, <2>16, TrackSame
    <2>18. Held'
      <3>1. ASSUME NEW m \in Name, coll[m] # NoObj
            PROVE  Backed(dirs', objs'[coll[m]].view, objs'[coll[m]].segIds)
        <4>1. CASE m = n
          BY <1>3, <2>3, <2>6, <4>1
        <4>2. CASE m # n
          <5>1. Backed(dirs, objs[coll[m]].view, Listed(m)) /\ Listed(m) = objs[coll[m]].segIds
            BY <1>1, <3>1 DEF Held
          <5>2. \A k \in DOMAIN Listed(m) : Listed(m)[k] \in DOMAIN dirs' /\ dirs'[Listed(m)[k]] = dirs[Listed(m)[k]]
            BY <1>1, <2>5, <4>2, OthersListed DEF Kept
          <5>3. Backed(dirs', objs[coll[m]].view, Listed(m))
            BY <5>1, <5>2, BackedStill
          <5> QED
            BY <2>14, <3>1, <4>2, <5>1, <5>3
        <4> QED
          BY <4>1, <4>2
      <3> QED
        BY <1>1, <1>3, <2>1, <3>1 DEF Held
    <2> QED
      BY <2>1, <2>13, <2>16, <2>17, <2>18 DEF Recovers
  <1> QED
    BY <1>6, <1>7

-----------------------------------------------------------------------------
(* flush_locked. *)

(* What is left to do between calls, and during a flush or a compaction. *)
LEMMA NothingLeft ==
    ASSUME records' = <<>>, pc' \notin {"create", "drop", "apply"}
    PROVE  Rest' = <<>>
  BY DEF Rest

LEMMA LoggedQuiet ==
    ASSUME Logged, records' = <<>>, pc' \notin {"create", "drop", "apply"},
           \A i \in DOMAIN walFile' : walFile'[i].lsn < nextLsn'
    PROVE  Logged'
  BY DEF Logged

(* Everything that was promised is in the segments, and the log is empty. *)
LEMMA KeptFlushed ==
    ASSUME Kept, Pending' = <<>>, promised' = promised, Named' \subseteq DOMAIN dirs',
           \A n \in Name : /\ Entry(n)'.dim = promised[n].dim
                           /\ WellFormed(DiskView(n)')
                           /\ \A id \in Id : OnDisk(n)'[id] = promised[n].store[id]
    PROVE  Kept'
  <1>1. \A n \in Name : /\ LogOf(Pending', n, promised'[n].dim)
                        /\ StartsAt(Pending', n, Entry(n)'.dim, promised'[n].dim)
    BY PlaysNothing
  <1>2. \A n \in Name, id \in Id : Leads(Pending', n, id, OnDisk(n)'[id], promised'[n].store[id])
    BY LeadsNothing
  <1> QED
    BY <1>1, <1>2 DEF Kept

LEMMA FlushedBacked ==
    ASSUME NEW v \in View, WellFormed(v), NEW ids \in Seq(Nat), Len(ids) = Len(v.immutables),
           NEW ds, Backed(ds, v, ids), NEW f \in Nat, f \in DOMAIN ds, ds[f] = SegmentOf(v.mutable)
    PROVE  /\ Backed(ds, ApplyFlush(v, ds[f]), Append(ids, f))
           /\ LiveStore(ApplyFlush(v, ds[f])) = LiveStore(v)
           /\ WellFormed(SealedFrom(ds, Append(ids, f)))
           /\ \A id \in Id : LiveStore(SealedFrom(ds, Append(ids, f)))[id] = LiveStore(v)[id]
  <1> DEFINE w == ApplyFlush(v, SegmentOf(v.mutable))
             jds == Append(ids, f)
  <1>1. w \in View /\ WellFormed(w) /\ LiveStore(w) = LiveStore(v)
    BY FlushEffect
  <1>2. /\ w.immutables = Append(v.immutables, SegmentOf(v.mutable)) /\ w.mutable = EmptyMutable
        /\ v.immutables \in Seq(Segment)
    BY DEF ApplyFlush, View
  <1> HIDE DEF w
  <1>3. jds \in Seq(Nat) /\ Len(jds) = Len(w.immutables)
    BY <1>2
  <1>4. \A i \in DOMAIN jds : jds[i] \in DOMAIN ds /\ ds[jds[i]] = w.immutables[i]
    <2> TAKE i \in DOMAIN jds
    <2>1. CASE i \in DOMAIN ids
      <3>1. jds[i] = ids[i] /\ w.immutables[i] = v.immutables[i]
        BY <1>2, <2>1
      <3> QED
        BY <2>1, <3>1 DEF Backed
    <2>2. CASE i \notin DOMAIN ids
      <3>1. i = Len(ids) + 1
        BY <2>2
      <3>2. jds[i] = f /\ w.immutables[i] = SegmentOf(v.mutable)
        BY <1>2, <3>1
      <3> QED
        BY <3>2
    <2> QED
      BY <2>1, <2>2
  <1> HIDE DEF jds
  <1>5. Backed(ds, w, jds)
    BY <1>1, <1>4 DEF Backed
  <1>6. /\ WellFormed(SealedFrom(ds, jds))
        /\ \A id \in Id : LiveStore(SealedFrom(ds, jds))[id]
                            = IF id \in RowIds(w.mutable) THEN NoRow ELSE LiveStore(w)[id]
    <2>1. Stored(ds, w, jds)
      BY <1>1, <1>3, <1>5 DEF Stored
    <2> QED
      BY <2>1, StoredOnDisk
  <1>7. RowIds(w.mutable) = {}
    BY <1>2, EmptyMutableFacts DEF RowIds
  <1> QED
    BY <1>1, <1>5, <1>6, <1>7 DEF w, jds

(* The segments of each name once the new ones are in the manifest. *)
Longer(n) ==
    IF coll[n] = NoObj THEN <<>>
    ELSE IF coll[n] \in DOMAIN fresh THEN Append(objs[coll[n]].segIds, fresh[coll[n]])
    ELSE objs[coll[n]].segIds

LEMMA FlushedOnDisk ==
    ASSUME IInv, Held, pc \in {"flush_publish", "flush_reset"}, NEW n \in Name
    PROVE  /\ WellFormed(SealedFrom(dirs, Longer(n)))
           /\ \A id \in Id : LiveStore(SealedFrom(dirs, Longer(n)))[id] = InMemory(n)[id]
  <1>1. CASE coll[n] = NoObj
    BY <1>1, NothingSealed DEF Longer, InMemory
  <1>2. CASE coll[n] # NoObj
    <2> DEFINE x == objs[coll[n]]
    <2>1. /\ coll[n] \in DOMAIN objs /\ x.name = n
          /\ x.view \in View /\ x.segIds \in Seq(Nat) /\ Len(x.segIds) = Len(x.view.immutables)
          /\ WellFormed(x.view) /\ Backed(dirs, x.view, x.segIds)
          /\ InMemory(n) = LiveStore(x.view)
      BY <1>2, HeldFacts
    <2>2. CASE coll[n] \in DOMAIN fresh
      <3>1. fresh[coll[n]] \in DOMAIN dirs /\ fresh[coll[n]] \in Nat
            /\ dirs[fresh[coll[n]]] = SegmentOf(x.view.mutable)
        BY <2>2 DEF IInv, Ids, Types, Held
      <3>2. Longer(n) = Append(x.segIds, fresh[coll[n]])
        BY <1>2, <2>2 DEF Longer
      <3> HIDE DEF x
      <3>3. /\ WellFormed(SealedFrom(dirs, Append(x.segIds, fresh[coll[n]])))
            /\ \A id \in Id : LiveStore(SealedFrom(dirs, Append(x.segIds, fresh[coll[n]])))[id]
                                = LiveStore(x.view)[id]
        BY <2>1, <3>1, FlushedBacked
      <3> QED
        BY <2>1, <3>2, <3>3
    <2>3. CASE coll[n] \notin DOMAIN fresh
      <3>1. IsEmpty(x.view.mutable)
        <4>1. DOMAIN fresh = Flushed
          BY DEF IInv, Phases
        <4> QED
          BY <2>1, <2>3, <4>1 DEF Flushed, IsCurrent
      <3>2. Longer(n) = x.segIds
        BY <1>2, <2>3 DEF Longer
      <3> HIDE DEF x
      <3>3. /\ WellFormed(SealedFrom(dirs, x.segIds))
            /\ \A id \in Id : LiveStore(SealedFrom(dirs, x.segIds))[id]
                                = IF id \in RowIds(x.view.mutable) THEN NoRow ELSE LiveStore(x.view)[id]
        <4>1. Stored(dirs, x.view, x.segIds)
          BY <2>1 DEF Stored
        <4> QED
          BY <4>1, StoredOnDisk
      <3> QED
        BY <2>1, <3>1, <3>2, <3>3 DEF IsEmpty
    <2> QED
      BY <2>2, <2>3
  <1> QED
    BY <1>1, <1>2

LEMMA FlushWriteRecovers ==
    ASSUME IInv, IInv', Recovers, excused = {}, FlushWrite
    PROVE  Recovers'
  <1> DEFINE IdOf(o) == nextSegId + Cardinality({p \in Flushed : p < o})
             ObjOf(d) == CHOOSE o \in Flushed : IdOf(o) = d
  <1>1. /\ pc = "ready" /\ pc' = "flush_publish"
        /\ fresh' = [o \in Flushed |-> IdOf(o)]
        /\ dirs' = [d \in DOMAIN dirs \cup {IdOf(o) : o \in Flushed} |->
                      IF d < nextSegId THEN dirs[d] ELSE SegmentOf(objs[ObjOf(d)].view.mutable)]
        /\ UNCHANGED <<manifest, walFile, objs, coll, nextLsn, op, target, todo, old, records, history>>
    BY DEF FlushWrite
  <1>2. Kept /\ Logged /\ Held /\ OnTrack /\ ~Stale
        /\ \A n \in Name : coll[n] # NoObj => Listed(n) = objs[coll[n]].segIds
    BY <1>1, ExcusedFacts, SettledFacts DEF Recovers
  <1>3. \A d \in DOMAIN dirs : d < nextSegId
    BY <1>1, SettledFacts
  <1> HIDE DEF IdOf, ObjOf
  <1>4. \A d \in DOMAIN dirs : d \in DOMAIN dirs' /\ dirs'[d] = dirs[d]
    BY <1>1, <1>3
  <1>5. /\ Kept' /\ promised' = promised
        /\ \A n \in Name : Entry(n)' = Entry(n) /\ InMemory(n)' = InMemory(n)
    <2>1. promised' = promised
      BY <1>1 DEF history
    <2>2. \A d \in Named : d \in DOMAIN dirs' /\ dirs'[d] = dirs[d]
      BY <1>2, <1>4 DEF Kept
    <2> QED
      BY <1>1, <1>2, <2>1, <2>2, KeptSame DEF InMemory
  <1>6. Rest = <<>> /\ records = <<>>
    BY <1>1, <1>2, RestIs
  <1>7. OnTrack' /\ Logged'
    <2>1. Rest' = Rest
      BY <1>1, <1>6, NothingLeft
    <2>2. \A i \in DOMAIN walFile' : walFile'[i].lsn < nextLsn'
      BY <1>1, <1>2 DEF Logged
    <2> QED
      BY <1>1, <1>2, <1>5, <1>6, <2>1, <2>2, TrackSame, LoggedQuiet
  <1>8. ASSUME NEW o \in DOMAIN fresh' PROVE dirs'[fresh'[o]] = SegmentOf(objs'[o].view.mutable)
    <2>1. o \in Flushed /\ fresh'[o] = IdOf(o)
      BY <1>1, <1>8
    <2>2. \A p \in Flushed : IdOf(p) = IdOf(o) => p = o
      <3>1. DOMAIN fresh' = Flushed /\ \A p \in Flushed : fresh'[p] = IdOf(p)
        BY <1>1
      <3>2. \A p, q \in DOMAIN fresh' : fresh'[p] = fresh'[q] => p = q
        BY DEF IInv, Ids
      <3> QED
        BY <2>1, <3>1, <3>2
    <2>3. ObjOf(IdOf(o)) = o
      BY <2>1, <2>2 DEF ObjOf
    <2>4. IdOf(o) \in DOMAIN dirs \cup {IdOf(p) : p \in Flushed}
      BY <2>1
    <2>5. ~(IdOf(o) < nextSegId)
      <3>1. IsFiniteSet(Flushed)
        <4>1. DOMAIN objs = 1..Len(objs) /\ Len(objs) \in Nat
          BY StateFacts
        <4>2. Flushed \subseteq 1..Len(objs) /\ IsFiniteSet(1..Len(objs))
          BY <4>1, FS_Interval DEF Flushed
        <4> QED
          BY <4>2, FS_Subset
      <3>2. Cardinality({p \in Flushed : p < o}) \in Nat
        BY <3>1, FS_Subset, FS_CardinalityType
      <3>3. nextSegId \in Nat
        BY DEF IInv, Types
      <3> QED
        BY <3>2, <3>3 DEF IdOf
    <2> QED
      BY <1>1, <2>1, <2>3, <2>4, <2>5
  <1>9. Held'
    <2>1. ASSUME NEW n \in Name, coll[n] # NoObj
          PROVE  Backed(dirs', objs[coll[n]].view, objs[coll[n]].segIds)
      <3>1. Backed(dirs, objs[coll[n]].view, objs[coll[n]].segIds)
        BY <1>2, <2>1 DEF Held
      <3>2. \A i \in DOMAIN objs[coll[n]].segIds : objs[coll[n]].segIds[i] \in DOMAIN dirs
        BY <3>1 DEF Backed
      <3> QED
        BY <1>4, <3>1, <3>2, BackedStill
    <2> QED
      BY <1>1, <1>8, <2>1 DEF Held
  <1> QED
    BY <1>1, <1>5, <1>7, <1>9 DEF Recovers

LEMMA FlushPublishRecovers ==
    ASSUME IInv, IInv', Recovers, excused = {}, FlushPublish
    PROVE  Recovers'
  <1>1. /\ pc = "flush_publish" /\ pc' = "flush_reset"
        /\ manifest' = [floor |-> nextLsn - 1,
                        colls |-> [n \in Name |->
                          IF coll[n] \in DOMAIN fresh
                            THEN [Entry(n) EXCEPT !.segments = Append(@, fresh[coll[n]])]
                            ELSE Entry(n)]]
        /\ UNCHANGED <<walFile, dirs, objs, coll, nextSegId, nextLsn, op, target, todo, fresh, old,
                       records, history>>
    BY DEF FlushPublish
  <1>2. Kept /\ Logged /\ Held /\ OnTrack /\ ~Stale /\ ~Stale' /\ Known /\ Known' /\ Mirror'
    BY <1>1, ExcusedFacts DEF Recovers, Stale, history, IInv, Up
  <1>3. Rest = <<>> /\ records = <<>>
    BY <1>1, <1>2, RestIs
  <1>4. promised' = promised /\ \A n \in Name : InMemory(n)' = InMemory(n)
    BY <1>1 DEF history, InMemory
  <1>5. Pending' = <<>>
    <2>1. walFile \in Seq(LogRecord) /\ nextLsn \in Nat /\ nextLsn - 1 \in Nat
      BY <1>1 DEF IInv, Types
    <2>2. \A i \in DOMAIN walFile : walFile[i].lsn <= nextLsn - 1
      BY <1>2, <2>1, RecordFacts DEF Logged
    <2>3. manifest'.floor = nextLsn - 1
      BY <1>1
    <2> QED
      BY <1>1, <2>1, <2>2, <2>3, AllSkipped DEF Pending
  <1>6. \A n \in Name : Entry(n)'.dim = Entry(n).dim
    BY <1>1, <1>2, NoEntryFacts DEF Known
  <1>7. \A n \in Name : Listed(n)' = Longer(n)
    <2> TAKE n \in Name
    <2>1. CASE coll[n] = NoObj
      <3>1. Entry(n)' = NoEntry
        BY <1>1, <1>2, <2>1 DEF Known
      <3> QED
        BY <2>1, <3>1, NoEntryFacts DEF Listed, SegmentsOf, Entry, Longer
    <2>2. CASE coll[n] # NoObj
      BY <1>1, <1>2, <2>2 DEF Mirror, Longer
    <2> QED
      BY <2>1, <2>2
  <1>8. \A n \in Name : /\ WellFormed(DiskView(n)')
                        /\ \A id \in Id : OnDisk(n)'[id] = InMemory(n)[id]
    <2> TAKE n \in Name
    <2>1. DiskView(n)' = SealedFrom(dirs, Longer(n))
      BY <1>1, <1>7 DEF DiskView
    <2>2. /\ WellFormed(SealedFrom(dirs, Longer(n)))
          /\ \A id \in Id : LiveStore(SealedFrom(dirs, Longer(n)))[id] = InMemory(n)[id]
      BY <1>1, <1>2, FlushedOnDisk
    <2> QED
      BY <2>1, <2>2 DEF OnDisk
  <1>9. \A n \in Name : /\ promised[n].dim = Entry(n).dim
                        /\ \A id \in Id : promised[n].store[id] = InMemory(n)[id]
    BY <1>2, <1>3, TrackEnds
  <1>10. Kept'
    <2>1. Named' \subseteq DOMAIN dirs'
      BY <1>2 DEF Mirror
    <2> QED
      BY <1>2, <1>4, <1>5, <1>6, <1>8, <1>9, <2>1, KeptFlushed
  <1>11. OnTrack' /\ Logged'
    <2>1. Rest' = Rest
      BY <1>1, <1>3, NothingLeft
    <2>2. \A i \in DOMAIN walFile' : walFile'[i].lsn < nextLsn'
      BY <1>1, <1>2 DEF Logged
    <2> QED
      BY <1>1, <1>2, <1>3, <1>4, <1>6, <2>1, <2>2, TrackSame, LoggedQuiet
  <1>12. Held'
    BY <1>1, <1>2 DEF Held
  <1> QED
    BY <1>1, <1>10, <1>11, <1>12 DEF Recovers

LEMMA FlushResetRecovers ==
    ASSUME IInv, IInv', Recovers, excused = {}, FlushReset
    PROVE  Recovers'
  <1>1. /\ pc = "flush_reset" /\ pc' = "ready"
        /\ walFile' = <<>>
        /\ objs' = [o \in DOMAIN objs |->
                      IF o \in DOMAIN fresh
                        THEN [objs[o] EXCEPT !.view = ApplyFlush(@, dirs[fresh[o]]),
                                             !.segIds = Append(@, fresh[o])]
                        ELSE objs[o]]
        /\ fresh' = <<>>
        /\ UNCHANGED <<manifest, dirs, coll, nextSegId, nextLsn, op, target, todo, old, records, history>>
    BY DEF FlushReset
  <1>2. Kept /\ Logged /\ Held /\ OnTrack /\ ~Stale /\ Known /\ Mirror
    BY <1>1, ExcusedFacts DEF Recovers, Up
  <1>3. Rest = <<>> /\ records = <<>>
    BY <1>1, <1>2, RestIs
  <1>4. promised' = promised /\ Named' = Named
        /\ \A n \in Name : Listed(n)' = Listed(n) /\ Entry(n)' = Entry(n)
    BY <1>1 DEF history, Named, Listed, Entry
  <1>5. Pending' = <<>>
    <2>1. walFile' \in Seq(LogRecord) /\ manifest'.floor \in Nat
      BY <1>1, StateFacts DEF IInv, Types
    <2>3. walFile' = <<>>
      BY <1>1
    <2>2. \A i \in DOMAIN walFile' : walFile'[i].lsn <= manifest'.floor
      BY <2>3
    <2> QED
      BY <2>1, <2>2, AllSkipped DEF Pending
  <1>6. ASSUME NEW n \in Name, coll[n] # NoObj
        PROVE  /\ Backed(dirs, objs'[coll[n]].view, objs'[coll[n]].segIds)
               /\ LiveStore(objs'[coll[n]].view) = LiveStore(objs[coll[n]].view)
    <2> DEFINE x == objs[coll[n]]
    <2>1. /\ coll[n] \in DOMAIN objs /\ x.name = n
          /\ x.view \in View /\ x.segIds \in Seq(Nat) /\ Len(x.segIds) = Len(x.view.immutables)
          /\ WellFormed(x.view) /\ Backed(dirs, x.view, x.segIds)
      BY <1>2, <1>6, HeldFacts
    <2>2. CASE coll[n] \in DOMAIN fresh
      <3>1. fresh[coll[n]] \in DOMAIN dirs /\ fresh[coll[n]] \in Nat
            /\ dirs[fresh[coll[n]]] = SegmentOf(x.view.mutable)
        BY <1>2, <2>2 DEF IInv, Ids, Types, Held
      <3> DEFINE f == fresh[coll[n]]
      <3>2. objs'[coll[n]] = [x EXCEPT !.view = ApplyFlush(@, dirs[f]), !.segIds = Append(@, f)]
        BY <1>1, <2>1, <2>2
      <3>3. x = [name |-> x.name, dim |-> x.dim, view |-> x.view, segIds |-> x.segIds]
        BY <2>1, StateFacts, ObjectFacts DEF Object
      <3> HIDE DEF x, f
      <3>4. objs'[coll[n]].view = ApplyFlush(x.view, dirs[f]) /\ objs'[coll[n]].segIds = Append(x.segIds, f)
        BY <3>2, <3>3
      <3>5. /\ Backed(dirs, ApplyFlush(x.view, dirs[f]), Append(x.segIds, f))
            /\ LiveStore(ApplyFlush(x.view, dirs[f])) = LiveStore(x.view)
        BY <2>1, <3>1, FlushedBacked DEF f
      <3> QED
        BY <3>4, <3>5 DEF x
    <2>3. CASE coll[n] \notin DOMAIN fresh
      BY <1>1, <2>1, <2>3
    <2> QED
      BY <2>2, <2>3
  <1>7. \A n \in Name : InMemory(n)' = InMemory(n)
    BY <1>1, <1>6 DEF InMemory
  <1>8. \A n \in Name : Listed(n) = Longer(n)
    <2> TAKE n \in Name
    <2>1. CASE coll[n] = NoObj
      <3>1. Entry(n) = NoEntry
        BY <1>2, <2>1 DEF Known
      <3> QED
        BY <2>1, <3>1, NoEntryFacts DEF Listed, SegmentsOf, Entry, Longer
    <2>2. CASE coll[n] # NoObj
      BY <1>1, <1>2, <2>2 DEF Mirror, Longer
    <2> QED
      BY <2>1, <2>2
  <1>9. \A n \in Name : /\ WellFormed(DiskView(n)')
                        /\ \A id \in Id : OnDisk(n)'[id] = InMemory(n)[id]
    <2> TAKE n \in Name
    <2>1. DiskView(n)' = SealedFrom(dirs, Longer(n))
      BY <1>1, <1>4, <1>8 DEF DiskView
    <2>2. /\ WellFormed(SealedFrom(dirs, Longer(n)))
          /\ \A id \in Id : LiveStore(SealedFrom(dirs, Longer(n)))[id] = InMemory(n)[id]
      BY <1>1, <1>2, FlushedOnDisk
    <2> QED
      BY <2>1, <2>2 DEF OnDisk
  <1>10. \A n \in Name : /\ promised[n].dim = Entry(n).dim
                         /\ \A id \in Id : promised[n].store[id] = InMemory(n)[id]
    BY <1>2, <1>3, TrackEnds
  <1>11. Kept'
    <2>1. Named' \subseteq DOMAIN dirs'
      BY <1>1, <1>2, <1>4 DEF Kept
    <2> QED
      BY <1>2, <1>4, <1>5, <1>9, <1>10, <2>1, KeptFlushed
  <1>12. OnTrack' /\ Logged'
    <2>1. Rest' = Rest
      BY <1>1, <1>3, NothingLeft
    <2>2. \A i \in DOMAIN walFile' : walFile'[i].lsn < nextLsn'
      <3>1. walFile' = <<>>
        BY <1>1
      <3> QED
        BY <3>1
    <2> QED
      BY <1>1, <1>2, <1>3, <1>4, <1>7, <2>1, <2>2, TrackSame, LoggedQuiet
  <1>13. Held'
    <2>1. fresh' = <<>>
      BY <1>1
    <2>2. DOMAIN fresh' = {}
      BY <2>1
    <2> QED
      BY <1>1, <1>6, <2>2 DEF Held
  <1> QED
    BY <1>1, <1>11, <1>12, <1>13 DEF Recovers

-----------------------------------------------------------------------------
(* compact_locked. *)

LEMMA CompactedBacked ==
    ASSUME NEW v \in View, WellFormed(v), NEW ds, NEW es, NEW new,
           ~IsEmpty(Merged(v)) => new \in DOMAIN es /\ es[new] = SegmentOf(Merged(v))
    PROVE  Backed(es, ApplyCompact(v), IF IsEmpty(Merged(v)) THEN <<>> ELSE <<new>>)
  <1> DEFINE ids == IF IsEmpty(Merged(v)) THEN <<>> ELSE <<new>>
  <1>1. WellFormed(ApplyCompact(v))
    BY CompactEffect
  <1>2. \A i \in DOMAIN ids : ids[i] \in DOMAIN es /\ es[ids[i]] = ApplyCompact(v).immutables[i]
    BY DEF ApplyCompact
  <1> QED
    BY <1>1, <1>2 DEF Backed

LEMMA CompactWriteRecovers ==
    ASSUME IInv, IInv', Recovers, excused' = {}, NEW o \in DOMAIN objs, CompactWrite(o)
    PROVE  Recovers'
  <1> DEFINE x == objs[o]
             merged == Merged(x.view)
             ids == IF IsEmpty(merged) THEN <<>> ELSE <<nextSegId>>
             w == ApplyCompact(x.view)
  <1>1. /\ pc = "ready" /\ pc' = "compact_publish" /\ target' = o
        /\ objs' = [objs EXCEPT ![o].view = ApplyCompact(@), ![o].segIds = ids]
        /\ dirs' = [d \in DOMAIN dirs \cup ToSet(ids) |->
                      IF d \in ToSet(ids) THEN SegmentOf(merged) ELSE dirs[d]]
        /\ excused' = excused \cup IF IsCurrent(o) THEN {} ELSE {"stale"}
        /\ UNCHANGED <<manifest, walFile, coll, nextLsn, op, todo, fresh, records, promised, creates,
                       crashes>>
    BY DEF CompactWrite
  <1>2. excused = {} /\ IsCurrent(o)
    BY <1>1
  <1>3. Kept /\ Logged /\ Held /\ OnTrack /\ ~Stale /\ DOMAIN fresh = {}
        /\ \A m \in Name : coll[m] # NoObj => Listed(m) = objs[coll[m]].segIds
    BY <1>1, <1>2, ExcusedFacts, SettledFacts DEF Recovers
  <1>4. \A d \in DOMAIN dirs : d < nextSegId
    BY <1>1, SettledFacts
  <1>5. nextSegId \in Nat
    BY DEF IInv, Types
  <1>6. x.name \in Name /\ o # NoObj /\ coll[x.name] = o /\ objs \in Seq(CollObject)
        /\ x = [name |-> x.name, dim |-> x.dim, view |-> x.view, segIds |-> x.segIds]
    BY <1>2, StateFacts, ObjectFacts DEF IsCurrent, Object
  <1> PICK n \in Name : n = x.name
    BY <1>6
  <1>7. x.view \in View /\ WellFormed(x.view) /\ InMemory(n) = LiveStore(x.view)
    BY <1>3, <1>6, HeldFacts
  <1>8. nextSegId \notin DOMAIN dirs
    BY <1>4, <1>5
  <1>9. ToSet(ids) = IF IsEmpty(merged) THEN {} ELSE {nextSegId}
    BY DEF ToSet
  <1>10. /\ \A d \in DOMAIN dirs : d \in DOMAIN dirs' /\ dirs'[d] = dirs[d]
         /\ ~IsEmpty(merged) => nextSegId \in DOMAIN dirs' /\ dirs'[nextSegId] = SegmentOf(merged)
    <2> HIDE DEF ids, merged
    <2> QED
      BY <1>1, <1>8, <1>9
  <1>11. Backed(dirs', w, ids) /\ LiveStore(w) = LiveStore(x.view) /\ w.mutable = EmptyMutable
    <2>1. Backed(dirs', w, ids)
      <3> HIDE DEF x
      <3> QED
        BY <1>7, <1>10, CompactedBacked
    <2>2. LiveStore(w) = LiveStore(x.view)
      BY <1>7, CompactEffect
    <2> QED
      BY <2>1, <2>2 DEF ApplyCompact
  <1>12. /\ objs'[o].view = w /\ objs'[o].segIds = ids
         /\ \A p \in DOMAIN objs : p # o => objs'[p] = objs[p]
    <2>1. objs' = [objs EXCEPT ![o] = [x EXCEPT !.view = w, !.segIds = ids]]
      BY <1>1
    <2> HIDE DEF w, ids, x
    <2>2. objs'[o] = [x EXCEPT !.view = w, !.segIds = ids]
          /\ \A p \in DOMAIN objs : p # o => objs'[p] = objs[p]
      BY <1>6, <2>1
    <2> QED
      BY <1>6, <2>2
  <1> HIDE DEF w, ids
  <1>13. \A m \in Name : m # n /\ coll[m] # NoObj => /\ coll[m] # o /\ coll[m] \in DOMAIN objs
                                                      /\ objs'[coll[m]] = objs[coll[m]]
    BY <1>6, <1>12, StateFacts
  <1>14. \A m \in Name : InMemory(m)' = InMemory(m)
    <2>1. InMemory(n)' = InMemory(n)
      BY <1>1, <1>6, <1>7, <1>11, <1>12 DEF InMemory
    <2>2. \A m \in Name : m # n => InMemory(m)' = InMemory(m)
      BY <1>1, <1>13 DEF InMemory
    <2> QED
      BY <2>1, <2>2
  <1>15. Kept' /\ \A m \in Name : Entry(m)' = Entry(m)
    <2>1. \A d \in Named : d \in DOMAIN dirs' /\ dirs'[d] = dirs[d]
      BY <1>3, <1>10 DEF Kept
    <2> QED
      BY <1>1, <1>3, <2>1, KeptSame
  <1>16. OnTrack' /\ Logged'
    <2>1. Rest = <<>> /\ records = <<>>
      BY <1>1, <1>3, RestIs
    <2>2. Rest' = Rest
      BY <1>1, <2>1, NothingLeft
    <2>3. \A i \in DOMAIN walFile' : walFile'[i].lsn < nextLsn'
      BY <1>1, <1>3 DEF Logged
    <2> QED
      BY <1>1, <1>3, <1>14, <1>15, <2>1, <2>2, <2>3, TrackSame, LoggedQuiet
  <1>17. Held'
    <2>1. ASSUME NEW m \in Name, coll[m] # NoObj
          PROVE  Backed(dirs', objs'[coll[m]].view, objs'[coll[m]].segIds)
      <3>1. CASE m = n
        BY <1>6, <1>11, <1>12, <3>1
      <3>2. CASE m # n
        <4>1. Backed(dirs, objs[coll[m]].view, objs[coll[m]].segIds)
          BY <1>3, <2>1 DEF Held
        <4>2. \A i \in DOMAIN objs[coll[m]].segIds : objs[coll[m]].segIds[i] \in DOMAIN dirs
          BY <4>1 DEF Backed
        <4>3. Backed(dirs', objs[coll[m]].view, objs[coll[m]].segIds)
          BY <1>10, <4>1, <4>2, BackedStill
        <4> QED
          BY <1>13, <2>1, <3>2, <4>3
      <3> QED
        BY <3>1, <3>2
    <2>2. IsEmpty(objs'[target'].view.mutable)
      <3>1. RowIds(EmptyMutable) = {}
        BY EmptyMutableFacts DEF RowIds
      <3> QED
        BY <1>1, <1>11, <1>12, <3>1 DEF IsEmpty
    <2> QED
      BY <1>1, <1>3, <2>1, <2>2 DEF Held
  <1> QED
    BY <1>1, <1>15, <1>16, <1>17 DEF Recovers

LEMMA CompactPublishRecovers ==
    ASSUME IInv, IInv', Recovers, excused = {}, CompactPublish
    PROVE  Recovers'
  <1> DEFINE x == objs[target]
  <1>0. pc = "compact_publish" /\ target \in DOMAIN objs /\ DOMAIN fresh = {}
    BY DEF CompactPublish, IInv, Phases
  <1>1. x.name \in Name /\ target # NoObj
    BY <1>0, StateFacts, ObjectFacts
  <1> PICK n \in Name : n = x.name
    BY <1>1
  <1>2. Kept /\ Logged /\ Held /\ OnTrack /\ ~Stale /\ Known /\ Mirror
    BY <1>0, ExcusedFacts DEF Recovers, Up
  <1>3. coll[n] = target /\ coll[n] # NoObj /\ Entry(n) # NoEntry
    BY <1>0, <1>1, <1>2 DEF Mirror, Target, Known
  <1>4. /\ manifest' = [manifest EXCEPT !.colls[n].segments = x.segIds]
        /\ Finish \/ (pc' = "clean" /\ UNCHANGED records)
        /\ UNCHANGED <<walFile, dirs, objs, coll, nextSegId, nextLsn, op, target, todo, fresh, history>>
    BY <1>3 DEF CompactPublish
  <1>5. Rest = <<>> /\ records = <<>>
    BY <1>0, <1>2, RestIs
  <1>6. pc' \in {"ready", "clean"} /\ records' = <<>>
    BY <1>4, <1>5 DEF Finish
  <1>7. ~Stale' /\ promised' = promised /\ Mirror'
    <2>1. ~Stale' /\ promised' = promised
      BY <1>2, <1>4 DEF Stale, history
    <2> QED
      BY <1>6, <2>1 DEF IInv, Up
  <1>8. /\ \A m \in Name : m # n => Entry(m)' = Entry(m) /\ Listed(m)' = Listed(m)
        /\ Entry(n)'.dim = Entry(n).dim /\ manifest'.floor = manifest.floor
        /\ Listed(n)' = x.segIds
    <2>1. Entry(n) = [dim |-> Entry(n).dim, segments |-> Entry(n).segments]
      BY <1>3, StateFacts DEF ManifestEntry
    <2>2. /\ manifest.colls \in Entries
          /\ manifest = [floor |-> manifest.floor, colls |-> manifest.colls]
      BY StateFacts
    <2> HIDE DEF x
    <2>3. manifest'.colls = [manifest.colls EXCEPT ![n].segments = x.segIds]
          /\ manifest'.floor = manifest.floor
      BY <1>4, <2>2
    <2>4. manifest'.colls[n] = [manifest.colls[n] EXCEPT !.segments = x.segIds]
          /\ \A m \in Name : m # n => manifest'.colls[m] = manifest.colls[m]
      BY <2>2, <2>3 DEF Entries
    <2>5. Entry(n)' = [Entry(n) EXCEPT !.segments = x.segIds] /\ \A m \in Name : m # n => Entry(m)' = Entry(m)
      BY <2>4 DEF Entry
    <2>6. Entry(n)'.dim = Entry(n).dim /\ Entry(n)'.segments = x.segIds
      BY <2>1, <2>5
    <2>7. \A m \in Name : Listed(m)' = Entry(m)'.segments /\ Listed(m) = Entry(m).segments
      BY DEF Listed, SegmentsOf, Entry
    <2>8. \A m \in Name : m # n => Listed(m)' = Listed(m)
      BY <2>5, <2>7
    <2>9. Listed(n)' = x.segIds
      BY <2>6, <2>7
    <2> QED
      BY <2>3, <2>5, <2>6, <2>8, <2>9
  <1>9. Pending' = Pending /\ \A m \in Name : InMemory(m)' = InMemory(m)
    BY <1>4, <1>8 DEF Pending, InMemory
  <1>10. \A m \in Name : m # n => DiskView(m)' = DiskView(m) /\ OnDisk(m)' = OnDisk(m)
    BY <1>4, <1>8 DEF DiskView, OnDisk
  <1>11. WellFormed(DiskView(n)') /\ \A id \in Id : OnDisk(n)'[id] = InMemory(n)[id]
    <2>1. DiskView(n)' = SealedFrom(dirs, x.segIds)
      BY <1>4, <1>8 DEF DiskView
    <2>2. /\ x.view \in View /\ x.segIds \in Seq(Nat) /\ Len(x.segIds) = Len(x.view.immutables)
          /\ Backed(dirs, x.view, x.segIds)
          /\ InMemory(n) = LiveStore(x.view)
      BY <1>2, <1>3, HeldFacts
    <2>3. RowIds(x.view.mutable) = {}
      BY <1>0, <1>2 DEF Held, IsEmpty
    <2> HIDE DEF x
    <2>4. /\ WellFormed(SealedFrom(dirs, x.segIds))
          /\ \A id \in Id : LiveStore(SealedFrom(dirs, x.segIds))[id]
                              = IF id \in RowIds(x.view.mutable) THEN NoRow ELSE LiveStore(x.view)[id]
      <3>1. Stored(dirs, x.view, x.segIds)
        BY <2>2 DEF Stored
      <3> QED
        BY <3>1, StoredOnDisk
    <2> QED
      BY <2>1, <2>2, <2>3, <2>4 DEF OnDisk
  <1>12. Kept'
    <2>1. ASSUME NEW m \in Name, NEW id \in Id
          PROVE  Leads(Pending', m, id, OnDisk(m)'[id], promised'[m].store[id])
      <3>1. Leads(Pending, m, id, OnDisk(m)[id], promised[m].store[id])
        BY <1>2 DEF Kept
      <3>2. CASE m # n
        BY <1>7, <1>9, <1>10, <3>1, <3>2
      <3>3. CASE m = n
        <4>1. promised[n].store[id] = InMemory(n)[id]
          BY <1>2, <1>5, TrackEnds
        <4>2. Leads(Pending, n, id, promised[n].store[id], promised[n].store[id])
          BY <3>1, <3>3, LeadsOnto
        <4> QED
          BY <1>7, <1>9, <1>11, <3>3, <4>1, <4>2
      <3> QED
        BY <3>2, <3>3
    <2>2. \A m \in Name : /\ WellFormed(DiskView(m)')
                          /\ LogOf(Pending', m, promised'[m].dim)
                          /\ StartsAt(Pending', m, Entry(m)'.dim, promised'[m].dim)
      BY <1>2, <1>7, <1>8, <1>9, <1>10, <1>11 DEF Kept
    <2>3. Named' \subseteq DOMAIN dirs'
      BY <1>7 DEF Mirror
    <2>4. promised' \in [Name -> [dim : {0} \cup Dim, store : Rows]]
      BY <1>2, <1>7 DEF Kept
    <2> QED
      BY <2>1, <2>2, <2>3, <2>4 DEF Kept
  <1>13. OnTrack' /\ Logged'
    <2>1. Rest' = Rest
      BY <1>5, <1>6, NothingLeft
    <2>2. \A i \in DOMAIN walFile' : walFile'[i].lsn < nextLsn'
      BY <1>2, <1>4 DEF Logged
    <2> QED
      BY <1>2, <1>6, <1>7, <1>8, <1>9, <2>1, <2>2, TrackSame, LoggedQuiet
  <1>14. Held'
    BY <1>0, <1>2, <1>4, <1>6 DEF Held
  <1> QED
    BY <1>6, <1>12, <1>13, <1>14 DEF Recovers

-----------------------------------------------------------------------------
(* The end of the process, open, and the replay. *)

LEMMA LoseMemoryRecovers ==
    ASSUME IInv, Recovers, LoseMemory
    PROVE  Recovers'
  <1>1. pc' = "down" /\ UNCHANGED <<manifest, walFile, dirs, promised>>
    BY DEF LoseMemory, disk
  <1>2. Kept'
    BY <1>1, KeptSame DEF Recovers, Kept
  <1> QED
    BY <1>1, <1>2 DEF Recovers

(* What Open does when the directories are there, as they are. *)
LEMMA OpenLoads ==
    ASSUME IInv, Kept, Open
    PROVE  /\ pc' = "replay"
           /\ nextLsn' = NextLsnAtOpen(walFile, manifest.floor)
           /\ records' = Pending
           /\ \A d \in Named : d \in DOMAIN dirs' /\ dirs'[d] = dirs[d]
           /\ \A n \in Name :
                IF Entry(n) = NoEntry THEN coll'[n] = NoObj
                ELSE /\ coll'[n] # NoObj
                     /\ objs'[coll'[n]].view = DiskView(n)
                     /\ objs'[coll'[n]].segIds = Listed(n)
           /\ UNCHANGED <<manifest, walFile, fresh, promised>>
  <1> DEFINE present == {n \in Name : Entry(n) # NoEntry}
             names == SetToSeq(present)
             used == UNION {ToSet(Entry(n).segments) : n \in Name}
  <1>1. used = Named
    BY DEF Named, NamedIn, SegmentsOf, Entry
  <1>2. used \subseteq DOMAIN dirs
    BY <1>1 DEF Kept
  <1>3. /\ objs' = Loaded(names)
        /\ coll' = [n \in Name |-> PositionIn(names, n)]
        /\ dirs' = [d \in used |-> dirs[d]]
        /\ records' = Pending
        /\ pc' = "replay"
        /\ nextLsn' = NextLsnAtOpen(walFile, manifest.floor)
        /\ UNCHANGED <<manifest, walFile, fresh, promised>>
    BY <1>2 DEF Open, PositionIn, Pending, history
  <1>4. names \in Seq(present) /\ ToSet(names) = present /\ present \subseteq Name
    <2>1. IsFiniteSet(present)
      BY NameAssumption, FS_Subset
    <2> QED
      BY <2>1, SetAsSeq
  <1> HIDE DEF names, used
  <1>5. ASSUME NEW n \in Name, Entry(n) = NoEntry
        PROVE  coll'[n] = NoObj
    <2>1. PositionIn(names, n) = NoObj
      BY <1>4, <1>5, NoPosition DEF NoObj
    <2> QED
      BY <1>3, <2>1
  <1>6. ASSUME NEW n \in Name, Entry(n) # NoEntry
        PROVE  /\ coll'[n] # NoObj
               /\ objs'[coll'[n]].view = DiskView(n)
               /\ objs'[coll'[n]].segIds = Listed(n)
    <2> DEFINE i == PositionIn(names, n)
    <2>1. i \in DOMAIN names /\ names[i] = n
      BY <1>4, <1>6, PositionOf
    <2>2. i # NoObj
      <3>1. DOMAIN names = 1..Len(names)
        BY <1>4
      <3> QED
        BY <2>1, <3>1 DEF NoObj
    <2>3. coll'[n] = i
      BY <1>3
    <2> HIDE DEF i
    <2>4. objs'[i] = Object(n, Entry(n).dim, DiskView(n), Listed(n))
      <3>1. Entry(n).segments = Listed(n)
        BY StateFacts
      <3> QED
        BY <1>3, <2>1, <3>1 DEF Loaded, DiskView, SealedFrom
    <2> HIDE DEF DiskView
    <2>5. objs'[i].view = DiskView(n) /\ objs'[i].segIds = Listed(n)
      BY <2>4 DEF Object
    <2> QED
      BY <2>2, <2>3, <2>5
  <1>7. \A d \in Named : d \in DOMAIN dirs' /\ dirs'[d] = dirs[d]
    BY <1>1, <1>3
  <1> QED
    BY <1>3, <1>5, <1>6, <1>7

LEMMA OpenRecovers ==
    ASSUME IInv, Recovers, excused = {}, Open
    PROVE  Recovers'
  <1>0. pc = "down" /\ DOMAIN fresh = {} /\ Kept
    BY DEF Open, IInv, Phases, Recovers
  <1>1. /\ pc' = "replay"
        /\ nextLsn' = NextLsnAtOpen(walFile, manifest.floor)
        /\ records' = Pending
        /\ \A d \in Named : d \in DOMAIN dirs' /\ dirs'[d] = dirs[d]
        /\ \A n \in Name :
             IF Entry(n) = NoEntry THEN coll'[n] = NoObj
             ELSE /\ coll'[n] # NoObj
                  /\ objs'[coll'[n]].view = DiskView(n)
                  /\ objs'[coll'[n]].segIds = Listed(n)
        /\ UNCHANGED <<manifest, walFile, fresh, promised>>
    BY <1>0, OpenLoads
  <1>2. /\ Kept' /\ Pending' = Pending
        /\ \A n \in Name : Entry(n)' = Entry(n) /\ DiskView(n)' = DiskView(n)
    BY <1>0, <1>1, KeptSame
  <1>3. Logged'
    <2>1. \A i \in DOMAIN walFile' : walFile'[i].lsn < nextLsn'
      <3>1. walFile \in Seq(LogRecord) /\ manifest.floor \in Nat
        BY StateFacts DEF IInv, Types
      <3> QED
        BY <1>1, <3>1, NextLsnIsNew
    <2> QED
      BY <1>1, <1>2, <2>1 DEF Logged
  <1>4. Held'
    <2>1. ASSUME NEW n \in Name, coll'[n] # NoObj
          PROVE  Backed(dirs', objs'[coll'[n]].view, objs'[coll'[n]].segIds)
      <3>1. objs'[coll'[n]].view = DiskView(n) /\ objs'[coll'[n]].segIds = Listed(n)
        BY <1>1, <2>1
      <3>2. WellFormed(DiskView(n))
        BY <1>0 DEF Kept
      <3>3. \A k \in DOMAIN Listed(n) : Listed(n)[k] \in Named
        BY StateFacts DEF ToSet
      <3>4. \A k \in DOMAIN Listed(n) : DiskView(n).immutables[k] = dirs[Listed(n)[k]]
        BY DEF DiskView, SealedFrom
      <3> HIDE DEF DiskView
      <3>5. Backed(dirs', DiskView(n), Listed(n))
        BY <1>1, <3>2, <3>3, <3>4 DEF Backed
      <3> QED
        BY <3>1, <3>5
    <2> QED
      BY <1>0, <1>1, <2>1 DEF Held
  <1>5. \A n \in Name : InMemory(n)' = OnDisk(n)
    <2> TAKE n \in Name
    <2>1. CASE Entry(n) = NoEntry
      <3>1. Listed(n) = <<>>
        BY <2>1, StateFacts, NoEntryFacts
      <3>2. OnDisk(n) = [id \in Id |-> NoRow]
        BY <3>1, NothingSealed DEF OnDisk, DiskView
      <3> QED
        BY <1>1, <2>1, <3>2 DEF InMemory
    <2>2. CASE Entry(n) # NoEntry
      BY <1>1, <2>2 DEF InMemory, OnDisk
    <2> QED
      BY <2>1, <2>2
  <1>6. OnTrack'
    <2>1. Rest' = Pending
      BY <1>1 DEF Rest
    <2>2. ASSUME NEW n \in Name PROVE Playable(Rest', n, Entry(n)'.dim, promised'[n].dim)
      <3>1. LogOf(Pending, n, promised[n].dim) /\ StartsAt(Pending, n, Entry(n).dim, promised[n].dim)
        BY <1>0 DEF Kept
      <3> QED
        BY <1>1, <1>2, <2>1, <3>1, PendingType, Plays
    <2>3. ASSUME NEW n \in Name, NEW id \in Id
          PROVE  Leads(Rest', n, id, InMemory(n)'[id], promised'[n].store[id])
      BY <1>0, <1>1, <1>5, <2>1 DEF Kept
    <2> QED
      BY <2>2, <2>3 DEF OnTrack
  <1> QED
    BY <1>1, <1>2, <1>3, <1>4, <1>6 DEF Recovers

LEMMA ReplayRecordRecovers ==
    ASSUME IInv, Recovers, excused = {}, ReplayRecord
    PROVE  Recovers'
  <1>0. pc = "replay" /\ records # <<>>
    BY DEF ReplayRecord
  <1>1. Kept /\ Logged /\ Held /\ OnTrack /\ Known /\ DOMAIN fresh = {}
    BY <1>0, SettledFacts DEF Recovers
  <1>2. Rest = records /\ records \in Seq(LogRecord)
    BY <1>0, <1>1, RestIs
  <1> PICK r \in Call : r = Head(records).op
    BY <1>0, <1>2, RecordFacts
  <1>3. r.kind \in {"create", "drop", "upsert", "delete"} /\ r.name \in Name
    BY OpKinds
  <1> PICK n \in Name : n = r.name
    BY <1>3
  <1>4. UNCHANGED <<manifest, walFile, dirs, objs, coll, nextLsn, fresh, promised>> /\ op' = r
    BY DEF ReplayRecord, disk, history
  <1>5. coll[n] = NoObj <=> Entry(n).dim = 0
    BY <1>1, StateFacts, NoEntryFacts, DimAssumption DEF Known, ManifestEntry
  <1>6. r.kind \in {"upsert", "delete"} => Entry(n).dim # 0 /\ (r.kind = "upsert" => r.dim = Entry(n).dim)
    <2>1. Playable(records, n, Entry(n).dim, promised[n].dim)
      BY <1>1, <1>2 DEF OnTrack
    <2> QED
      BY <1>0, <1>2, <2>1, HeadPlays
  <1>7. coll[n] # NoObj => /\ coll[n] \in DOMAIN objs /\ objs[coll[n]].name = n
                           /\ objs[coll[n]].dim = Entry(n).dim
    BY <1>1, StateFacts DEF Known
  <1>8. \/ r.kind = "create" /\ coll[n] # NoObj /\ Finish
        \/ /\ r.kind \in {"create", "drop"} /\ pc' = r.kind /\ records' = records
        \/ /\ r.kind \in {"upsert", "delete"} /\ coll[n] # NoObj
           /\ pc' = "apply" /\ target' = coll[n] /\ records' = records
    <2>1. CASE r.kind \in {"create", "drop"}
      BY <2>1 DEF ReplayRecord
    <2>2. CASE r.kind \in {"upsert", "delete"}
      BY <1>5, <1>6, <1>7, <2>2 DEF ReplayRecord
    <2> QED
      BY <1>3, <2>1, <2>2
  <1>9. /\ Kept' /\ Pending' = Pending
        /\ \A m \in Name : Entry(m)' = Entry(m) /\ InMemory(m)' = InMemory(m)
    BY <1>1, <1>4, KeptSame DEF Kept, InMemory
  <1>10. pc' \notin {"failed", "compact_publish"}
    BY <1>3, <1>8 DEF Finish
  <1>11. Held'
    BY <1>1, <1>4, <1>10 DEF Held
  <1>12. CASE r.kind = "create" /\ coll[n] # NoObj /\ Finish
    <2>1. Logged'
      BY <1>1, <1>4, <1>9, <1>12, LoggedSame
    <2>2. Rest' = Tail(Rest)
      BY <1>0, <1>1, <1>12, RestAfter
    <2>3. \A m \in Name : /\ Entry(m).dim = DimAfter(Entry(m).dim, r, m)
                          /\ \A id \in Id : InMemory(m)[id] = RowAfter(InMemory(m)[id], r, m, id)
      BY <1>5, <1>12 DEF DimAfter, RowAfter, Settles
    <2>4. OnTrack'
      BY <1>0, <1>1, <1>2, <1>4, <1>9, <2>2, <2>3, TrackAdvances
    <2> QED
      BY <1>9, <1>10, <1>11, <2>1, <2>4 DEF Recovers
  <1>13. CASE /\ records' = records
              /\ \/ r.kind \in {"create", "drop"} /\ pc' = r.kind
                 \/ /\ r.kind \in {"upsert", "delete"} /\ coll[n] # NoObj
                    /\ pc' = "apply" /\ target' = coll[n]
    <2>1. pc' \in {"create", "drop", "apply"} /\ (pc' = "drop" => r.kind = "drop")
      BY <1>13
    <2>2. Rest' = Rest
      BY <1>0, <1>2, <1>13, <2>1 DEF Rest
    <2>3. OnTrack'
      BY <1>1, <1>4, <1>9, <2>2, TrackSame
    <2>4. Logged'
      <3>1. \E k \in DOMAIN Pending : Pending[k].op = r
        <4>1. 1 \in DOMAIN records /\ records[1].op = r
          BY <1>0, <1>2
        <4> QED
          BY <1>1, <4>1 DEF Logged
      <3>2. pc' = "apply" => objs'[target'].name = op'.name
        BY <1>4, <1>7, <1>13
      <3>3. /\ \A i \in DOMAIN walFile' : walFile'[i].lsn < nextLsn'
            /\ \A i \in DOMAIN records' : \E k \in DOMAIN Pending : Pending[k] = records'[i]
        BY <1>1, <1>4, <1>13 DEF Logged
      <3> QED
        BY <1>4, <1>9, <1>13, <2>1, <3>1, <3>2, <3>3 DEF Logged
    <2> QED
      BY <1>9, <1>10, <1>11, <2>3, <2>4 DEF Recovers
  <1> QED
    BY <1>8, <1>12, <1>13

LEMMA ReplayEndRecovers ==
    ASSUME IInv, Recovers, excused = {}, ReplayEnd
    PROVE  Recovers'
  <1>1. /\ pc = "replay" /\ pc' = "ready" /\ records = <<>>
        /\ UNCHANGED <<manifest, walFile, dirs, objs, coll, nextLsn, fresh, records, promised>>
    BY DEF ReplayEnd, disk, history
  <1>2. Kept /\ Logged /\ Held /\ OnTrack
    BY <1>1 DEF Recovers
  <1>3. /\ Kept' /\ Pending' = Pending
        /\ \A m \in Name : Entry(m)' = Entry(m) /\ InMemory(m)' = InMemory(m)
    BY <1>1, <1>2, KeptSame DEF Kept, InMemory
  <1>4. Rest' = Rest
    BY <1>1 DEF Rest
  <1>5. OnTrack' /\ Held'
    BY <1>1, <1>2, <1>3, <1>4, TrackSame DEF Held
  <1>6. Logged'
    BY <1>1, <1>2 DEF Logged
  <1> QED
    BY <1>1, <1>3, <1>5, <1>6 DEF Recovers

LEMMA StutterRecovers ==
    ASSUME IInv, Recovers, UNCHANGED vars
    PROVE  Recovers'
  <1>1. UNCHANGED <<manifest, walFile, dirs, objs, coll, nextLsn, pc, op, target, fresh, records,
                    promised>>
    BY DEF vars, disk, call, history
  <1>2. Kept /\ (pc # "down" => Logged /\ Held /\ OnTrack) /\ pc # "failed"
    BY DEF Recovers
  <1>3. /\ Kept' /\ Pending' = Pending
        /\ \A m \in Name : Entry(m)' = Entry(m) /\ InMemory(m)' = InMemory(m)
    BY <1>1, <1>2, KeptSame DEF Kept, InMemory
  <1>4. Rest' = Rest
    BY <1>1 DEF Rest
  <1>5. pc # "down" => Logged' /\ Held' /\ OnTrack'
    BY <1>1, <1>2, <1>3, <1>4, TrackSame DEF Held, Logged
  <1> QED
    BY <1>1, <1>2, <1>3, <1>5 DEF Recovers

-----------------------------------------------------------------------------
(* The recovery, as long as the log has not ceased to be replayable. *)

LEMMA InitRecovers == Init => Recovers
  <1> SUFFICES ASSUME Init PROVE Recovers
    OBVIOUS
  <1>1. /\ manifest = [floor |-> 0, colls |-> [n \in Name |-> NoEntry]]
        /\ walFile = <<>> /\ dirs = <<>> /\ coll = [n \in Name |-> NoObj]
        /\ pc = "ready" /\ fresh = <<>> /\ records = <<>> /\ promised = [n \in Name |-> NoColl]
    BY DEF Init
  <1>2. IInv
    BY InitHolds
  <1>3. DOMAIN walFile = {} /\ DOMAIN records = {} /\ DOMAIN fresh = {}
    BY <1>1
  <1>4. \A n \in Name : Entry(n) = NoEntry /\ Listed(n) = <<>> /\ Entry(n).dim = 0
    BY <1>1, NoEntryFacts DEF Entry, Listed, SegmentsOf
  <1>5. Pending = <<>>
    <2>1. walFile \in Seq(LogRecord) /\ manifest.floor \in Nat
      BY <1>2, StateFacts DEF IInv, Types
    <2> QED
      BY <1>3, <2>1, AllSkipped DEF Pending
  <1>6. \A n \in Name : /\ WellFormed(DiskView(n)) /\ OnDisk(n) = [id \in Id |-> NoRow]
                        /\ InMemory(n) = [id \in Id |-> NoRow]
    BY <1>1, <1>4, NothingSealed DEF DiskView, OnDisk, InMemory
  <1>7. \A n \in Name : promised[n].dim = 0 /\ \A id \in Id : promised[n].store[id] = NoRow
    BY <1>1, NoCollFacts
  <1>8. Kept
    <2>1. Named = {}
      BY <1>4, NoEntryFacts, NamedBy DEF Named, Listed
    <2>2. promised \in [Name -> [dim : {0} \cup Dim, store : Rows]]
      BY <1>1, NoCollFacts
    <2> QED
      BY <1>4, <1>5, <1>6, <1>7, <2>1, <2>2, PlaysNothing, LeadsNothing DEF Kept
  <1>9. Logged
    BY <1>1, <1>3 DEF Logged
  <1>10. Held
    BY <1>1, <1>3 DEF Held
  <1>11. OnTrack
    <2>1. Rest = <<>>
      BY <1>1 DEF Rest
    <2> QED
      BY <1>4, <1>6, <1>7, <2>1, PlaysNothing, LeadsNothing DEF OnTrack
  <1> QED
    BY <1>1, <1>8, <1>9, <1>10, <1>11 DEF Recovers

RecoveryInv == IInv /\ (excused = {} => Recovers)

LEMMA NextRecovers == RecoveryInv /\ [Next]_vars => RecoveryInv'
  <1> SUFFICES ASSUME IInv, excused = {} => Recovers, [Next]_vars, excused' = {}
               PROVE  Recovers'
    BY NextKeeps DEF RecoveryInv
  <1>1. IInv'
    BY NextKeeps
  <1>2. ASSUME NEW name \in Name, NEW dim \in Dim, Create(name, dim) PROVE Recovers'
    <2>1. excused = {}
      BY <1>2 DEF Create
    <2> QED
      BY <1>2, <2>1, CreateRecovers
  <1>3. CASE CreatePublish
    <2>1. excused = {}
      BY <1>3 DEF CreatePublish, history
    <2> QED
      BY <1>3, <2>1, CreatePublishRecovers
  <1>4. ASSUME NEW name \in Name, Drop(name) PROVE Recovers'
    <2>1. excused = {}
      BY <1>4 DEF Drop
    <2> QED
      BY <1>4, <2>1, DropRecovers
  <1>5. CASE DropPublish
    <2>1. excused = {}
      BY <1>5 DEF DropPublish, history
    <2> QED
      BY <1>5, <2>1, DropPublishRecovers
  <1>6. CASE Clean
    <2>1. excused = {}
      BY <1>6 DEF Clean, history
    <2> QED
      BY <1>6, <2>1, CleanRecovers
  <1>7. ASSUME NEW o \in DOMAIN objs, NEW kind \in {"upsert", "delete"}, NEW id \in Id,
               Write(o, kind, {id})
        PROVE  Recovers'
    <2>1. excused = {}
      BY <1>7 DEF Write
    <2> QED
      BY <1>7, <2>1, WriteRecovers
  <1>8. CASE Apply
    <2>1. excused = {}
      BY <1>8 DEF Apply, history
    <2> QED
      BY <1>8, <2>1, ApplyRecovers
  <1>9. CASE RebuildOne
    <2>1. excused = {}
      BY <1>9 DEF RebuildOne, history
    <2> QED
      BY <1>1, <1>9, <2>1, RebuildOneRecovers
  <1>10. CASE FlushWrite
    <2>1. excused = {}
      BY <1>10 DEF FlushWrite, history
    <2> QED
      BY <1>1, <1>10, <2>1, FlushWriteRecovers
  <1>11. CASE FlushPublish
    <2>1. excused = {}
      BY <1>11 DEF FlushPublish, history
    <2> QED
      BY <1>1, <1>11, <2>1, FlushPublishRecovers
  <1>12. CASE FlushReset
    <2>1. excused = {}
      BY <1>12 DEF FlushReset, history
    <2> QED
      BY <1>1, <1>12, <2>1, FlushResetRecovers
  <1>13. ASSUME NEW o \in DOMAIN objs, CompactWrite(o) PROVE Recovers'
    <2>1. excused = {}
      BY <1>13 DEF CompactWrite
    <2> QED
      BY <1>1, <1>13, <2>1, CompactWriteRecovers
  <1>14. CASE CompactPublish
    <2>1. excused = {}
      BY <1>14 DEF CompactPublish, history
    <2> QED
      BY <1>1, <1>14, <2>1, CompactPublishRecovers
  <1>15. CASE Crash \/ Retry
    <2>1. LoseMemory /\ excused = {}
      BY <1>15 DEF Crash, Retry, LoseMemory
    <2> QED
      BY <2>1, LoseMemoryRecovers
  <1>16. CASE Open
    <2>1. excused = {}
      BY <1>16 DEF Open, history
    <2> QED
      BY <1>16, <2>1, OpenRecovers
  <1>17. CASE ReplayRecord
    <2>1. excused = {}
      BY <1>17 DEF ReplayRecord, history
    <2> QED
      BY <1>17, <2>1, ReplayRecordRecovers
  <1>18. CASE ReplayEnd
    <2>1. excused = {}
      BY <1>18 DEF ReplayEnd, history
    <2> QED
      BY <1>18, <2>1, ReplayEndRecovers
  <1>19. CASE Read \/ UNCHANGED vars
    <2>1. UNCHANGED vars /\ excused = {}
      BY <1>19 DEF Read, vars, history
    <2> QED
      BY <2>1, StutterRecovers
  <1> QED
    BY <1>2, <1>3, <1>4, <1>5, <1>6, <1>7, <1>8, <1>9, <1>10, <1>11, <1>12, <1>13, <1>14, <1>15,
       <1>16, <1>17, <1>18, <1>19 DEF Next

(* As long as the log has not ceased to be replayable, the manifest, the   *)
(* directories and the log lead to what was promised, wherever a crash     *)
(* leaves them, and memory with the rest of the call, or of the replay,    *)
(* leads there too.                                                        *)
THEOREM RecoveryHolds == Spec => []RecoveryInv
  <1>1. Init => RecoveryInv
    BY InitHolds, InitRecovers DEF RecoveryInv
  <1> QED
    BY <1>1, NextRecovers, PTL DEF Spec

(* No history of creates, drops, writes, flushes, rebuilds, compactions    *)
(* and crashes leaves a directory that open_inner refuses, unless one of   *)
(* the recorded ways to make the log unreplayable was taken.               *)
THEOREM DirectoriesOpen == Spec => []OpenSucceedsUnlessExcused
  <1>1. RecoveryInv => OpenSucceedsUnlessExcused
    BY DEF RecoveryInv, Recovers, OpenSucceedsUnlessExcused, OpenSucceeds
  <1> QED
    BY <1>1, RecoveryHolds, PTL

(* Between calls and after every recovery each name shows what the calls   *)
(* acknowledged on its current collection made, with the same exceptions.  *)
THEOREM PromisesAreShown == Spec => []ShownUnlessExcused
  <1>1. RecoveryInv => ShownUnlessExcused
    <2> SUFFICES ASSUME RecoveryInv, excused = {}, pc = "ready", NEW n \in Name
                 PROVE  Shown(n) = promised[n]
      BY DEF ShownUnlessExcused, ShowsWhatWasPromised
    <2>1. IInv /\ Kept /\ Logged /\ Held /\ OnTrack /\ Known
      BY SettledFacts DEF RecoveryInv, Recovers
    <2>2. Rest = <<>>
      BY <2>1, RestIs
    <2>3. promised[n].dim = Entry(n).dim /\ \A id \in Id : promised[n].store[id] = InMemory(n)[id]
      BY <2>1, <2>2, TrackEnds
    <2>4. /\ promised[n] = [dim |-> promised[n].dim, store |-> promised[n].store]
          /\ promised[n].store = [id \in Id |-> promised[n].store[id]]
      <3>1. promised[n] \in [dim : {0} \cup Dim, store : Rows]
        BY <2>1 DEF Kept
      <3>2. promised[n] = [dim |-> promised[n].dim, store |-> promised[n].store]
            /\ promised[n].store \in Rows
        BY <3>1
      <3> QED
        BY <3>2 DEF Rows
    <2>5. CASE coll[n] = NoObj
      <3>1. Entry(n).dim = 0 /\ InMemory(n) = [id \in Id |-> NoRow]
        BY <2>1, <2>5, NoEntryFacts DEF Known, InMemory
      <3>2. promised[n].store = [id \in Id |-> NoRow]
        BY <2>3, <2>4, <3>1
      <3> QED
        BY <2>3, <2>4, <2>5, <3>1, <3>2 DEF Shown, NoColl
    <2>6. CASE coll[n] # NoObj
      <3>1. Entry(n).dim = objs[coll[n]].dim
        BY <2>1, <2>6 DEF Known
      <3>2. InMemory(n) = LiveStore(objs[coll[n]].view)
        BY <2>6 DEF InMemory
      <3>3. LiveStore(objs[coll[n]].view) = [id \in Id |-> LiveStore(objs[coll[n]].view)[id]]
        BY DEF LiveStore
      <3>4. promised[n].store = LiveStore(objs[coll[n]].view)
        BY <2>3, <2>4, <3>2, <3>3
      <3> QED
        BY <2>3, <2>4, <2>6, <3>1, <3>4 DEF Shown
    <2> QED
      BY <2>5, <2>6
  <1> QED
    BY <1>1, RecoveryHolds, PTL
=============================================================================
