---------------------------- MODULE FaultsProofs ----------------------------
(***************************************************************************)
(* What holds of Faults for any ids and rows, any operations, any of the   *)
(* I/O calls failing any number of times, and any number of opens: whatever*)
(* failed, the directories that the manifest on disk names are there, and  *)
(* the ids that are handed out are free; and until one of the known ways to*)
(* lose a call is taken, no id has two live rows, in memory or for the next*)
(* open to load.                                                           *)
(***************************************************************************)
EXTENDS Faults, CollViewLemmas

-----------------------------------------------------------------------------
(* Operations and records. *)

LEMMA OpCases ==
    ASSUME NEW o \in Op
    PROVE  \/ o.kind = "create" /\ o = Create
           \/ o.kind = "drop" /\ o = Drop
           \/ o.kind = "upsert" /\ o.batch \in Batch /\ o = [kind |-> "upsert", batch |-> o.batch]
           \/ o.kind = "delete" /\ o.ids \in SUBSET Id
           \/ o.kind = "payload" /\ o.ids \in SUBSET Id /\ o.payload \in OptPayload
  BY DEF Op, Create, Drop

(* The operations on points. *)
IsEdit(o) ==
    \/ o.kind = "upsert" /\ o.batch \in Batch /\ o = [kind |-> "upsert", batch |-> o.batch]
    \/ o.kind = "delete" /\ o.ids \in SUBSET Id
    \/ o.kind = "payload" /\ o.ids \in SUBSET Id /\ o.payload \in OptPayload

LEMMA EditsAre ==
    ASSUME NEW o \in Op, o \notin {Create, Drop}
    PROVE  IsEdit(o)
  BY OpCases DEF IsEdit

LEMMA AfterType ==
    ASSUME NEW s \in Rows \cup {Gone}, NEW o \in Op, (s = Gone) <=> (o = Create)
    PROVE  After(s, o) \in Rows \cup {Gone}
  <1>1. CASE o.kind = "create"
    <2>1. After(s, o) = Empty
      BY <1>1 DEF After
    <2> QED
      BY <2>1 DEF Empty, Rows, OptRow
  <1>2. CASE o.kind = "drop"
    BY <1>2 DEF After
  <1>3. CASE o.kind \notin {"create", "drop"}
    <2>1. s \in Rows
      BY <1>3 DEF Create
    <2>2. CASE o.kind = "upsert" /\ o.batch \in Batch
      <3>1. After(s, o) = [id \in Id |-> IF o.batch[id] # NoRow THEN o.batch[id] ELSE s[id]]
        BY <2>2 DEF After, PS!AfterUpsert
      <3> QED
        BY <2>1, <2>2, <3>1 DEF Batch, Rows
    <2>3. CASE o.kind = "delete" /\ o.ids \in SUBSET Id
      <3>1. After(s, o) = [id \in Id |-> IF id \in o.ids THEN NoRow ELSE s[id]]
        BY <2>3 DEF After, PS!AfterDelete
      <3> QED
        BY <2>1, <3>1 DEF Rows, OptRow
    <2>4. CASE o.kind = "payload" /\ o.ids \in SUBSET Id /\ o.payload \in OptPayload
      <3>1. After(s, o) = [id \in Id |-> IF id \in o.ids /\ s[id] # NoRow
                                           THEN [s[id] EXCEPT !.payload = o.payload] ELSE s[id]]
        BY <2>4 DEF After, PS!AfterSetPayload
      <3>2. \A id \in Id : s[id] # NoRow => [s[id] EXCEPT !.payload = o.payload] \in Row
        BY <2>1, <2>4 DEF Rows, OptRow, Row
      <3> QED
        BY <2>1, <3>1, <3>2 DEF Rows, OptRow
    <2> QED
      BY <1>3, <2>2, <2>3, <2>4, OpCases
  <1> QED
    BY <1>1, <1>2, <1>3

LEMMA HappenedType ==
    ASSUME may \subseteq Rows \cup {Gone}, NEW o \in Op
    PROVE  Happened(o) \subseteq Rows \cup {Gone}
  BY AfterType DEF Happened

LoggedRecord == [lsn : Nat, op : Op]

LEMMA RecordFacts ==
    ASSUME NEW f \in Seq(LoggedRecord)
    PROVE  /\ \A i \in DOMAIN f : f[i] \in LoggedRecord /\ f[i].lsn \in Nat /\ f[i].op \in Op
           /\ DOMAIN f = 1..Len(f) /\ Len(f) \in Nat
           /\ f # <<>> => Head(f).op \in Op /\ Tail(f) \in Seq(LoggedRecord)
  <1>1. \A i \in DOMAIN f : f[i] \in LoggedRecord
    OBVIOUS
  <1>2. f # <<>> => Head(f) \in LoggedRecord /\ Tail(f) \in Seq(LoggedRecord)
    OBVIOUS
  <1> QED
    BY <1>1, <1>2 DEF LoggedRecord

(* What open keeps of the file are records. *)
LEMMA IntactType ==
    ASSUME NEW f \in Seq(LoggedRecord \cup {Torn})
    PROVE  Intact(f) \in Seq(LoggedRecord)
  <1> DEFINE K == {k \in 0..Len(f) : \A i \in 1..k : f[i] # Torn}
  <1>1. Len(f) \in Nat /\ \A i \in 1..Len(f) : f[i] \in LoggedRecord \cup {Torn}
    OBVIOUS
  <1>2. K \in SUBSET Nat /\ K # {} /\ \A k \in K : k <= Len(f)
    <2>1. 0 \in K
      BY <1>1
    <2> QED
      BY <1>1, <2>1
  <1> DEFINE k == Max(K)
  <1>3. k \in K
    <2> HIDE DEF K
    <2> QED
      BY <1>1, <1>2, MaxIsGreatest
  <1>4. Intact(f) = SubSeq(f, 1, k)
    BY DEF Intact
  <1> HIDE DEF k
  <1>5. k \in 0..Len(f) /\ \A i \in 1..k : f[i] \in LoggedRecord
    BY <1>1, <1>3
  <1>6. SubSeq(f, 1, k) = [i \in 1..k |-> f[i]]
    BY <1>1, <1>5
  <1>7. [i \in 1..k |-> f[i]] \in Seq(LoggedRecord)
    BY <1>5
  <1> QED
    BY <1>4, <1>6, <1>7

LEMMA NextLsnType ==
    ASSUME NEW f \in Seq(LoggedRecord), NEW floor \in Nat
    PROVE  /\ NextLsnAtOpen(f, floor) \in Nat /\ NextLsnAtOpen(f, floor) > 0
           /\ floor <= NextLsnAtOpen(f, floor)
  <1> DEFINE lsns == [i \in 1..Len(f) |-> f[i].lsn]
  <1>1. lsns \in Seq(Nat) /\ DOMAIN lsns = DOMAIN f /\ \A i \in DOMAIN f : lsns[i] = f[i].lsn
    <2>1. lsns \in [1..Len(f) -> Nat]
      BY RecordFacts
    <2> QED
      BY <2>1, RecordFacts
  <1>2. {f[i].lsn : i \in DOMAIN f} = ToSet(lsns)
    BY <1>1 DEF ToSet
  <1> HIDE DEF lsns
  <1>3. LastLsn(f) \in Nat
    BY <1>1, <1>2, MaxOfSeq DEF LastLsn
  <1> DEFINE T == {floor, LastLsn(f) + 1}
  <1>4. T \in SUBSET Nat /\ T # {} /\ floor + LastLsn(f) + 1 \in Nat
        /\ \A t \in T : t <= floor + LastLsn(f) + 1
    BY <1>3
  <1>5. LastLsn(f) + 1 \in T /\ floor \in T /\ NextLsnAtOpen(f, floor) = Max(T)
    BY DEF NextLsnAtOpen
  <1> HIDE DEF T
  <1>6. Max(T) \in T /\ \A t \in T : t <= Max(T)
    BY <1>4, MaxIsGreatest
  <1>7. Max(T) \in Nat /\ LastLsn(f) + 1 <= Max(T) /\ floor <= Max(T)
    BY <1>4, <1>5, <1>6
  <1> QED
    BY <1>3, <1>5, <1>7

(* What is left to replay are records of the log. *)
LEMMA ToReplayType ==
    ASSUME NEW f \in Seq(LoggedRecord), NEW floor \in Nat
    PROVE  ToReplay(f, floor) \in Seq(LoggedRecord)
  <1> DEFINE Kept == Seq(LoggedRecord)
             n == Len(f)
             step == [k \in 1..n |-> [t \in Kept |-> IF Skips(f[k], floor) THEN t ELSE Append(t, f[k])]]
             K == CHOOSE kept : kept = [k \in 0..n |-> IF k = 0 THEN <<>>
                                                       ELSE IF Skips(f[k], floor) THEN kept[k - 1]
                                                       ELSE Append(kept[k - 1], f[k])]
  <1>1. n \in Nat /\ <<>> \in Kept /\ \A k \in 1..n : f[k] \in LoggedRecord
    BY RecordFacts
  <1>2. \A k \in 1..n : \A t \in Kept : /\ step[k][t] = IF Skips(f[k], floor) THEN t ELSE Append(t, f[k])
                                       /\ step[k][t] \in Kept
    BY <1>1
  <1>3. ToReplay(f, floor) = K[n]
    BY DEF ToReplay
  <1> HIDE DEF step, n
  <1>4. PICK c : c \in [0..n -> Kept] /\ c[0] = <<>> /\ \A k \in 1..n : c[k] = step[k][c[k - 1]]
    <2>1. AreSteps(step, n, Kept)
      BY <1>2 DEF AreSteps
    <2> HIDE DEF Kept
    <2>2. PICK c : IsRun(c, step, n, <<>>, Kept)
      BY <1>1, <2>1, StepsExist
    <2> QED
      BY <2>2 DEF IsRun
  <1> HIDE DEF Kept
  <1>5. ASSUME NEW k \in 0..n
        PROVE  c[k] = IF k = 0 THEN <<>>
                      ELSE IF Skips(f[k], floor) THEN c[k - 1] ELSE Append(c[k - 1], f[k])
    <2>1. CASE k = 0
      BY <1>4, <2>1
    <2>2. CASE k # 0
      <3>1. k \in 1..n /\ k - 1 \in 0..n
        BY <1>1, <2>2
      <3>2. c[k - 1] \in Kept
        BY <1>4, <3>1
      <3> QED
        BY <1>2, <1>4, <2>2, <3>1, <3>2
    <2> QED
      BY <2>1, <2>2
  <1>6. c = [k \in 0..n |-> IF k = 0 THEN <<>>
                            ELSE IF Skips(f[k], floor) THEN c[k - 1] ELSE Append(c[k - 1], f[k])]
    BY <1>4, <1>5
  <1>7. K = [k \in 0..n |-> IF k = 0 THEN <<>>
                            ELSE IF Skips(f[k], floor) THEN K[k - 1] ELSE Append(K[k - 1], f[k])]
    BY <1>6
  <1> HIDE DEF K
  <1> DEFINE S == {k \in 0..n : K[k] \in Kept}
  <1>8. 0 \in S
    BY <1>1, <1>7
  <1>9. ASSUME NEW k \in 0..(n - 1), k \in S PROVE k + 1 \in S
    <2>1. k + 1 \in 1..n /\ k + 1 \in 0..n /\ k + 1 # 0 /\ (k + 1) - 1 = k /\ K[k] \in Kept
      BY <1>1, <1>9
    <2>2. K[k + 1] = IF Skips(f[k + 1], floor) THEN K[k] ELSE Append(K[k], f[k + 1])
      BY <1>7, <2>1
    <2>3. K[k + 1] \in Kept
      BY <1>1, <2>1, <2>2 DEF Kept
    <2> QED
      BY <2>1, <2>3
  <1>10. n \in S => K[n] \in Kept
    OBVIOUS
  <1> HIDE DEF S
  <1>11. n \in S
    <2>1. \A k \in 0..n : k \in S
      BY <1>1, <1>8, <1>9, LoopInduction
    <2> QED
      BY <1>1, <2>1
  <1> QED
    BY <1>3, <1>10, <1>11 DEF Kept

-----------------------------------------------------------------------------
(* The manifest.  A name has further entries when a create has failed;     *)
(* only the first of them ever gets segments.                              *)

ManifestType == [entries : Seq(Seq(Nat)), floor : Nat]

Proper(m) ==
    /\ m \in ManifestType
    /\ \A i \in DOMAIN m.entries : i # 1 => m.entries[i] = <<>>
    /\ Distinct(Segments1(m))

LEMMA ProperFacts ==
    ASSUME NEW m, Proper(m)
    PROVE  /\ m = [entries |-> m.entries, floor |-> m.floor]
           /\ m.entries \in Seq(Seq(Nat)) /\ m.floor \in Nat
           /\ DOMAIN m.entries = 1..Len(m.entries) /\ Len(m.entries) \in Nat
           /\ m.entries # <<>> => 1 \in DOMAIN m.entries /\ Segments1(m) = m.entries[1]
           /\ Segments1(m) \in Seq(Nat) /\ Distinct(Segments1(m))
           /\ Named(m) = ToSet(Segments1(m))
           /\ Named(m) \subseteq Nat
  <1>1. /\ m = [entries |-> m.entries, floor |-> m.floor]
        /\ m.entries \in Seq(Seq(Nat)) /\ m.floor \in Nat
    BY DEF Proper, ManifestType
  <1>2. /\ DOMAIN m.entries = 1..Len(m.entries) /\ Len(m.entries) \in Nat
        /\ \A i \in DOMAIN m.entries : m.entries[i] \in Seq(Nat)
        /\ m.entries # <<>> => 1 \in DOMAIN m.entries /\ Head(m.entries) = m.entries[1]
    BY <1>1
  <1>3. m.entries # <<>> => Segments1(m) = m.entries[1]
    BY <1>2 DEF Segments1
  <1>4. m.entries = <<>> => Segments1(m) = <<>> /\ DOMAIN m.entries = {}
    BY DEF Segments1
  <1>5. Segments1(m) \in Seq(Nat)
    <2>1. <<>> \in Seq(Nat)
      OBVIOUS
    <2>2. CASE m.entries = <<>>
      BY <1>4, <2>1, <2>2
    <2>3. CASE m.entries # <<>>
      <3>1. m.entries[1] \in Seq(Nat)
        BY <1>2, <2>3
      <3> QED
        BY <1>3, <2>3, <3>1
    <2> QED
      BY <2>2, <2>3
  <1>6. ToSet(<<>>) = {}
    BY DEF ToSet
  <1>7. Named(m) = ToSet(Segments1(m))
    <2>1. CASE m.entries = <<>>
      BY <1>4, <1>6, <2>1 DEF Named
    <2>2. CASE m.entries # <<>>
      <3>1. \A i \in DOMAIN m.entries : i # 1 => ToSet(m.entries[i]) = {}
        BY <1>6 DEF Proper
      <3>2. ASSUME NEW d PROVE d \in Named(m) <=> d \in ToSet(m.entries[1])
        BY <1>2, <2>2, <3>1 DEF Named
      <3> QED
        BY <1>3, <2>2, <3>2
    <2> QED
      BY <2>1, <2>2
  <1>8. ToSet(Segments1(m)) \subseteq Nat
    <2>1. \A i \in DOMAIN Segments1(m) : Segments1(m)[i] \in Nat
      BY <1>5
    <2> QED
      BY <2>1 DEF ToSet
  <1> QED
    BY <1>1, <1>2, <1>3, <1>5, <1>7, <1>8 DEF Proper

WithSegments(m, segs, floor) == [entries |-> [m.entries EXCEPT ![1] = segs], floor |-> floor]

LEMMA SegmentsChanged ==
    ASSUME NEW m, Proper(m), m.entries # <<>>, NEW segs \in Seq(Nat), Distinct(segs), NEW floor \in Nat
    PROVE  /\ Proper(WithSegments(m, segs, floor))
           /\ Named(WithSegments(m, segs, floor)) = ToSet(segs)
  <1> DEFINE w == WithSegments(m, segs, floor)
             es == [m.entries EXCEPT ![1] = segs]
  <1>1. /\ es \in Seq(Seq(Nat)) /\ es # <<>> /\ DOMAIN es = DOMAIN m.entries
        /\ es[1] = segs /\ \A i \in DOMAIN es : i # 1 => es[i] = m.entries[i]
    BY ProperFacts
  <1>2. w = [entries |-> es, floor |-> floor]
    BY DEF WithSegments
  <1> HIDE DEF es
  <1>3. w.entries = es /\ w.floor = floor /\ w \in ManifestType
    BY <1>1, <1>2 DEF ManifestType
  <1> HIDE DEF w
  <1>4. Segments1(w) = segs
    BY <1>1, <1>3 DEF Segments1
  <1>5. Proper(w)
    BY <1>1, <1>3, <1>4 DEF Proper
  <1> QED
    BY <1>4, <1>5, ProperFacts DEF w

LEMMA Appended ==
    ASSUME NEW S, NEW s \in Seq(S), NEW x \in S
    PROVE  /\ Append(s, x) \in Seq(S) /\ Append(s, x) # <<>>
           /\ DOMAIN Append(s, x) = 1..(Len(s) + 1)
           /\ \A i \in DOMAIN s : Append(s, x)[i] = s[i]
           /\ Append(s, x)[Len(s) + 1] = x
  OBVIOUS

LEMMA EntryPushed ==
    ASSUME NEW m, Proper(m)
    PROVE  /\ Proper([m EXCEPT !.entries = Append(@, <<>>)])
           /\ Named([m EXCEPT !.entries = Append(@, <<>>)]) = Named(m)
  <1> DEFINE w == [m EXCEPT !.entries = Append(@, <<>>)]
             es == Append(m.entries, <<>>)
  <1>1. /\ <<>> \in Seq(Nat) /\ Distinct(<<>>) /\ ToSet(<<>>) = {}
    BY DEF Distinct, ToSet
  <1>0. /\ m.floor \in Nat /\ m.entries \in Seq(Seq(Nat))
        /\ DOMAIN m.entries = 1..Len(m.entries) /\ Len(m.entries) \in Nat
    BY ProperFacts
  <1>2. /\ es \in Seq(Seq(Nat)) /\ es # <<>> /\ DOMAIN es = 1..(Len(m.entries) + 1)
        /\ \A i \in DOMAIN m.entries : es[i] = m.entries[i]
        /\ es[Len(m.entries) + 1] = <<>>
    <2>1. ASSUME NEW list \in Seq(Nat)
          PROVE  /\ Append(m.entries, list) \in Seq(Seq(Nat)) /\ Append(m.entries, list) # <<>>
                 /\ DOMAIN Append(m.entries, list) = 1..(Len(m.entries) + 1)
                 /\ \A i \in DOMAIN m.entries : Append(m.entries, list)[i] = m.entries[i]
                 /\ Append(m.entries, list)[Len(m.entries) + 1] = list
      BY <1>0, Appended
    <2> QED
      BY <1>1, <2>1
  <1>3. w.entries = es /\ w.floor = m.floor /\ w \in ManifestType
    <2>0. m = [entries |-> m.entries, floor |-> m.floor]
      BY ProperFacts
    <2>1. w = [entries |-> es, floor |-> m.floor]
      BY <2>0
    <2> QED
      BY <1>0, <1>2, <2>1 DEF ManifestType
  <1> HIDE DEF w, es
  <1>4. \A i \in DOMAIN es : i \in DOMAIN m.entries \/ i = Len(m.entries) + 1
    BY <1>2, ProperFacts
  <1>5. Segments1(w) = Segments1(m)
    <2>1. CASE m.entries = <<>>
      <3>1. Len(m.entries) = 0
        BY <2>1
      <3> QED
        BY <1>2, <1>3, <2>1, <3>1 DEF Segments1
    <2>2. CASE m.entries # <<>>
      <3>1. 1 \in DOMAIN m.entries /\ Segments1(m) = m.entries[1]
        BY <2>2, ProperFacts
      <3>2. Segments1(w) = es[1]
        BY <1>2, <1>3 DEF Segments1
      <3> QED
        BY <1>2, <3>1, <3>2
    <2> QED
      BY <2>1, <2>2
  <1>6. Proper(w)
    <2>1. \A i \in DOMAIN es : i # 1 => es[i] = <<>>
      BY <1>2, <1>4 DEF Proper
    <2> QED
      BY <1>3, <1>5, <2>1 DEF Proper
  <1> QED
    BY <1>5, <1>6, ProperFacts DEF w

LEMMA EntriesDropped ==
    ASSUME NEW m, Proper(m)
    PROVE  /\ Proper([m EXCEPT !.entries = <<>>])
           /\ Named([m EXCEPT !.entries = <<>>]) = {}
  <1> DEFINE w == [m EXCEPT !.entries = <<>>]
  <1>1. w = [entries |-> <<>>, floor |-> m.floor]
    BY ProperFacts
  <1>2. <<>> \in Seq(Seq(Nat)) /\ DOMAIN <<>> = {}
    OBVIOUS
  <1>3. w.entries = <<>> /\ w \in ManifestType
    BY <1>1, <1>2, ProperFacts DEF ManifestType
  <1> HIDE DEF w
  <1>4. Segments1(w) = <<>>
    BY <1>3 DEF Segments1
  <1>5. Proper(w)
    BY <1>2, <1>3, <1>4 DEF Proper, Distinct
  <1>6. Named(w) = {}
    BY <1>2, <1>3 DEF Named
  <1> QED
    BY <1>5, <1>6 DEF w

(* The first entry gets another list of segments, if there is one.         *)
LEMMA EntryReplaced ==
    ASSUME NEW m, Proper(m), NEW segs \in Seq(Nat), Distinct(segs)
    PROVE  /\ Proper(WithFirst(m, segs))
           /\ m.entries = <<>> => WithFirst(m, segs) = m
           /\ m.entries # <<>> => Named(WithFirst(m, segs)) = ToSet(segs)
  <1>1. m = [entries |-> m.entries, floor |-> m.floor] /\ m.floor \in Nat
    BY ProperFacts
  <1>2. CASE m.entries = <<>>
    <2>1. WithFirst(m, segs) = m
      BY <1>1, <1>2 DEF WithFirst
    <2> QED
      BY <1>2, <2>1
  <1>3. CASE m.entries # <<>>
    <2>1. WithFirst(m, segs) = WithSegments(m, segs, m.floor)
      BY <1>1, <1>3 DEF WithFirst, WithSegments
    <2>2. Proper(WithFirst(m, segs)) /\ Named(WithFirst(m, segs)) = ToSet(segs)
      BY <1>1, <1>3, <2>1, SegmentsChanged
    <2> QED
      BY <1>3, <2>2
  <1> QED
    BY <1>2, <1>3

(* Replaced, for a rebuild of the segment with id old: without a new       *)
(* segment, and with one.                                                  *)
LEMMA ReplacedByNone ==
    ASSUME NEW segs \in Seq(Nat), Distinct(segs), NEW old \in Nat, NEW id \in Nat,
           id \notin ToSet(segs)
    PROVE  /\ Replaced(segs, old, {}) \in Seq(Nat)
           /\ Distinct(Replaced(segs, old, {}))
           /\ ToSet(Replaced(segs, old, {})) = ToSet(segs) \ {old}
           /\ \A k \in DOMAIN segs : segs[k] = old =>
                /\ Len(Replaced(segs, old, {})) = Len(segs) - 1
                /\ Replaced(segs, old, {}) = RemovePosition(segs, k)
  <1> DEFINE r == Replaced(segs, old, {})
  <1>1. r = Swapped(segs, old, id, TRUE)
    BY DEF Replaced, Swapped
  <1> HIDE DEF r
  <1>2. /\ r \in Seq(Nat) /\ Distinct(r) /\ ToSet(r) = ToSet(segs) \ {old}
        /\ \A k \in DOMAIN segs : segs[k] = old => r = RemovePosition(segs, k)
    <2>1. ASSUME NEW gone \in BOOLEAN
          PROVE  /\ Swapped(segs, old, id, gone) \in Seq(Nat) /\ Distinct(Swapped(segs, old, id, gone))
                 /\ ToSet(Swapped(segs, old, id, gone)) = (ToSet(segs) \ {old}) \cup IF gone THEN {} ELSE {id}
                 /\ \A k \in DOMAIN segs : segs[k] = old =>
                      Swapped(segs, old, id, gone)
                        = IF gone THEN RemovePosition(segs, k) ELSE ReplaceAt(segs, k, id)
      BY SwappedFacts
    <2>2. /\ r \in Seq(Nat) /\ Distinct(r)
          /\ ToSet(r) = (ToSet(segs) \ {old}) \cup IF TRUE THEN {} ELSE {id}
          /\ \A k \in DOMAIN segs : segs[k] = old =>
               r = IF TRUE THEN RemovePosition(segs, k) ELSE ReplaceAt(segs, k, id)
      BY <1>1, <2>1, Zenon
    <2> QED
      BY <2>2
  <1>3. ASSUME NEW k \in DOMAIN segs, segs[k] = old PROVE Len(r) = Len(segs) - 1
    <2>1. k \in 1..Len(segs) /\ Len(segs) \in Nat \ {0}
      OBVIOUS
    <2>2. DOMAIN r = 1..(Len(segs) - 1)
      BY <1>2, <1>3, <2>1, RemovedPosition
    <2>3. Len(r) \in Nat /\ DOMAIN r = 1..Len(r)
      BY <1>2
    <2> QED
      BY <2>1, <2>2, <2>3
  <1> QED
    BY <1>2, <1>3 DEF r

LEMMA ReplacedByOne ==
    ASSUME NEW segs \in Seq(Nat), Distinct(segs), NEW old \in Nat, NEW id \in Nat,
           id \notin ToSet(segs)
    PROVE  /\ Replaced(segs, old, {id}) \in Seq(Nat)
           /\ Distinct(Replaced(segs, old, {id}))
           /\ ToSet(Replaced(segs, old, {id})) = (ToSet(segs) \ {old}) \cup {id}
           /\ \A k \in DOMAIN segs : segs[k] = old =>
                /\ Len(Replaced(segs, old, {id})) = Len(segs)
                /\ Replaced(segs, old, {id}) = ReplaceAt(segs, k, id)
  <1> DEFINE r == Replaced(segs, old, {id})
  <1>1. r = Swapped(segs, old, id, FALSE)
    <2>1. {id} # {} /\ (CHOOSE x \in {id} : TRUE) = id
      OBVIOUS
    <2>2. r = IF old \in ToSet(segs) THEN ReplaceAt(segs, PositionIn(segs, old), id)
              ELSE Append(segs, id)
      BY <2>1, Zenon DEF Replaced, ReplaceAt, PositionIn
    <2> QED
      BY <2>2 DEF Swapped
  <1> HIDE DEF r
  <1>2. /\ r \in Seq(Nat) /\ Distinct(r) /\ ToSet(r) = (ToSet(segs) \ {old}) \cup {id}
        /\ \A k \in DOMAIN segs : segs[k] = old => r = ReplaceAt(segs, k, id)
    <2>1. ASSUME NEW gone \in BOOLEAN, gone = FALSE, r = Swapped(segs, old, id, gone)
          PROVE  /\ r \in Seq(Nat) /\ Distinct(r) /\ ToSet(r) = (ToSet(segs) \ {old}) \cup {id}
                 /\ \A k \in DOMAIN segs : segs[k] = old => r = ReplaceAt(segs, k, id)
      BY <2>1, SwappedFacts
    <2> QED
      BY <1>1, <2>1
  <1>3. ASSUME NEW k \in DOMAIN segs, segs[k] = old PROVE Len(r) = Len(segs)
    <2>1. DOMAIN r = DOMAIN segs
      BY <1>2, <1>3 DEF ReplaceAt
    <2>2. /\ Len(r) \in Nat /\ DOMAIN r = 1..Len(r)
          /\ Len(segs) \in Nat /\ DOMAIN segs = 1..Len(segs)
      BY <1>2
    <2>3. \A m, n \in Nat : 1..m = 1..n => m = n
      OBVIOUS
    <2> QED
      BY <2>1, <2>2, <2>3
  <1> QED
    BY <1>2, <1>3 DEF r

IsNew(new, id) == new = {} \/ new = {id}

(* What a list is after a replacement. *)
Replaces(segs, old, new) ==
    /\ Replaced(segs, old, new) \in Seq(Nat)
    /\ Distinct(Replaced(segs, old, new))
    /\ ToSet(Replaced(segs, old, new)) = (ToSet(segs) \ {old}) \cup new
    /\ \A k \in DOMAIN segs : segs[k] = old =>
         /\ Len(Replaced(segs, old, new)) = IF new = {} THEN Len(segs) - 1 ELSE Len(segs)
         /\ new = {} => Replaced(segs, old, new) = RemovePosition(segs, k)
         /\ \A id \in new : Replaced(segs, old, new) = ReplaceAt(segs, k, id)

LEMMA ReplacedFacts ==
    ASSUME NEW segs \in Seq(Nat), Distinct(segs), NEW old \in Nat, NEW id \in Nat,
           id \notin ToSet(segs), NEW new, IsNew(new, id)
    PROVE  Replaces(segs, old, new)
  <1>1. CASE new = {}
    BY <1>1, ReplacedByNone DEF Replaces
  <1>2. CASE new = {id}
    BY <1>2, ReplacedByOne DEF Replaces
  <1> QED
    BY <1>1, <1>2 DEF IsNew

(* The first entry of the name after a rebuild. *)
LEMMA EntrySwapped ==
    ASSUME NEW m, Proper(m), NEW old \in Nat, NEW id \in Nat, id \notin Named(m),
           NEW new, IsNew(new, id), NEW w, w = WithFirst(m, Replaced(Segments1(m), old, new))
    PROVE  /\ Proper(w)
           /\ m.entries = <<>> => w = m
           /\ m.entries # <<>> => Named(w) = (Named(m) \ {old}) \cup new
  <1>1. m = [entries |-> m.entries, floor |-> m.floor] /\ m.floor \in Nat
        /\ (m.entries # <<>> => m.entries[1] = Segments1(m) /\ 1 \in DOMAIN m.entries)
        /\ Segments1(m) \in Seq(Nat) /\ Distinct(Segments1(m)) /\ Named(m) = ToSet(Segments1(m))
    BY ProperFacts
  <1> DEFINE first == Segments1(m)
             entry == Replaced(first, old, new)
  <1>2. entry \in Seq(Nat) /\ Distinct(entry) /\ ToSet(entry) = (Named(m) \ {old}) \cup new
    <2>1. first \in Seq(Nat) /\ Distinct(first) /\ Named(m) = ToSet(first)
      BY <1>1
    <2> HIDE DEF first
    <2>2. Replaces(first, old, new)
      BY <2>1, ReplacedFacts
    <2> QED
      BY <2>1, <2>2 DEF Replaces
  <1>3. w = WithFirst(m, entry)
    OBVIOUS
  <1> HIDE DEF entry
  <1> QED
    BY <1>2, <1>3, EntryReplaced

-----------------------------------------------------------------------------
(* The inductive invariant.  Segs is about what the database has on disk   *)
(* and in memory, Calls about the log and the answers.                     *)

PC == {"ready", "rebuild", "replay", "down", "refused"}

(* One id per segment of the view, none of them twice, and no directory    *)
(* has an id that is still to be handed out.                               *)
Ids ==
    /\ Distinct(segIds)
    /\ \A d \in DOMAIN dirs \cup ToSet(segIds) : d < nextSegId

(* Neither the manifest on disk nor that in memory names what is not there.*)
(* The latter matters since a call whose save fails leaves it as changed,  *)
(* and a later call saves it and removes directories.                      *)
There ==
    /\ Named(saved) \subseteq DOMAIN dirs
    /\ Named(manifest) \subseteq DOMAIN dirs

Segs ==
    /\ Proper(saved) /\ Proper(manifest)
    /\ \A d \in DOMAIN dirs : d \in Nat /\ dirs[d] \in Segment
    /\ view \in View
    /\ segIds \in Seq(Nat) /\ Len(segIds) = Len(view.immutables)
    /\ present \in BOOLEAN /\ (~present => view = EmptyView)
    /\ nextSegId \in Nat
    /\ pc \in PC
    /\ records \in Seq(LoggedRecord)
    /\ Ids
    /\ There

Calls ==
    /\ walFile \in Seq(LoggedRecord \cup {Torn})
    /\ nextLsn \in Nat /\ nextLsn > 0
    /\ may \subseteq Rows \cup {Gone}

IInv == Segs /\ Calls

LEMMA InitHolds == Init => IInv
  <1> SUFFICES ASSUME Init PROVE IInv
    OBVIOUS
  <1>1. /\ saved = [entries |-> <<>>, floor |-> 0] /\ manifest = saved
        /\ walFile = <<>> /\ dirs = <<>> /\ present = FALSE /\ view = EmptyView /\ segIds = <<>>
        /\ nextSegId = 1 /\ nextLsn = 1 /\ pc = "ready" /\ records = <<>> /\ may = {Gone}
    BY DEF Init
  <1>2. DOMAIN <<>> = {} /\ ToSet(<<>>) = {} /\ Len(<<>>) = 0 /\ Distinct(<<>>)
    BY DEF ToSet, Distinct
  <1>3. saved.entries = <<>> /\ saved \in ManifestType
    BY <1>1 DEF ManifestType
  <1>4. Segments1(saved) = <<>> /\ Named(saved) = {}
    BY <1>2, <1>3 DEF Segments1, Named
  <1>5. Proper(saved)
    BY <1>2, <1>3, <1>4 DEF Proper
  <1>6. EmptyView \in View /\ EmptyView.immutables = <<>>
    BY EmptyViewType DEF EmptyView
  <1>7. Ids /\ There
    BY <1>1, <1>2, <1>4 DEF Ids, There
  <1>8. segIds \in Seq(Nat) /\ records \in Seq(LoggedRecord) /\ walFile \in Seq(LoggedRecord \cup {Torn})
    BY <1>1
  <1>9. Len(segIds) = Len(view.immutables)
    BY <1>1, <1>6
  <1>10. Segs
    BY <1>1, <1>2, <1>5, <1>6, <1>7, <1>8, <1>9 DEF Segs, PC
  <1>11. Calls
    BY <1>1, <1>8 DEF Calls
  <1> QED
    BY <1>10, <1>11 DEF IInv

-----------------------------------------------------------------------------
(* Operations on the view and the sidecars. *)

LEMMA ViewFacts ==
    ASSUME NEW v \in View
    PROVE  /\ v = [mutable |-> v.mutable, immutables |-> v.immutables]
           /\ v.mutable \in Mutable /\ v.immutables \in Seq(Segment)
           /\ DOMAIN v.immutables = 1..Len(v.immutables) /\ Len(v.immutables) \in Nat
           /\ \A i \in DOMAIN v.immutables : v.immutables[i] \in Segment
  BY DEF View

(* The segments of a view, some of them edited. *)
LEMMA SegmentsEdited ==
    ASSUME NEW v \in View, NEW f, DOMAIN f = DOMAIN v.immutables,
           f = [i \in DOMAIN v.immutables |-> f[i]],
           \A i \in DOMAIN v.immutables : f[i] \in Segment
    PROVE  /\ [v EXCEPT !.immutables = f] \in View
           /\ [v EXCEPT !.immutables = f].immutables = f
           /\ [v EXCEPT !.immutables = f].mutable = v.mutable
           /\ Len(f) = Len(v.immutables)
  <1>1. f \in Seq(Segment)
    BY EditedSegments
  <1>2. [v EXCEPT !.immutables = f] = [mutable |-> v.mutable, immutables |-> f]
    BY ViewFacts
  <1>3. Len(f) = Len(v.immutables)
    BY <1>1, ViewFacts
  <1> QED
    BY <1>1, <1>2, <1>3, ViewFacts DEF View

LEMMA ApplyOpFacts ==
    ASSUME NEW v \in View, NEW o, IsEdit(o)
    PROVE  /\ ApplyOp(v, o) \in View
           /\ DOMAIN ApplyOp(v, o).immutables = DOMAIN v.immutables
           /\ Len(ApplyOp(v, o).immutables) = Len(v.immutables)
  <1>1. CASE o.kind = "upsert" /\ o.batch \in Batch
    <2>1. ApplyOp(v, o) = ApplyUpsert(v, o.batch)
      BY <1>1 DEF ApplyOp
    <2>2. DOMAIN ApplyUpsert(v, o.batch).immutables = DOMAIN v.immutables
      BY DEF ApplyUpsert
    <2>3. ApplyUpsert(v, o.batch) \in View
      BY <1>1, ApplyUpsertType
    <2> QED
      BY <2>1, <2>2, <2>3, ViewFacts
  <1>2. CASE o.kind = "delete" /\ o.ids \in SUBSET Id
    <2>1. ApplyOp(v, o) = ApplyDelete(v, o.ids)
      BY <1>2 DEF ApplyOp
    <2>2. DOMAIN ApplyDelete(v, o.ids).immutables = DOMAIN v.immutables
      BY DEF ApplyDelete
    <2>3. ApplyDelete(v, o.ids) \in View
      BY <1>2, ApplyDeleteType
    <2> QED
      BY <2>1, <2>2, <2>3, ViewFacts
  <1>3. CASE o.kind = "payload" /\ o.ids \in SUBSET Id /\ o.payload \in OptPayload
    <2>1. ApplyOp(v, o) = ApplyPayload(v, o.ids, o.payload)
      BY <1>3 DEF ApplyOp
    <2>2. DOMAIN ApplyPayload(v, o.ids, o.payload).immutables = DOMAIN v.immutables
      BY DEF ApplyPayload
    <2>3. ApplyPayload(v, o.ids, o.payload) \in View
      BY <1>3, ApplyPayloadType
    <2> QED
      BY <2>1, <2>2, <2>3, ViewFacts
  <1> QED
    BY <1>1, <1>2, <1>3 DEF IsEdit

LEMMA EditedArePositions ==
    ASSUME NEW v \in View, NEW o, IsEdit(o)
    PROVE  Edited(v, o) \subseteq DOMAIN v.immutables
  <1>1. ASSUME NEW id, Holders(v, id) # {}
        PROVE  Holders(v, id) \subseteq DOMAIN v.immutables /\ Min(Holders(v, id)) \in DOMAIN v.immutables
    <2>1. Holders(v, id) \subseteq DOMAIN v.immutables /\ Holders(v, id) \in SUBSET Nat
      BY HolderIsPosition, ViewFacts
    <2> QED
      BY <1>1, <2>1, MinIsLeast
  <1>2. ASSUME NEW i \in Edited(v, o) PROVE i \in DOMAIN v.immutables
    BY <1>1, <1>2 DEF Edited
  <1> QED
    BY <1>2

LEMMA SidecarsType ==
    ASSUME NEW ds, \A d \in DOMAIN ds : d \in Nat /\ ds[d] \in Segment,
           NEW v \in View, NEW positions \in SUBSET DOMAIN v.immutables, NEW o
    PROVE  /\ DOMAIN WriteSidecars(ds, v, positions, o) = DOMAIN ds
           /\ \A d \in DOMAIN ds : /\ d \in Nat
                                   /\ WriteSidecars(ds, v, positions, o)[d] \in Segment
  <1>1. DOMAIN WriteSidecars(ds, v, positions, o) = DOMAIN ds
    BY DEF WriteSidecars
  <1>2. ASSUME NEW d \in DOMAIN ds PROVE WriteSidecars(ds, v, positions, o)[d] \in Segment
    <2>1. CASE \A i \in positions : segIds[i] # d
      BY <2>1 DEF WriteSidecars
    <2>2. CASE ~\A i \in positions : segIds[i] # d
      <3>1. PICK k : k = CHOOSE i \in positions : segIds[i] = d
        OBVIOUS
      <3>2. k \in positions
        BY <2>2, <3>1
      <3>3. v.immutables[k] \in Segment /\ ds[d] \in Segment
        BY <3>2, ViewFacts
      <3>4. WriteSidecars(ds, v, positions, o)[d]
              = IF o.kind = "payload" THEN [ds[d] EXCEPT !.overlay = v.immutables[k].overlay]
                ELSE [ds[d] EXCEPT !.deleted = v.immutables[k].deleted]
        BY <2>2, <3>1 DEF WriteSidecars
      <3>5. /\ [ds[d] EXCEPT !.overlay = v.immutables[k].overlay] \in Segment
            /\ [ds[d] EXCEPT !.deleted = v.immutables[k].deleted] \in Segment
        BY <3>3 DEF Segment
      <3> QED
        BY <3>4, <3>5
    <2> QED
      BY <2>1, <2>2
  <1> QED
    BY <1>1, <1>2

LEMMA EndTypes ==
    ASSUME records \in Seq(LoggedRecord), Finish \/ Return
    PROVE  pc' \in PC /\ records' \in Seq(LoggedRecord)
  <1>1. records # <<>> => Tail(records) \in Seq(LoggedRecord)
    BY RecordFacts
  <1>2. <<>> \in Seq(LoggedRecord)
    OBVIOUS
  <1> QED
    BY <1>1, <1>2 DEF Finish, Return, PC

(* The view and the sidecars of its segments change. *)
LEMMA EditKeeps ==
    ASSUME Segs, present, view' \in View, Len(view'.immutables) = Len(view.immutables),
           DOMAIN dirs' = DOMAIN dirs, \A d \in DOMAIN dirs : dirs'[d] \in Segment,
           pc' \in PC, records' \in Seq(LoggedRecord),
           UNCHANGED <<saved, present, manifest, segIds, nextSegId>>
    PROVE  Segs'
  <1>1. Ids'
    BY DEF Segs, Ids
  <1>2. There'
    BY DEF Segs, There
  <1> QED
    BY <1>1, <1>2 DEF Segs

LEMMA ApplyKeeps ==
    ASSUME Segs, NEW o, IsEdit(o), present, Apply(o), UNCHANGED <<saved, present>>
    PROVE  Segs'
  <1>1. /\ view \in View /\ records \in Seq(LoggedRecord)
        /\ \A d \in DOMAIN dirs : d \in Nat /\ dirs[d] \in Segment
    BY DEF Segs
  <1>2. /\ view' = ApplyOp(view, o)
        /\ dirs' = WriteSidecars(dirs, view', Edited(view, o), o)
        /\ Finish \/ (pc' = "rebuild" /\ records' = records)
        /\ UNCHANGED <<manifest, segIds, nextSegId>>
    BY DEF Apply
  <1>3. /\ view' \in View /\ Len(view'.immutables) = Len(view.immutables)
        /\ DOMAIN view'.immutables = DOMAIN view.immutables
    BY <1>1, <1>2, ApplyOpFacts
  <1>4. Edited(view, o) \in SUBSET DOMAIN view'.immutables
    BY <1>1, <1>3, EditedArePositions
  <1>5. DOMAIN dirs' = DOMAIN dirs /\ \A d \in DOMAIN dirs : dirs'[d] \in Segment
    BY <1>1, <1>2, <1>3, <1>4, SidecarsType
  <1>6. pc' \in PC /\ records' \in Seq(LoggedRecord)
    BY <1>1, <1>2, EndTypes DEF PC
  <1> QED
    BY <1>2, <1>3, <1>5, <1>6, EditKeeps

(* A sidecar fails: some of the segments are edited, and the sidecars of   *)
(* fewer are written.                                                      *)
LEMMA EditFailsTypes ==
    ASSUME Segs, NEW o, IsEdit(o), EditFails(o)
    PROVE  /\ view' \in View /\ Len(view'.immutables) = Len(view.immutables)
           /\ DOMAIN dirs' = DOMAIN dirs /\ \A d \in DOMAIN dirs : dirs'[d] \in Segment
  <1> DEFINE goal == ApplyOp(view, o)
  <1>1. view \in View /\ \A d \in DOMAIN dirs : d \in Nat /\ dirs[d] \in Segment
    BY DEF Segs
  <1>2. PICK i \in Edited(view, o) : \E done \in SUBSET (Edited(view, o) \ {i}) :
          /\ view' = [goal EXCEPT !.immutables =
                        [j \in DOMAIN @ |-> IF j \in done \cup {i} THEN @[j] ELSE view.immutables[j]]]
          /\ dirs' = WriteSidecars(dirs, goal, done, o)
    BY DEF EditFails
  <1>3. PICK done \in SUBSET (Edited(view, o) \ {i}) :
          /\ view' = [goal EXCEPT !.immutables =
                        [j \in DOMAIN @ |-> IF j \in done \cup {i} THEN @[j] ELSE view.immutables[j]]]
          /\ dirs' = WriteSidecars(dirs, goal, done, o)
    BY <1>2
  <1>4. /\ goal \in View /\ DOMAIN goal.immutables = DOMAIN view.immutables
        /\ Len(goal.immutables) = Len(view.immutables)
    BY <1>1, ApplyOpFacts
  <1> HIDE DEF goal
  <1> DEFINE f == [j \in DOMAIN goal.immutables |->
                     IF j \in done \cup {i} THEN goal.immutables[j] ELSE view.immutables[j]]
  <1>5. /\ DOMAIN f = DOMAIN goal.immutables
        /\ f = [j \in DOMAIN goal.immutables |-> f[j]]
        /\ \A j \in DOMAIN goal.immutables : f[j] \in Segment
    BY <1>1, <1>4, ViewFacts
  <1>6. view' = [goal EXCEPT !.immutables = f]
    BY <1>3
  <1> HIDE DEF f
  <1>7. view' \in View /\ view'.immutables = f /\ Len(f) = Len(goal.immutables)
    BY <1>4, <1>5, <1>6, SegmentsEdited
  <1>8. done \in SUBSET DOMAIN goal.immutables
    BY <1>1, <1>4, EditedArePositions
  <1>9. DOMAIN dirs' = DOMAIN dirs /\ \A d \in DOMAIN dirs : dirs'[d] \in Segment
    BY <1>1, <1>3, <1>4, <1>8, SidecarsType
  <1> QED
    BY <1>4, <1>7, <1>9

LEMMA UpsertFailsTypes ==
    ASSUME Segs, NEW o, o.kind = "upsert", o.batch \in Batch,
           o = [kind |-> "upsert", batch |-> o.batch], UpsertFails(o)
    PROVE  /\ view' \in View /\ Len(view'.immutables) = Len(view.immutables)
           /\ DOMAIN dirs' = DOMAIN dirs /\ \A d \in DOMAIN dirs : dirs'[d] \in Segment
  <1>1. view \in View /\ \A d \in DOMAIN dirs : d \in Nat /\ dirs[d] \in Segment
    BY DEF Segs
  <1>2. PICK done \in SUBSET BatchIds(o.batch), id \in BatchIds(o.batch) :
          LET part == [o EXCEPT !.batch = [x \in Id |-> IF x \in done THEN @[x] ELSE NoRow]]
              v == ApplyOp(view, part)
              ds == WriteSidecars(dirs, v, Edited(view, part), part)
          IN  \E i \in Holders(v, id) :
               /\ view' = [v EXCEPT !.immutables =
                             [j \in DOMAIN @ |-> IF j <= i THEN TombstoneMany(@[j], {id}) ELSE @[j]]]
               /\ dirs' = WriteSidecars(ds, view', {j \in Holders(v, id) : j < i}, o)
    BY DEF UpsertFails
  <1> DEFINE part == [o EXCEPT !.batch = [x \in Id |-> IF x \in done THEN @[x] ELSE NoRow]]
             v == ApplyOp(view, part)
             ds == WriteSidecars(dirs, v, Edited(view, part), part)
  <1>3. PICK i \in Holders(v, id) :
               /\ view' = [v EXCEPT !.immutables =
                             [j \in DOMAIN @ |-> IF j <= i THEN TombstoneMany(@[j], {id}) ELSE @[j]]]
               /\ dirs' = WriteSidecars(ds, view', {j \in Holders(v, id) : j < i}, o)
    BY <1>2
  <1>4. IsEdit(part)
    <2> DEFINE less == [x \in Id |-> IF x \in done THEN o.batch[x] ELSE NoRow]
    <2>1. less \in Batch
      BY DEF Batch, Rows, OptRow
    <2>2. part = [kind |-> "upsert", batch |-> less]
      OBVIOUS
    <2> HIDE DEF less
    <2> QED
      BY <2>1, <2>2 DEF IsEdit
  <1> HIDE DEF part
  <1>5. /\ v \in View /\ DOMAIN v.immutables = DOMAIN view.immutables
        /\ Len(v.immutables) = Len(view.immutables)
    BY <1>1, <1>4, ApplyOpFacts
  <1>6. Edited(view, part) \in SUBSET DOMAIN v.immutables
    BY <1>1, <1>4, <1>5, EditedArePositions
  <1> HIDE DEF v
  <1>7. DOMAIN ds = DOMAIN dirs /\ \A d \in DOMAIN ds : d \in Nat /\ ds[d] \in Segment
    BY <1>1, <1>5, <1>6, SidecarsType
  <1> HIDE DEF ds
  <1>8. id \in Id
    BY DEF BatchIds
  <1> DEFINE f == [j \in DOMAIN v.immutables |->
                     IF j <= i THEN TombstoneMany(v.immutables[j], {id}) ELSE v.immutables[j]]
  <1>9. /\ DOMAIN f = DOMAIN v.immutables
        /\ f = [j \in DOMAIN v.immutables |-> f[j]]
        /\ \A j \in DOMAIN v.immutables : f[j] \in Segment
    <2>1. \A j \in DOMAIN v.immutables : v.immutables[j] \in Segment
      BY <1>5, ViewFacts
    <2>2. \A j \in DOMAIN v.immutables : TombstoneMany(v.immutables[j], {id}) \in Segment
      BY <1>8, <2>1, TombstoneManyType
    <2> QED
      BY <2>1, <2>2
  <1>10. view' = [v EXCEPT !.immutables = f]
    BY <1>3
  <1> HIDE DEF f
  <1>11. view' \in View /\ view'.immutables = f /\ Len(f) = Len(v.immutables)
    BY <1>5, <1>9, <1>10, SegmentsEdited
  <1> DEFINE written == {j \in Holders(v, id) : j < i}
  <1>12. written \in SUBSET DOMAIN view'.immutables /\ dirs' = WriteSidecars(ds, view', written, o)
    BY <1>3, <1>9, <1>11 DEF Holders
  <1> HIDE DEF written
  <1>13. DOMAIN dirs' = DOMAIN ds /\ \A d \in DOMAIN ds : dirs'[d] \in Segment
    BY <1>7, <1>11, <1>12, SidecarsType
  <1> QED
    BY <1>5, <1>7, <1>11, <1>13

LEMMA ApplyFailsKeeps ==
    ASSUME Segs, NEW o, IsEdit(o), present, ApplyFails(o), UNCHANGED <<saved, present>>
    PROVE  Segs'
  <1>1. /\ IF o.kind = "upsert" THEN UpsertFails(o) ELSE EditFails(o)
        /\ Return
        /\ UNCHANGED <<manifest, segIds, nextSegId>>
    BY DEF ApplyFails
  <1>2. /\ view' \in View /\ Len(view'.immutables) = Len(view.immutables)
        /\ DOMAIN dirs' = DOMAIN dirs /\ \A d \in DOMAIN dirs : dirs'[d] \in Segment
    <2>1. CASE o.kind = "upsert"
      BY <1>1, <2>1, UpsertFailsTypes DEF IsEdit
    <2>2. CASE o.kind # "upsert"
      BY <1>1, <2>2, EditFailsTypes
    <2> QED
      BY <2>1, <2>2
  <1>3. pc' \in PC /\ records' \in Seq(LoggedRecord)
    BY <1>1, EndTypes DEF Segs
  <1> QED
    BY <1>1, <1>2, <1>3, EditKeeps

-----------------------------------------------------------------------------
(* The calls that begin with a record in the log. *)

LEMMA LoggedKeeps ==
    ASSUME Calls, NEW o \in Op, LogRecord(o), may' \in {Happened(o), may \cup Happened(o)}
    PROVE  Calls'
  <1>1. Record(nextLsn, o) \in LoggedRecord \cup {Torn}
    BY DEF Calls, Record, LoggedRecord
  <1>2. walFile' \in Seq(LoggedRecord \cup {Torn})
    BY <1>1 DEF Calls, LogRecord
  <1>3. nextLsn' \in Nat /\ nextLsn' > 0
    BY DEF Calls, LogRecord
  <1>4. may' \subseteq Rows \cup {Gone}
    BY HappenedType DEF Calls
  <1> QED
    BY <1>2, <1>3, <1>4 DEF Calls

LEMMA CallKeeps ==
    ASSUME IInv, NEW o \in Ops, Call(o)
    PROVE  IInv'
  <1>1. /\ o \in Op /\ o \notin {Create, Drop} /\ LogRecord(o) /\ Apply(o) /\ may' = Happened(o)
        /\ UNCHANGED <<saved, present>>
    BY FaultsAssumption DEF Call
  <1>2. present /\ IsEdit(o)
    BY <1>1, EditsAre DEF LogRecord
  <1>3. Segs'
    BY <1>1, <1>2, ApplyKeeps DEF IInv
  <1>4. Calls'
    BY <1>1, LoggedKeeps DEF IInv
  <1> QED
    BY <1>3, <1>4 DEF IInv

LEMMA CallFailsKeeps ==
    ASSUME IInv, NEW o \in Ops, CallFails(o)
    PROVE  IInv'
  <1>1. /\ o \in Op /\ o \notin {Create, Drop} /\ LogRecord(o) /\ ApplyFails(o)
        /\ may' = may \cup Happened(o)
        /\ UNCHANGED <<saved, present>>
    BY FaultsAssumption DEF CallFails
  <1>2. present /\ IsEdit(o)
    BY <1>1, EditsAre DEF LogRecord
  <1>3. Segs'
    BY <1>1, <1>2, ApplyFailsKeeps DEF IInv
  <1>4. Calls'
    BY <1>1, LoggedKeeps DEF IInv
  <1> QED
    BY <1>3, <1>4 DEF IInv

LEMMA AppendFailsKeeps ==
    ASSUME IInv, NEW o \in Ops, AppendFails(o)
    PROVE  IInv'
  <1>1. /\ o \in Op
        /\ walFile' \in {walFile, Append(walFile, Torn), Append(walFile, Record(nextLsn, o))}
        /\ may' = may \cup Happened(o)
        /\ UNCHANGED <<saved, dirs, memory, call>>
    BY FaultsAssumption DEF AppendFails
  <1>2. Segs'
    BY <1>1 DEF IInv, Segs, Ids, There, memory, call
  <1>3. walFile' \in Seq(LoggedRecord \cup {Torn})
    <2>1. Record(nextLsn, o) \in LoggedRecord
      BY <1>1 DEF IInv, Calls, Record, LoggedRecord
    <2>2. walFile \in Seq(LoggedRecord \cup {Torn})
      BY DEF IInv, Calls
    <2>3. /\ Append(walFile, Torn) \in Seq(LoggedRecord \cup {Torn})
          /\ Append(walFile, Record(nextLsn, o)) \in Seq(LoggedRecord \cup {Torn})
      BY <2>1, <2>2
    <2> QED
      BY <1>1, <2>2, <2>3
  <1>4. may' \subseteq Rows \cup {Gone}
    BY <1>1, HappenedType DEF IInv, Calls
  <1>5. Calls'
    BY <1>1, <1>3, <1>4 DEF IInv, Calls, memory
  <1> QED
    BY <1>2, <1>5 DEF IInv

(* create_collection_locked and the drop, whether the manifest is saved or *)
(* not.                                                                    *)
LEMMA CreateLockedKeeps ==
    ASSUME Segs, CreateLocked \/ CreateLockedFails
    PROVE  Segs'
  <1>1. /\ manifest' = [manifest EXCEPT !.entries = Append(@, <<>>)]
        /\ saved' \in {saved, manifest'}
        /\ Finish \/ Return
        /\ \/ present' = TRUE /\ view' = EmptyView /\ segIds' = <<>>
           \/ UNCHANGED <<present, view, segIds>>
        /\ UNCHANGED <<dirs, nextSegId>>
    BY DEF CreateLocked, CreateLockedFails, PushEntry
  <1>2. Proper(manifest') /\ Named(manifest') = Named(manifest)
    BY <1>1, EntryPushed DEF Segs
  <1>3. pc' \in PC /\ records' \in Seq(LoggedRecord)
    BY <1>1, EndTypes DEF Segs
  <1>4. /\ EmptyView \in View /\ EmptyView.immutables = <<>>
        /\ <<>> \in Seq(Nat) /\ Distinct(<<>>) /\ ToSet(<<>>) = {}
    BY EmptyViewType DEF EmptyView, Distinct, ToSet
  <1>5. Proper(saved') /\ Named(saved') \subseteq DOMAIN dirs'
    BY <1>1, <1>2 DEF Segs, There
  <1>6. There'
    BY <1>1, <1>2, <1>5 DEF Segs, There
  <1>7. /\ view' \in View /\ segIds' \in Seq(Nat) /\ Len(segIds') = Len(view'.immutables)
        /\ present' \in BOOLEAN /\ (~present' => view' = EmptyView)
    <2>1. CASE UNCHANGED <<present, view, segIds>>
      BY <2>1 DEF Segs
    <2>2. CASE present' \in BOOLEAN /\ view' = EmptyView /\ segIds' = <<>>
      <3>1. view'.immutables = segIds'
        BY <1>4, <2>2
      <3> QED
        BY <1>4, <2>2, <3>1
    <2> QED
      BY <1>1, <2>1, <2>2
  <1>8. Ids'
    BY <1>1, <1>4 DEF Segs, Ids
  <1> QED
    BY <1>1, <1>2, <1>3, <1>5, <1>6, <1>7, <1>8 DEF Segs

LEMMA DropLockedKeeps ==
    ASSUME Segs, DropLocked \/ DropLockedFails
    PROVE  Segs'
  <1>1. /\ manifest' = [manifest EXCEPT !.entries = <<>>]
        /\ Finish \/ Return
        /\ \/ /\ saved' = manifest'
              /\ dirs' = Without(dirs, ToSet(Segments1(manifest)))
              /\ present' = FALSE /\ view' = EmptyView /\ segIds' = <<>>
           \/ UNCHANGED <<saved, dirs, present, view, segIds>>
        /\ UNCHANGED nextSegId
    BY DEF DropLocked, DropLockedFails
  <1>2. Proper(manifest') /\ Named(manifest') = {}
    BY <1>1, EntriesDropped DEF Segs
  <1>3. pc' \in PC /\ records' \in Seq(LoggedRecord)
    BY <1>1, EndTypes DEF Segs
  <1>4. /\ EmptyView \in View /\ EmptyView.immutables = <<>>
        /\ <<>> \in Seq(Nat) /\ Distinct(<<>>) /\ ToSet(<<>>) = {}
    BY EmptyViewType DEF EmptyView, Distinct, ToSet
  <1>5. Proper(saved') /\ Named(saved') \subseteq DOMAIN dirs'
    BY <1>1, <1>2 DEF Segs, There
  <1>6. There'
    BY <1>2, <1>5 DEF There
  <1>7. \A d \in DOMAIN dirs' : d \in DOMAIN dirs /\ dirs'[d] = dirs[d]
    BY <1>1 DEF Without
  <1>8. /\ view' \in View /\ segIds' \in Seq(Nat) /\ Len(segIds') = Len(view'.immutables)
        /\ present' \in BOOLEAN /\ (~present' => view' = EmptyView)
    <2>1. CASE UNCHANGED <<present, view, segIds>>
      BY <2>1 DEF Segs
    <2>2. CASE present' \in BOOLEAN /\ view' = EmptyView /\ segIds' = <<>>
      <3>1. view'.immutables = segIds'
        BY <1>4, <2>2
      <3> QED
        BY <1>4, <2>2, <3>1
    <2> QED
      BY <1>1, <2>1, <2>2
  <1>9. Ids'
    BY <1>1, <1>4, <1>7 DEF Segs, Ids
  <1> QED
    BY <1>1, <1>2, <1>3, <1>5, <1>6, <1>7, <1>8, <1>9 DEF Segs

LEMMA CreateOrDropKeeps ==
    ASSUME IInv, NEW o \in Ops, CreateOrDrop(o)
    PROVE  IInv'
  <1>1. /\ o \in Op /\ LogRecord(o)
        /\ may' \in {Happened(o), may \cup Happened(o)}
        /\ \/ CreateLocked \/ CreateLockedFails
           \/ DropLocked \/ DropLockedFails
    BY FaultsAssumption DEF CreateOrDrop
  <1>2. Segs'
    BY <1>1, CreateLockedKeeps, DropLockedKeeps DEF IInv
  <1>3. Calls'
    BY <1>1, LoggedKeeps DEF IInv
  <1> QED
    BY <1>2, <1>3 DEF IInv

-----------------------------------------------------------------------------
(* New segments. *)

LEMMA PutFacts ==
    ASSUME Segs, NEW seg \in Segment
    PROVE  /\ DOMAIN Put(nextSegId, seg) = DOMAIN dirs \cup {nextSegId}
           /\ \A d \in DOMAIN Put(nextSegId, seg) : /\ d \in Nat /\ d < nextSegId + 1
                                                    /\ Put(nextSegId, seg)[d] \in Segment
  <1>1. /\ nextSegId \in Nat
        /\ \A d \in DOMAIN dirs : d \in Nat /\ dirs[d] \in Segment /\ d < nextSegId
    BY DEF Segs, Ids
  <1>2. DOMAIN Put(nextSegId, seg) = DOMAIN dirs \cup {nextSegId}
    BY DEF Put
  <1>3. \A d \in DOMAIN Put(nextSegId, seg) :
          Put(nextSegId, seg)[d] = IF d = nextSegId THEN seg ELSE dirs[d]
    BY DEF Put
  <1> QED
    BY <1>1, <1>2, <1>3

(* The next id is nobody's. *)
LEMMA NextIdIsFree ==
    ASSUME Segs
    PROVE  /\ nextSegId \notin DOMAIN dirs /\ nextSegId \notin ToSet(segIds)
           /\ nextSegId \notin Named(manifest) /\ nextSegId \notin Named(saved)
           /\ ToSet(segIds) \subseteq Nat
  <1>1. \A d \in DOMAIN dirs \cup ToSet(segIds) : d < nextSegId
    BY DEF Segs, Ids
  <1>2. nextSegId \in Nat /\ ~(nextSegId < nextSegId)
    BY DEF Segs
  <1>3. ToSet(segIds) \subseteq Nat
    <2>1. \A i \in DOMAIN segIds : segIds[i] \in Nat
      BY DEF Segs
    <2> QED
      BY <2>1 DEF ToSet
  <1> QED
    BY <1>1, <1>2, <1>3 DEF Segs, There

(* The id of a segment that could not be written is used up. *)
LEMMA SegmentFailsKeeps ==
    ASSUME Segs, NEW seg \in Segment,
           dirs' \in {dirs, Put(nextSegId, seg)}, nextSegId' = nextSegId + 1,
           pc' \in PC, records' \in Seq(LoggedRecord),
           UNCHANGED <<saved, manifest, view, segIds, present>>
    PROVE  Segs'
  <1>1. nextSegId \in Nat /\ (\A d \in DOMAIN dirs \cup ToSet(segIds) : d < nextSegId)
        /\ \A d \in DOMAIN dirs : d \in Nat /\ dirs[d] \in Segment
    BY DEF Segs, Ids
  <1>2. DOMAIN dirs \subseteq DOMAIN dirs' /\ \A d \in DOMAIN dirs' : /\ d \in Nat /\ d < nextSegId'
                                                                   /\ dirs'[d] \in Segment
    <2>1. CASE dirs' = dirs
      BY <1>1, <2>1
    <2>2. CASE dirs' = Put(nextSegId, seg)
      BY <1>1, <2>2, PutFacts
    <2> QED
      BY <2>1, <2>2
  <1>3. ToSet(segIds) \subseteq Nat
    BY NextIdIsFree
  <1>4. Ids'
    BY <1>1, <1>2, <1>3 DEF Segs, Ids
  <1>5. There'
    BY <1>2 DEF Segs, There
  <1> QED
    BY <1>1, <1>2, <1>4, <1>5 DEF Segs

LEMMA RebuildSkipKeeps ==
    ASSUME IInv, RebuildSkip
    PROVE  IInv'
  <1>1. /\ Finish \/ UNCHANGED <<pc, records>>
        /\ UNCHANGED <<saved, walFile, dirs, manifest, present, view, segIds, nextSegId, nextLsn, may>>
    BY DEF RebuildSkip, disk, memory, history
  <1>2. pc' \in PC /\ records' \in Seq(LoggedRecord)
    BY <1>1, EndTypes DEF IInv, Segs
  <1>3. Segs'
    BY <1>1, <1>2 DEF IInv, Segs, Ids, There
  <1>4. Calls'
    BY <1>1 DEF IInv, Calls
  <1> QED
    BY <1>3, <1>4 DEF IInv

(* The rebuilt segment replaces the old one in the view and in the manifest*)
(* in memory; the old directory goes when no manifest names it.            *)
LEMMA RebuildSwapKeeps ==
    ASSUME Segs, Min(todo) \in DOMAIN segIds, RebuildSwap, UNCHANGED present
    PROVE  Segs'
  <1> DEFINE si == Min(todo)
             old == segIds[si]
             merged == Rebuilt(view.immutables[si])
             gone == IsEmpty(merged)
             new == IF gone THEN {} ELSE {nextSegId}
             written == IF new = {} THEN dirs ELSE Put(nextSegId, SegmentOf(merged))
  <1>1. /\ view' = ApplyRebuild(view, si)
        /\ nextSegId' = nextSegId + Cardinality(new)
        /\ segIds' = Replaced(segIds, old, new)
        /\ manifest' = WithFirst(manifest, Replaced(Segments1(manifest), old, new))
        /\ \/ SaveThenRemove(written, {old}) /\ (Finish \/ UNCHANGED <<pc, records>>)
           \/ StopsBeforeRemove(written, {old}) /\ Return
    BY DEF RebuildSwap
  <1>2. /\ view \in View /\ segIds \in Seq(Nat) /\ Distinct(segIds)
        /\ Len(segIds) = Len(view.immutables)
        /\ DOMAIN segIds = DOMAIN view.immutables /\ DOMAIN segIds = 1..Len(segIds)
        /\ Proper(manifest) /\ Proper(saved) /\ nextSegId \in Nat
        /\ \A d \in DOMAIN dirs : d \in Nat /\ dirs[d] \in Segment
        /\ \A d \in DOMAIN dirs \cup ToSet(segIds) : d < nextSegId
        /\ Named(saved) \subseteq DOMAIN dirs /\ Named(manifest) \subseteq DOMAIN dirs
    <2>1. segIds \in Seq(Nat) /\ Len(segIds) = Len(view.immutables) /\ view \in View
      BY DEF Segs
    <2>2. DOMAIN segIds = 1..Len(segIds)
      BY <2>1
    <2> QED
      BY <2>1, <2>2, ViewFacts DEF Segs, Ids, There
  <1>3. /\ si \in DOMAIN segIds /\ old \in ToSet(segIds) /\ old \in Nat /\ old # nextSegId
        /\ gone \in BOOLEAN
    BY <1>2, NextIdIsFree DEF ToSet, IsEmpty
  <1>4. /\ view' \in View /\ SegmentOf(merged) \in Segment
        /\ Len(view'.immutables) = IF gone THEN Len(view.immutables) - 1 ELSE Len(view.immutables)
    BY <1>1, <1>2, <1>3, RebuildType
  <1>5. nextSegId' = IF gone THEN nextSegId ELSE nextSegId + 1
    <2>1. Cardinality({}) = 0 /\ Cardinality({nextSegId}) = 1
      BY FS_EmptySet, FS_Singleton
    <2> QED
      BY <1>1, <1>2, <2>1
  <1>6. /\ written = IF gone THEN dirs ELSE Put(nextSegId, SegmentOf(merged))
        /\ DOMAIN written = DOMAIN dirs \cup new
    BY <1>4, PutFacts
  <1>7. \A d \in DOMAIN written : d \in Nat /\ written[d] \in Segment /\ d < nextSegId'
    BY <1>2, <1>4, <1>5, <1>6, PutFacts
  <1> HIDE DEF merged, gone, written
  <1>8. IsNew(new, nextSegId) /\ (new = {} <=> gone) /\ old = segIds[si]
    BY DEF IsNew
  <1> HIDE DEF new, old, si
  <1>9. /\ segIds' \in Seq(Nat) /\ Distinct(segIds')
        /\ ToSet(segIds') = (ToSet(segIds) \ {old}) \cup new
        /\ Len(segIds') = Len(view'.immutables)
    <2>1. nextSegId \notin ToSet(segIds)
      BY NextIdIsFree
    <2>2. /\ Replaced(segIds, old, new) \in Seq(Nat) /\ Distinct(Replaced(segIds, old, new))
          /\ ToSet(Replaced(segIds, old, new)) = (ToSet(segIds) \ {old}) \cup new
          /\ \A k \in DOMAIN segIds : segIds[k] = old =>
               Len(Replaced(segIds, old, new)) = IF new = {} THEN Len(segIds) - 1 ELSE Len(segIds)
      <3>1. segIds \in Seq(Nat) /\ Distinct(segIds) /\ nextSegId \in Nat
        BY <1>2
      <3>2. old \in Nat /\ IsNew(new, nextSegId)
        BY <1>3, <1>8
      <3>3. Replaces(segIds, old, new)
        BY <2>1, <3>1, <3>2, ReplacedFacts
      <3> QED
        BY <3>3 DEF Replaces
    <2>3. Len(segIds') = IF gone THEN Len(segIds) - 1 ELSE Len(segIds)
      BY <1>1, <1>3, <1>8, <2>2
    <2> QED
      BY <1>1, <1>2, <1>4, <2>2, <2>3
  <1>10. /\ Proper(manifest')
         /\ manifest.entries = <<>> => manifest' = manifest
         /\ manifest.entries # <<>> => Named(manifest') = (Named(manifest) \ {old}) \cup new
    <2>1. nextSegId \notin Named(manifest)
      BY NextIdIsFree
    <2> QED
      BY <1>1, <1>2, <1>3, <1>8, <2>1, EntrySwapped
  <1>11. \/ manifest.entries # <<>> /\ saved' = manifest' /\ dirs' = Without(written, {old})
         \/ saved' = saved /\ dirs' = written
    BY <1>1 DEF SaveThenRemove, StopsBeforeRemove, Save, Write, SaveFails
  <1>12. /\ DOMAIN dirs' \subseteq DOMAIN written
         /\ \A d \in DOMAIN dirs' : d \in Nat /\ dirs'[d] \in Segment /\ d < nextSegId'
    BY <1>7, <1>11 DEF Without
  <1>13. Proper(saved') /\ There'
    <2>1. CASE manifest.entries # <<>> /\ saved' = manifest' /\ dirs' = Without(written, {old})
      <3>1. DOMAIN dirs' = (DOMAIN dirs \cup new) \ {old}
        BY <1>6, <2>1 DEF Without
      <3>2. Named(manifest') \subseteq DOMAIN dirs'
        <4>1. Named(manifest') = (Named(manifest) \ {old}) \cup new
          BY <1>10, <2>1
        <4>2. old \notin new
          BY <1>3, <1>8 DEF IsNew
        <4> QED
          BY <1>2, <3>1, <4>1, <4>2
      <3> QED
        BY <1>10, <2>1, <3>2 DEF There
    <2>2. CASE saved' = saved /\ dirs' = written
      <3>1. Named(manifest') \subseteq DOMAIN dirs'
        BY <1>2, <1>6, <1>10, <2>2
      <3> QED
        BY <1>2, <1>6, <2>2, <3>1 DEF There
    <2> QED
      BY <1>11, <2>1, <2>2
  <1>14. Ids'
    <2>1. ASSUME NEW d \in ToSet(segIds') PROVE d < nextSegId'
      <3>1. CASE d \in ToSet(segIds)
        <4>1. d \in Nat /\ d < nextSegId
          BY <1>2, <3>1, NextIdIsFree
        <4> QED
          BY <1>2, <1>5, <4>1
      <3>2. CASE d \in new
        <4>1. d = nextSegId /\ ~gone
          BY <1>8, <3>2 DEF IsNew
        <4> QED
          BY <1>2, <1>5, <4>1
      <3> QED
        BY <1>9, <3>1, <3>2
    <2> QED
      BY <1>9, <1>12, <2>1 DEF Ids
  <1>15. pc' \in PC /\ records' \in Seq(LoggedRecord)
    BY <1>1, EndTypes DEF Segs
  <1>16. present /\ present' /\ nextSegId' \in Nat
    <2>1. ~present => DOMAIN segIds = {}
      <3>1. EmptyView.immutables = <<>>
        BY DEF EmptyView
      <3> QED
        BY <1>2, <3>1 DEF Segs
    <2> QED
      BY <1>2, <1>3, <1>5, <2>1 DEF Segs
  <1> QED
    BY <1>4, <1>9, <1>10, <1>12, <1>13, <1>14, <1>15, <1>16 DEF Segs

LEMMA RebuildKeeps ==
    ASSUME IInv, Rebuild
    PROVE  IInv'
  <1>1. /\ Min(todo) \in DOMAIN segIds
        /\ RebuildSwap \/ RebuildSegmentFails
        /\ UNCHANGED <<walFile, present, nextLsn, may>>
    BY DEF Rebuild
  <1>2. ASSUME RebuildSwap PROVE Segs'
    BY <1>1, <1>2, RebuildSwapKeeps DEF IInv
  <1>3. ASSUME RebuildSegmentFails PROVE Segs'
    <2> DEFINE seg == SegmentOf(Rebuilt(view.immutables[Min(todo)]))
    <2>1. /\ dirs' \in {dirs, Put(nextSegId, seg)} /\ nextSegId' = nextSegId + 1
          /\ Return
          /\ UNCHANGED <<saved, manifest, view, segIds>>
      BY <1>3 DEF RebuildSegmentFails, SegmentFails
    <2>2. seg \in Segment
      <3>1. segIds \in Seq(Nat) /\ Len(segIds) = Len(view.immutables) /\ view \in View
        BY DEF IInv, Segs
      <3>2. Min(todo) \in DOMAIN view.immutables
        BY <1>1, <3>1, ViewFacts
      <3> QED
        BY <3>1, <3>2, RebuildType
    <2>3. pc' \in PC /\ records' \in Seq(LoggedRecord)
      BY <2>1, EndTypes DEF IInv, Segs
    <2> HIDE DEF seg
    <2> QED
      BY <1>1, <2>1, <2>2, <2>3, SegmentFailsKeeps DEF IInv
  <1>4. Segs'
    BY <1>1, <1>2, <1>3
  <1>5. Calls'
    BY <1>1 DEF IInv, Calls
  <1> QED
    BY <1>4, <1>5 DEF IInv

(* A flush: the new segment is in no manifest, in that in memory, or in    *)
(* both; and the view has it or not.                                       *)
LEMMA FlushPublishes ==
    ASSUME IInv, NEW seg \in Segment,
           manifest.entries # <<>>,
           manifest' = WithSegments(manifest, Append(Segments1(manifest), nextSegId), nextLsn - 1),
           saved' = saved \/ saved' = manifest',
           dirs' = Put(nextSegId, seg), nextSegId' = nextSegId + 1,
           \/ UNCHANGED <<view, segIds>>
           \/ present /\ view' = ApplyFlush(view, seg) /\ segIds' = Append(segIds, nextSegId),
           UNCHANGED <<present, pc, records>>
    PROVE  Segs'
  <1>1. Segs /\ nextLsn - 1 \in Nat
    BY DEF IInv, Calls
  <1>2. /\ Proper(manifest) /\ Proper(saved) /\ nextSegId \in Nat
        /\ view \in View /\ segIds \in Seq(Nat) /\ Len(segIds) = Len(view.immutables)
        /\ Distinct(segIds)
        /\ \A d \in ToSet(segIds) : d \in Nat /\ d < nextSegId
        /\ Named(saved) \subseteq DOMAIN dirs /\ Named(manifest) \subseteq DOMAIN dirs
    BY <1>1, NextIdIsFree DEF Segs, Ids, There
  <1>3. /\ DOMAIN dirs' = DOMAIN dirs \cup {nextSegId}
        /\ \A d \in DOMAIN dirs' : d \in Nat /\ d < nextSegId' /\ dirs'[d] \in Segment
    BY <1>1, PutFacts
  <1> DEFINE first == Segments1(manifest)
             list == Append(first, nextSegId)
  <1>4. list \in Seq(Nat) /\ Distinct(list) /\ ToSet(list) = Named(manifest) \cup {nextSegId}
    <2>1. first \in Seq(Nat) /\ Distinct(first) /\ Named(manifest) = ToSet(first)
      BY <1>2, ProperFacts
    <2>2. nextSegId \notin ToSet(first)
      BY <1>1, <2>1, NextIdIsFree
    <2> HIDE DEF first
    <2> QED
      BY <1>2, <2>1, <2>2, DistinctAppended
  <1>5. manifest' = WithSegments(manifest, list, nextLsn - 1)
    OBVIOUS
  <1> HIDE DEF list
  <1>6. Proper(manifest') /\ Named(manifest') = Named(manifest) \cup {nextSegId}
    BY <1>1, <1>2, <1>4, <1>5, SegmentsChanged
  <1>7. Proper(saved') /\ There'
    BY <1>2, <1>3, <1>6 DEF There
  <1>8. /\ view' \in View /\ segIds' \in Seq(Nat) /\ Len(segIds') = Len(view'.immutables)
        /\ Distinct(segIds') /\ ToSet(segIds') \subseteq ToSet(segIds) \cup {nextSegId}
        /\ (~present => view' = EmptyView)
    <2>1. CASE UNCHANGED <<view, segIds>>
      BY <1>1, <1>2, <2>1 DEF Segs
    <2>2. CASE present /\ view' = ApplyFlush(view, seg) /\ segIds' = Append(segIds, nextSegId)
      <3>1. view' \in View
        BY <1>2, <2>2, ApplyFlushType
      <3>2. view'.immutables = Append(view.immutables, seg)
        BY <2>2 DEF ApplyFlush
      <3>3. /\ segIds' \in Seq(Nat) /\ Len(segIds') = Len(segIds) + 1
            /\ Len(view'.immutables) = Len(view.immutables) + 1
        BY <1>2, <2>2, <3>2, ViewFacts
      <3>4. Distinct(segIds') /\ ToSet(segIds') = ToSet(segIds) \cup {nextSegId}
        BY <1>1, <1>2, <2>2, NextIdIsFree, DistinctAppended
      <3> QED
        BY <1>2, <2>2, <3>1, <3>3, <3>4
    <2> QED
      BY <2>1, <2>2
  <1>9. Ids'
    <2>1. \A d \in ToSet(segIds') : d < nextSegId'
      BY <1>2, <1>8
    <2> QED
      BY <1>3, <1>8, <2>1 DEF Ids
  <1> QED
    BY <1>1, <1>2, <1>3, <1>6, <1>7, <1>8, <1>9 DEF Segs

LEMMA FlushKeeps ==
    ASSUME IInv, Flush
    PROVE  IInv'
  <1> DEFINE seg == SegmentOf(view.mutable)
             Publishes == /\ manifest.entries # <<>>
                          /\ manifest' = WithSegments(manifest, Append(Segments1(manifest), nextSegId),
                                                      nextLsn - 1)
                          /\ (saved' = saved \/ saved' = manifest')
                          /\ dirs' = Put(nextSegId, seg)
                          /\ \/ UNCHANGED <<view, segIds>>
                             \/ view' = ApplyFlush(view, seg) /\ segIds' = Append(segIds, nextSegId)
             Staged == /\ dirs' \in {dirs, Put(nextSegId, seg)}
                       /\ UNCHANGED <<saved, manifest, view, segIds>>
  <1>1. Segs /\ seg \in Segment /\ view.mutable \in Mutable
    <2>1. view \in View
      BY DEF IInv, Segs
    <2>2. view.mutable \in Mutable
      BY <2>1, ViewFacts
    <2> QED
      BY <2>2, RebuildsAreSegments DEF IInv
  <1>2. /\ nextSegId' = nextSegId + 1
        /\ walFile' = walFile \/ walFile' = <<>>
        /\ ~IsEmpty(view.mutable)
        /\ UNCHANGED <<present, nextLsn, pc, records, may>>
    BY DEF Flush, SegmentFails, call
  <1>3. Publishes \/ Staged
    <2>1. manifest.entries # <<>> => Segments1(manifest) = manifest.entries[1]
      BY <1>1, ProperFacts DEF Segs
    <2> QED
      BY <2>1 DEF Flush, SegmentFails, Write, SaveFails, WithSegments
  <1>4. present
    <2>1. IsEmpty(EmptyView.mutable)
      BY DEF EmptyView, EmptyMutable, IsEmpty, RowIds
    <2> QED
      BY <1>1, <1>2, <2>1 DEF Segs
  <1> HIDE DEF seg
  <1>5. ASSUME Publishes PROVE Segs'
    BY <1>1, <1>2, <1>4, <1>5, FlushPublishes
  <1>6. ASSUME Staged PROVE Segs'
    <2>1. pc' \in PC /\ records' \in Seq(LoggedRecord)
      BY <1>1, <1>2 DEF Segs
    <2> QED
      BY <1>1, <1>2, <1>6, <2>1, SegmentFailsKeeps
  <1>7. Calls'
    <2>1. <<>> \in Seq(LoggedRecord \cup {Torn})
      OBVIOUS
    <2> QED
      BY <1>2, <2>1 DEF IInv, Calls
  <1> QED
    BY <1>3, <1>5, <1>6, <1>7 DEF IInv

(* A compaction: one new segment or none takes the place of them all.      *)
LEMMA CompactSwapKeeps ==
    ASSUME Segs, present,
           NEW ids, NEW written,
           ids = IF IsEmpty(Merged(view)) THEN <<>> ELSE <<nextSegId>>,
           written = IF IsEmpty(Merged(view)) THEN dirs ELSE Put(nextSegId, SegmentOf(Merged(view))),
           view' = ApplyCompact(view), segIds' = ids, nextSegId' = nextSegId + Len(ids),
           manifest' = WithFirst(manifest, ids),
           \/ manifest.entries # <<>> /\ saved' = manifest' /\ dirs' = Without(written, ToSet(segIds))
           \/ saved' = saved /\ dirs' = written,
           UNCHANGED <<present, pc, records>>
    PROVE  Segs'
  <1>1. /\ Proper(manifest) /\ Proper(saved) /\ nextSegId \in Nat /\ view \in View
        /\ \A d \in DOMAIN dirs : d \in Nat /\ dirs[d] \in Segment /\ d < nextSegId
        /\ Named(saved) \subseteq DOMAIN dirs /\ Named(manifest) \subseteq DOMAIN dirs
    BY DEF Segs, Ids, There
  <1>2. /\ view' \in View /\ SegmentOf(Merged(view)) \in Segment
        /\ Len(view'.immutables) = IF IsEmpty(Merged(view)) THEN 0 ELSE 1
    BY <1>1, CompactType
  <1>3. /\ ids \in Seq(Nat) /\ Distinct(ids) /\ Len(ids) = Len(view'.immutables)
        /\ ToSet(ids) = IF IsEmpty(Merged(view)) THEN {} ELSE {nextSegId}
        /\ nextSegId' = IF IsEmpty(Merged(view)) THEN nextSegId ELSE nextSegId + 1
    <2>1. CASE IsEmpty(Merged(view))
      <3>1. ids = <<>> /\ <<>> \in Seq(Nat) /\ Len(<<>>) = 0 /\ DOMAIN <<>> = {}
        BY <2>1
      <3> QED
        BY <1>1, <1>2, <2>1, <3>1 DEF Distinct, ToSet
    <2>2. CASE ~IsEmpty(Merged(view))
      <3>1. /\ ids = <<nextSegId>> /\ <<nextSegId>> \in Seq(Nat) /\ Len(<<nextSegId>>) = 1
            /\ DOMAIN <<nextSegId>> = {1} /\ <<nextSegId>>[1] = nextSegId
        BY <1>1, <2>2
      <3>2. ToSet(ids) = {nextSegId} /\ Distinct(ids)
        BY <3>1 DEF Distinct, ToSet
      <3> QED
        BY <1>1, <1>2, <2>2, <3>1, <3>2
    <2> QED
      BY <2>1, <2>2
  <1>4. /\ DOMAIN written = DOMAIN dirs \cup ToSet(ids)
        /\ \A d \in DOMAIN written : d \in Nat /\ written[d] \in Segment /\ d < nextSegId'
    <2>1. CASE IsEmpty(Merged(view))
      BY <1>1, <1>3, <2>1
    <2>2. CASE ~IsEmpty(Merged(view))
      BY <1>2, <1>3, <2>2, PutFacts
    <2> QED
      BY <2>1, <2>2
  <1>5. /\ Proper(manifest')
        /\ manifest.entries = <<>> => manifest' = manifest
        /\ manifest.entries # <<>> => Named(manifest') = ToSet(ids)
    BY <1>1, <1>3, EntryReplaced
  <1>6. /\ DOMAIN dirs' \subseteq DOMAIN written
        /\ \A d \in DOMAIN dirs' : d \in Nat /\ dirs'[d] \in Segment /\ d < nextSegId'
    BY <1>4 DEF Without
  <1>7. Proper(saved') /\ There'
    <2>1. CASE manifest.entries # <<>> /\ saved' = manifest' /\ dirs' = Without(written, ToSet(segIds))
      <3>1. DOMAIN dirs' = (DOMAIN dirs \cup ToSet(ids)) \ ToSet(segIds)
        BY <1>4, <2>1 DEF Without
      <3>2. \A d \in ToSet(ids) : d \notin ToSet(segIds)
        BY <1>3, NextIdIsFree
      <3> QED
        BY <1>5, <2>1, <3>1, <3>2 DEF There
    <2>2. CASE saved' = saved /\ dirs' = written
      BY <1>1, <1>4, <1>5, <2>2 DEF There
    <2> QED
      BY <2>1, <2>2
  <1>8. Ids'
    <2>1. \A d \in ToSet(ids) : d < nextSegId'
      BY <1>1, <1>3
    <2> QED
      BY <1>3, <1>6, <2>1 DEF Ids
  <1>9. nextSegId' \in Nat
    BY <1>1, <1>3
  <1> QED
    BY <1>2, <1>3, <1>5, <1>6, <1>7, <1>8, <1>9 DEF Segs

LEMMA CompactKeeps ==
    ASSUME IInv, Compact
    PROVE  IInv'
  <1> DEFINE merged == Merged(view)
             ids == IF IsEmpty(merged) THEN <<>> ELSE <<nextSegId>>
             written == IF IsEmpty(merged) THEN dirs ELSE Put(nextSegId, SegmentOf(merged))
             Swap == /\ view' = ApplyCompact(view)
                     /\ segIds' = ids
                     /\ nextSegId' = nextSegId + Len(ids)
                     /\ manifest' = WithFirst(manifest, ids)
                     /\ \/ /\ manifest.entries # <<>> /\ saved' = manifest'
                           /\ dirs' = Without(written, ToSet(segIds))
                        \/ saved' = saved /\ dirs' = written
             Fail == /\ dirs' \in {dirs, Put(nextSegId, SegmentOf(merged))}
                     /\ nextSegId' = nextSegId + 1
                     /\ UNCHANGED <<saved, manifest, view, segIds>>
  <1>1. /\ Segs /\ present /\ (Swap \/ Fail)
        /\ UNCHANGED <<present, pc, records, walFile, nextLsn, may>>
    BY DEF IInv, Compact, SegmentFails, SaveThenRemove, StopsBeforeRemove, Save, Write, SaveFails, call
  <1>2. SegmentOf(merged) \in Segment
    BY <1>1, CompactType DEF Segs
  <1>3. ASSUME Swap PROVE Segs'
    <2> HIDE DEF ids, written
    <2>1. /\ ids = IF IsEmpty(merged) THEN <<>> ELSE <<nextSegId>>
          /\ written = IF IsEmpty(merged) THEN dirs ELSE Put(nextSegId, SegmentOf(merged))
      BY DEF ids, written
    <2> QED
      BY <1>1, <1>3, <2>1, CompactSwapKeeps
  <1>4. ASSUME Fail PROVE Segs'
    <2>1. pc' \in PC /\ records' \in Seq(LoggedRecord)
      BY <1>1 DEF Segs
    <2> QED
      BY <1>1, <1>2, <1>4, <2>1, SegmentFailsKeeps
  <1>5. Calls'
    BY <1>1 DEF IInv, Calls
  <1> QED
    BY <1>1, <1>3, <1>4, <1>5 DEF IInv

-----------------------------------------------------------------------------
(* Opens. *)

(* The collection is the last entry of the name; it has segments only when *)
(* it is the first as well.                                                *)
LEMMA LastEntry ==
    ASSUME NEW m, Proper(m), m.entries # <<>>
    PROVE  /\ Last(m.entries) \in Seq(Nat) /\ Distinct(Last(m.entries))
           /\ ToSet(Last(m.entries)) \subseteq Named(m)
  <1>1. /\ Len(m.entries) \in DOMAIN m.entries /\ Last(m.entries) = m.entries[Len(m.entries)]
        /\ 1 \in DOMAIN m.entries /\ Segments1(m) = m.entries[1] /\ Named(m) = ToSet(Segments1(m))
        /\ Segments1(m) \in Seq(Nat) /\ Distinct(Segments1(m))
    BY ProperFacts DEF Last
  <1>2. CASE Len(m.entries) = 1
    BY <1>1, <1>2
  <1>3. CASE Len(m.entries) # 1
    <2>1. Last(m.entries) = <<>>
      BY <1>1, <1>3 DEF Proper
    <2>2. <<>> \in Seq(Nat) /\ Distinct(<<>>) /\ ToSet(<<>>) = {}
      BY DEF Distinct, ToSet
    <2> QED
      BY <2>1, <2>2
  <1> QED
    BY <1>2, <1>3

LEMMA OpenKeeps ==
    ASSUME IInv, Open
    PROVE  IInv'
  <1>1. /\ Proper(saved) /\ walFile \in Seq(LoggedRecord \cup {Torn})
        /\ \A d \in DOMAIN dirs : d \in Nat /\ dirs[d] \in Segment
    BY DEF IInv, Segs, Calls
  <1>2. /\ Named(saved) \subseteq DOMAIN dirs
        /\ walFile' = Intact(walFile)
        /\ nextLsn' = NextLsnAtOpen(Intact(walFile), saved.floor)
        /\ records' = ToReplay(Intact(walFile), saved.floor)
        /\ dirs' = [d \in Named(saved) |-> dirs[d]]
        /\ manifest' = saved /\ saved' = saved
        /\ present' = (saved.entries # <<>>)
        /\ segIds' = IF present' THEN Last(saved.entries) ELSE <<>>
        /\ view' = [mutable |-> EmptyMutable,
                    immutables |-> [i \in DOMAIN segIds' |-> dirs[segIds'[i]]]]
        /\ nextSegId' = Max({0} \cup Named(saved)) + 1
        /\ pc' = "replay" /\ may' = may
    BY DEF Open
  <1>3. walFile' \in Seq(LoggedRecord) /\ saved.floor \in Nat
    BY <1>1, <1>2, IntactType, ProperFacts
  <1>4. records' \in Seq(LoggedRecord)
    BY <1>2, <1>3, ToReplayType
  <1>5. nextLsn' \in Nat /\ nextLsn' > 0
    BY <1>2, <1>3, NextLsnType
  <1>6. Calls'
    <2>1. walFile' \in Seq(LoggedRecord \cup {Torn})
      BY <1>3
    <2> QED
      BY <1>2, <1>5, <2>1 DEF IInv, Calls
  <1>7. /\ segIds' \in Seq(Nat) /\ Distinct(segIds') /\ ToSet(segIds') \subseteq Named(saved)
        /\ DOMAIN segIds' = 1..Len(segIds') /\ Len(segIds') \in Nat
        /\ (~present' => DOMAIN segIds' = {})
    <2>1. <<>> \in Seq(Nat) /\ Distinct(<<>>) /\ ToSet(<<>>) = {} /\ DOMAIN <<>> = {}
      BY DEF Distinct, ToSet
    <2>2. CASE present'
      <3>1. saved.entries # <<>> /\ segIds' = Last(saved.entries)
        BY <1>2, <2>2
      <3>2. segIds' \in Seq(Nat) /\ Distinct(segIds') /\ ToSet(segIds') \subseteq Named(saved)
        BY <1>1, <3>1, LastEntry
      <3> QED
        BY <2>2, <3>2
    <2>3. CASE ~present'
      BY <1>2, <2>1, <2>3
    <2> QED
      BY <2>2, <2>3
  <1>8. \A i \in DOMAIN segIds' : segIds'[i] \in Named(saved) /\ dirs[segIds'[i]] \in Segment
    BY <1>1, <1>2, <1>7 DEF ToSet
  <1> DEFINE loaded == [i \in DOMAIN segIds' |-> dirs[segIds'[i]]]
  <1>9. loaded \in Seq(Segment) /\ Len(loaded) = Len(segIds') /\ (~present' => loaded = <<>>)
    <2>1. loaded \in [1..Len(segIds') -> Segment]
      BY <1>7, <1>8
    <2>2. loaded \in Seq(Segment)
      BY <1>7, <2>1
    <2>3. Len(loaded) = Len(segIds')
      BY <1>7, <2>1, <2>2
    <2>4. ASSUME ~present' PROVE loaded = <<>>
      BY <1>7, <2>2, <2>4
    <2> QED
      BY <2>2, <2>3, <2>4
  <1>10. view' = [mutable |-> EmptyMutable, immutables |-> loaded]
    BY <1>2
  <1> HIDE DEF loaded
  <1>11. /\ view' \in View /\ Len(segIds') = Len(view'.immutables)
         /\ (~present' => view' = EmptyView)
    BY <1>9, <1>10, EmptyMutableType DEF View, EmptyView
  <1>12. nextSegId' \in Nat /\ \A d \in Named(saved) : d \in Nat /\ d < nextSegId'
    <2> DEFINE first == Segments1(saved)
    <2>1. first \in Seq(Nat) /\ Named(saved) = ToSet(first)
      BY <1>1, ProperFacts
    <2> HIDE DEF first
    <2>2. /\ Max({0} \cup ToSet(first)) \in Nat
          /\ \A i \in DOMAIN first : first[i] \in Nat /\ first[i] <= Max({0} \cup ToSet(first))
      BY <2>1, MaxOfSeq
    <2>3. \A d \in ToSet(first) : d \in Nat /\ d <= Max({0} \cup ToSet(first))
      BY <2>2 DEF ToSet
    <2>4. ASSUME NEW m \in Nat, \A d \in ToSet(first) : d \in Nat /\ d <= m
          PROVE  m + 1 \in Nat /\ \A d \in ToSet(first) : d \in Nat /\ d < m + 1
      BY <2>4
    <2>5. /\ Max({0} \cup ToSet(first)) + 1 \in Nat
          /\ \A d \in ToSet(first) : d \in Nat /\ d < Max({0} \cup ToSet(first)) + 1
      BY <2>2, <2>3, <2>4
    <2> QED
      BY <1>2, <2>1, <2>5
  <1>13. DOMAIN dirs' = Named(saved) /\ \A d \in DOMAIN dirs' : d \in Nat /\ dirs'[d] \in Segment
    BY <1>1, <1>2
  <1>14. Ids'
    BY <1>7, <1>12, <1>13 DEF Ids
  <1>15. There'
    BY <1>2, <1>13 DEF There
  <1>16. pc' \in PC /\ present' \in BOOLEAN /\ Proper(saved') /\ Proper(manifest')
    BY <1>1, <1>2 DEF PC
  <1>17. Segs'
    BY <1>4, <1>7, <1>11, <1>12, <1>13, <1>14, <1>15, <1>16 DEF Segs
  <1> QED
    BY <1>6, <1>17 DEF IInv

(* replay_wal ends, or open is refused. *)
LEMMA ReplayedKeeps ==
    ASSUME Segs, pc' \in PC, records' \in Seq(LoggedRecord),
           UNCHANGED <<saved, dirs, manifest, present, view, segIds, nextSegId>>
    PROVE  Segs'
  BY DEF Segs, Ids, There

LEMMA ReplayKeeps ==
    ASSUME IInv, Replay
    PROVE  IInv'
  <1> DEFINE o == Head(records).op
  <1>1. /\ Segs /\ records \in Seq(LoggedRecord) /\ records # <<>>
        /\ ReplayRecord(o)
        /\ UNCHANGED <<walFile, nextLsn, may>>
    BY DEF IInv, Segs, Replay
  <1>2. o \in Op
    BY <1>1, RecordFacts
  <1> HIDE DEF o
  <1>3. CASE o = Create
    <2>0. o # Drop
      BY <1>3 DEF Create, Drop
    <2>1. ASSUME present PROVE Segs'
      <3>1. Finish /\ UNCHANGED <<saved, dirs, manifest, present, view, segIds, nextSegId>>
        BY <1>1, <1>3, <2>0, <2>1 DEF ReplayRecord
      <3>2. pc' \in PC /\ records' \in Seq(LoggedRecord)
        BY <1>1, <3>1, EndTypes
      <3>3. Segs'
        BY <1>1, <3>1, <3>2, ReplayedKeeps
      <3> QED
        BY <3>3
    <2>2. ASSUME ~present PROVE Segs'
      <3>1. CreateLocked \/ CreateLockedFails
        BY <1>1, <1>3, <2>0, <2>2 DEF ReplayRecord
      <3> QED
        BY <1>1, <3>1, CreateLockedKeeps
    <2>3. Segs'
      BY <2>1, <2>2
    <2> QED
      BY <1>1, <2>3 DEF IInv, Calls
  <1>4. CASE o = Drop
    <2>0. o # Create
      BY <1>4 DEF Create, Drop
    <2>1. DropLocked \/ DropLockedFails
      BY <1>1, <1>4, <2>0 DEF ReplayRecord
    <2>2. Segs'
      BY <1>1, <2>1, DropLockedKeeps
    <2> QED
      BY <1>1, <2>2 DEF IInv, Calls
  <1>5. CASE o \notin {Create, Drop}
    <2>1. IsEdit(o)
      BY <1>2, <1>5, EditsAre
    <2>2. ASSUME present PROVE Segs'
      <3>1. (Apply(o) \/ ApplyFails(o)) /\ UNCHANGED <<saved, present>>
        BY <1>1, <1>5, <2>2 DEF ReplayRecord
      <3> QED
        BY <1>1, <2>1, <2>2, <3>1, ApplyKeeps, ApplyFailsKeeps
    <2>3. ASSUME ~present PROVE Segs'
      <3>1. /\ pc' = "refused" /\ records' = <<>>
            /\ UNCHANGED <<saved, dirs, manifest, present, view, segIds, nextSegId>>
        BY <1>1, <1>5, <2>3 DEF ReplayRecord
      <3>2. pc' \in PC /\ records' \in Seq(LoggedRecord)
        BY <3>1 DEF PC
      <3> QED
        BY <1>1, <3>1, <3>2, ReplayedKeeps
    <2>4. Segs'
      BY <2>2, <2>3
    <2> QED
      BY <1>1, <2>4 DEF IInv, Calls
  <1> QED
    BY <1>3, <1>4, <1>5

LEMMA ReplayEndKeeps ==
    ASSUME IInv, ReplayEnd
    PROVE  IInv'
  <1>1. /\ pc' = "ready"
        /\ UNCHANGED <<saved, walFile, dirs, manifest, present, view, segIds, nextSegId, nextLsn, records>>
        /\ may' \in {{Shown}, may} /\ (may' = {Shown} => Shown \in may \/ may' = may)
    BY DEF ReplayEnd, disk, memory
  <1>2. Segs'
    <2>1. pc' \in PC /\ records' \in Seq(LoggedRecord)
      BY <1>1 DEF IInv, Segs, PC
    <2> QED
      BY <1>1, <2>1, ReplayedKeeps DEF IInv
  <1>3. Calls'
    BY <1>1 DEF IInv, Calls
  <1> QED
    BY <1>2, <1>3 DEF IInv

-----------------------------------------------------------------------------
(* What always holds. *)

LEMMA NextKeeps == IInv /\ [Next]_vars => IInv'
  <1> SUFFICES ASSUME IInv, [Next]_vars PROVE IInv'
    OBVIOUS
  <1>1. ASSUME NEW o \in Ops, Call(o) PROVE IInv'
    BY <1>1, CallKeeps
  <1>2. ASSUME NEW o \in Ops, CallFails(o) PROVE IInv'
    BY <1>2, CallFailsKeeps
  <1>3. ASSUME NEW o \in Ops, CreateOrDrop(o) PROVE IInv'
    BY <1>3, CreateOrDropKeeps
  <1>4. ASSUME NEW o \in Ops, AppendFails(o) PROVE IInv'
    BY <1>4, AppendFailsKeeps
  <1>5. CASE RebuildSkip
    BY <1>5, RebuildSkipKeeps
  <1>6. CASE Rebuild
    BY <1>6, RebuildKeeps
  <1>7. CASE Flush
    BY <1>7, FlushKeeps
  <1>8. CASE Compact
    BY <1>8, CompactKeeps
  <1>9. CASE Open
    BY <1>9, OpenKeeps
  <1>10. CASE Replay
    BY <1>10, ReplayKeeps
  <1>11. CASE ReplayEnd
    BY <1>11, ReplayEndKeeps
  <1>12. CASE UNCHANGED vars
    BY <1>12 DEF vars, disk, memory, call, history, IInv, Segs, Calls, Ids, There
  <1> QED
    BY <1>1, <1>2, <1>3, <1>4, <1>5, <1>6, <1>7, <1>8, <1>9, <1>10, <1>11, <1>12 DEF Next

(* Whatever I/O calls fail, in a call, in a rebuild, in a flush or in the  *)
(* replay of an open: what the manifests name is there, in memory there is *)
(* one id per segment, and no id in use is handed out again.               *)
THEOREM FaultsInvariant == Spec => []IInv
  BY InitHolds, NextKeeps, PTL DEF Spec

(* Every failing call leaves the manifest, the segments, the view, the log *)
(* and the answers in states they can be in.                               *)
THEOREM FaultTypes == Spec => []TypeOK
  <1>1. IInv => TypeOK
    <2> SUFFICES ASSUME IInv PROVE TypeOK
      OBVIOUS
    <2>1. \A m \in {saved, manifest} : m \in [entries : Seq(Seq(Nat)), floor : Nat]
      BY DEF IInv, Segs, Proper, ManifestType
    <2> QED
      BY <2>1 DEF IInv, Segs, Calls, TypeOK, PC
  <1> QED
    BY <1>1, FaultsInvariant, PTL

(* After any sequence of failed calls, saves and removals the next open of *)
(* the directory finds every segment that manifest.json names, and a new   *)
(* segment is written to a directory that is not there yet.                *)
THEOREM SegmentsSurviveFaults == Spec => []SegmentsAreThere
  <1>1. IInv => SegmentsAreThere
    BY DEF IInv, Segs, Ids, There, SegmentsAreThere
  <1> QED
    BY <1>1, FaultsInvariant, PTL

-----------------------------------------------------------------------------
(* Sets of segment ids. *)

(* A set with no more than one element. *)
LEMMA NotMoreThanOne ==
    ASSUME NEW S, IsFiniteSet(S), ~(Cardinality(S) > 1)
    PROVE  \A d, e \in S : d = e
  <1> SUFFICES ASSUME NEW d \in S, NEW e \in S, d # e PROVE FALSE
    OBVIOUS
  <1>1. /\ IsFiniteSet({e}) /\ Cardinality({e}) = 1
        /\ IsFiniteSet({d}) /\ Cardinality({d}) = 1
    BY FS_Singleton
  <1>2. Cardinality({e} \cup {d}) = 2
    BY <1>1, FS_AddElement
  <1>3. Cardinality({e} \cup {d}) <= Cardinality(S) /\ Cardinality(S) \in Nat
    BY FS_Subset, FS_CardinalityType
  <1> QED
    BY <1>2, <1>3

LEMMA NamedIsFinite ==
    ASSUME NEW m, Proper(m)
    PROVE  IsFiniteSet(Named(m))
  <1> DEFINE first == Segments1(m)
  <1>1. first \in Seq(Nat) /\ Named(m) = ToSet(first)
    BY ProperFacts
  <1> HIDE DEF first
  <1>2. PICK n \in Nat : \A i \in DOMAIN first : first[i] <= n
    BY <1>1, SeqIsBounded
  <1>3. \A i \in DOMAIN first : first[i] \in Nat
    BY <1>1
  <1>4. ToSet(first) \subseteq 0..n
    BY <1>2, <1>3 DEF ToSet
  <1>5. IsFiniteSet(0..n)
    BY FS_Interval
  <1> QED
    BY <1>1, <1>4, <1>5, FS_Subset

-----------------------------------------------------------------------------
(* One live row for each id, on disk as in memory.                         *)

(* No id has a live row in two of the directories.                         *)
Sole(ds, names) ==
    \A id \in Id : \A d, e \in names : Alive(ds[d], id) /\ Alive(ds[e], id) => d = e

(* What is alive in a segment of the view is alive in its directory: a     *)
(* sidecar may lack tombstones, and never has some that memory has not.    *)
Backed(ds, ids, v) ==
    \A i \in DOMAIN ids :
      /\ ids[i] \in DOMAIN ds
      /\ ds[ids[i]].rows = v.immutables[i].rows
      /\ \A id \in Id : Alive(v.immutables[i], id) => Alive(ds[ids[i]], id)

(* The sidecars lack no tombstone. *)
Synced(ds, ids, v) ==
    \A i \in DOMAIN ids : \A id \in Id : Alive(ds[ids[i]], id) => Alive(v.immutables[i], id)

LEMMA SoleShrinks ==
    ASSUME NEW ds, NEW es, NEW names, Sole(ds, names),
           \A d \in names : \A id \in Id : Alive(es[d], id) => Alive(ds[d], id)
    PROVE  Sole(es, names)
  BY DEF Sole

LEMMA SoleOfFew ==
    ASSUME NEW ds, NEW names, \A d, e \in names : d = e
    PROVE  Sole(ds, names)
  BY DEF Sole

(* Fewer rows are alive in the segments of w than in those of v. *)
Fewer(v, w) ==
    \A i \in DOMAIN v.immutables :
      /\ w.immutables[i].rows = v.immutables[i].rows
      /\ \A id \in Id : Alive(w.immutables[i], id) => Alive(v.immutables[i], id)

LEMMA FewerIsWellFormed ==
    ASSUME NEW v, NEW w, WellFormed(v), Fewer(v, w), DOMAIN w.immutables = DOMAIN v.immutables,
           RowIds(w.mutable) \subseteq RowIds(v.mutable)
    PROVE  WellFormed(w)
  <1>1. \A id \in Id : Holders(w, id) \subseteq Holders(v, id)
    BY DEF Fewer, Holders
  <1> QED
    BY <1>1 DEF WellFormed

(* What an operation leaves alive: it edits the segments of Edited, and no *)
(* other loses a row.                                                      *)
LEMMA EditedRows ==
    ASSUME NEW v \in View, NEW o, IsEdit(o)
    PROVE  /\ Fewer(v, ApplyOp(v, o))
           /\ \A i \in DOMAIN v.immutables : \A id \in Id :
                Alive(v.immutables[i], id) =>
                  \/ Alive(ApplyOp(v, o).immutables[i], id)
                  \/ i \in Edited(v, o) /\ o.kind # "payload"
           /\ o.kind # "upsert" => RowIds(ApplyOp(v, o).mutable) = RowIds(v.mutable)
           /\ WellFormed(v) => WellFormed(ApplyOp(v, o))
  <1>1. CASE o.kind = "upsert" /\ o.batch \in Batch
    <2> DEFINE overridden == BatchIds(o.batch) \ RowIds(v.mutable)
    <2>1. ApplyOp(v, o) = ApplyUpsert(v, o.batch)
      BY <1>1 DEF ApplyOp
    <2>2. \A i \in DOMAIN v.immutables :
            ApplyUpsert(v, o.batch).immutables[i] = TombstoneMany(v.immutables[i], overridden)
      BY DEF ApplyUpsert
    <2>3. overridden \in SUBSET Id
      BY DEF BatchIds
    <2>4. ASSUME NEW i \in DOMAIN v.immutables, NEW id \in Id, Alive(v.immutables[i], id),
                 id \in overridden
          PROVE  i \in Edited(v, o)
      <3>1. i \in Holders(v, id)
        BY <2>4 DEF Holders
      <3>2. id \in OpIds(o) /\ v.mutable.rows[id] = NoRow
        BY <1>1, <2>4 DEF OpIds, RowIds
      <3> QED
        BY <1>1, <3>1, <3>2 DEF Edited
    <2>5. \A i \in DOMAIN v.immutables :
            /\ v.immutables[i] \in Segment
            /\ TombstoneMany(v.immutables[i], overridden).rows = v.immutables[i].rows
      <3>1. \A i \in DOMAIN v.immutables : v.immutables[i] \in Segment
        BY ViewFacts
      <3> QED
        BY <3>1 DEF TombstoneMany, Segment
    <2> HIDE DEF overridden
    <2>6. \A i \in DOMAIN v.immutables : \A id \in Id :
            Alive(ApplyOp(v, o).immutables[i], id) <=> Alive(v.immutables[i], id) /\ id \notin overridden
      BY <2>1, <2>2, <2>3, <2>5, TombstoneEffect
    <2>7. Fewer(v, ApplyOp(v, o))
      BY <2>1, <2>2, <2>5, <2>6 DEF Fewer
    <2>8. WellFormed(v) => WellFormed(ApplyOp(v, o))
      BY <1>1, <2>1, UpsertEffect
    <2> QED
      BY <1>1, <2>4, <2>6, <2>7, <2>8
  <1>2. CASE o.kind = "delete" /\ o.ids \in SUBSET Id
    <2> DEFINE elsewhere == {id \in o.ids : ~Alive(v.mutable, id)}
               OldestIn(i) == {id \in elsewhere : i \in Holders(v, id) /\ i = Min(Holders(v, id))}
    <2>1. ApplyOp(v, o) = ApplyDelete(v, o.ids)
      BY <1>2 DEF ApplyOp
    <2>2. \A i \in DOMAIN v.immutables :
            ApplyDelete(v, o.ids).immutables[i] = TombstoneMany(v.immutables[i], OldestIn(i))
      BY DEF ApplyDelete
    <2>3. \A i : OldestIn(i) \in SUBSET Id
      BY <1>2
    <2>4. ASSUME NEW i \in DOMAIN v.immutables, NEW id \in Id, Alive(v.immutables[i], id),
                 id \in OldestIn(i)
          PROVE  i \in Edited(v, o)
      <3>1. id \in OpIds(o) /\ ~Alive(v.mutable, id) /\ Holders(v, id) # {} /\ i = Min(Holders(v, id))
        BY <1>2, <2>4 DEF OpIds
      <3> QED
        BY <1>2, <3>1 DEF Edited
    <2>5. \A i \in DOMAIN v.immutables :
            /\ v.immutables[i] \in Segment
            /\ TombstoneMany(v.immutables[i], OldestIn(i)).rows = v.immutables[i].rows
      <3>1. \A i \in DOMAIN v.immutables : v.immutables[i] \in Segment
        BY ViewFacts
      <3> QED
        BY <3>1 DEF TombstoneMany, Segment
    <2> HIDE DEF OldestIn
    <2>6. \A i \in DOMAIN v.immutables : \A id \in Id :
            Alive(ApplyOp(v, o).immutables[i], id) <=> Alive(v.immutables[i], id) /\ id \notin OldestIn(i)
      BY <2>1, <2>2, <2>3, <2>5, TombstoneEffect
    <2>7. Fewer(v, ApplyOp(v, o))
      BY <2>1, <2>2, <2>5, <2>6 DEF Fewer
    <2>8. WellFormed(v) => WellFormed(ApplyOp(v, o))
      BY <1>2, <2>1, DeleteEffect
    <2>9. RowIds(ApplyOp(v, o).mutable) = RowIds(v.mutable)
      <3>1. ApplyOp(v, o).mutable = MutableDelete(v.mutable, o.ids) /\ v.mutable \in Mutable
        BY <2>1, ViewFacts DEF ApplyDelete
      <3> QED
        BY <3>1 DEF MutableDelete, RowIds, Mutable
    <2> QED
      BY <1>2, <2>4, <2>6, <2>7, <2>8, <2>9
  <1>3. CASE o.kind = "payload" /\ o.ids \in SUBSET Id /\ o.payload \in OptPayload
    <2> DEFINE elsewhere == {id \in o.ids : ~Alive(v.mutable, id)}
               OldestIn(i) == {id \in elsewhere : i \in Holders(v, id) /\ i = Min(Holders(v, id))}
    <2>1. ApplyOp(v, o) = ApplyPayload(v, o.ids, o.payload)
      BY <1>3 DEF ApplyOp
    <2>2. \A i \in DOMAIN v.immutables :
            ApplyPayload(v, o.ids, o.payload).immutables[i]
              = SetOverlayBatch(v.immutables[i], OldestIn(i), o.payload)
      BY DEF ApplyPayload
    <2>3. \A i : OldestIn(i) \in SUBSET Id
      BY <1>3
    <2>5. \A i \in DOMAIN v.immutables :
            /\ v.immutables[i] \in Segment
            /\ SetOverlayBatch(v.immutables[i], OldestIn(i), o.payload).rows = v.immutables[i].rows
      <3>1. \A i \in DOMAIN v.immutables : v.immutables[i] \in Segment
        BY ViewFacts
      <3> QED
        BY <3>1 DEF SetOverlayBatch, Segment
    <2> HIDE DEF OldestIn
    <2>6. ASSUME NEW i \in DOMAIN v.immutables, NEW id \in Id
          PROVE  Alive(ApplyOp(v, o).immutables[i], id) <=> Alive(v.immutables[i], id)
      <3>1. v.immutables[i] \in Segment /\ OldestIn(i) \in SUBSET Id /\ o.payload \in OptPayload
        BY <1>3, <2>3, <2>5
      <3>2. Alive(SetOverlayBatch(v.immutables[i], OldestIn(i), o.payload), id)
              <=> Alive(v.immutables[i], id)
        BY <3>1, OverlayEffect
      <3> QED
        BY <2>1, <2>2, <3>2
    <2>7. Fewer(v, ApplyOp(v, o))
      BY <2>1, <2>2, <2>5, <2>6 DEF Fewer
    <2>8. WellFormed(v) => WellFormed(ApplyOp(v, o))
      BY <1>3, <2>1, PayloadEffect
    <2>9. RowIds(ApplyOp(v, o).mutable) = RowIds(v.mutable)
      <3>1. /\ ApplyOp(v, o).mutable = MutableSetPayload(v.mutable, o.ids, o.payload)
            /\ v.mutable \in Mutable
        BY <2>1, ViewFacts DEF ApplyPayload
      <3>2. \A id \in Id : Alive(v.mutable, id) => [v.mutable.rows[id] EXCEPT !.payload = o.payload] \in Row
        BY <1>3, <3>1 DEF Alive, Mutable, Rows, OptRow, Row
      <3>3. \A id \in Id : MutableSetPayload(v.mutable, o.ids, o.payload).rows[id]
                             = IF id \in o.ids /\ Alive(v.mutable, id)
                                 THEN [v.mutable.rows[id] EXCEPT !.payload = o.payload]
                                 ELSE v.mutable.rows[id]
        BY <3>1 DEF MutableSetPayload, Mutable
      <3> QED
        BY <3>1, <3>2, <3>3, NoRowAssumption DEF RowIds, Alive
    <2> QED
      BY <1>3, <2>6, <2>7, <2>8, <2>9
  <1> QED
    BY <1>1, <1>2, <1>3 DEF IsEdit

(* The directories of the segments after a write of sidecars. *)
SidecarsAre(es, ds, v, positions, o) ==
    /\ DOMAIN es = DOMAIN ds
    /\ \A d \in DOMAIN ds : d \notin ToSet(segIds) => es[d] = ds[d]
    /\ \A i \in DOMAIN segIds : segIds[i] \in DOMAIN ds =>
         es[segIds[i]] = IF i \notin positions THEN ds[segIds[i]]
                         ELSE IF o.kind = "payload"
                                THEN [ds[segIds[i]] EXCEPT !.overlay = v.immutables[i].overlay]
                                ELSE [ds[segIds[i]] EXCEPT !.deleted = v.immutables[i].deleted]

LEMMA SidecarAt ==
    ASSUME Distinct(segIds), NEW ds, NEW v, NEW positions, positions \subseteq DOMAIN segIds, NEW o
    PROVE  SidecarsAre(WriteSidecars(ds, v, positions, o), ds, v, positions, o)
  <1>1. ASSUME NEW d \in DOMAIN ds, d \notin ToSet(segIds)
        PROVE  WriteSidecars(ds, v, positions, o)[d] = ds[d]
    <2>1. \A i \in positions : segIds[i] # d
      BY <1>1 DEF ToSet
    <2> QED
      BY <2>1 DEF WriteSidecars
  <1>2. ASSUME NEW i \in DOMAIN segIds, segIds[i] \in DOMAIN ds
        PROVE  WriteSidecars(ds, v, positions, o)[segIds[i]]
                  = IF i \notin positions THEN ds[segIds[i]]
                    ELSE IF o.kind = "payload"
                           THEN [ds[segIds[i]] EXCEPT !.overlay = v.immutables[i].overlay]
                           ELSE [ds[segIds[i]] EXCEPT !.deleted = v.immutables[i].deleted]
    <2>1. \A j \in positions : segIds[j] = segIds[i] => j = i
      BY DEF Distinct
    <2>2. CASE i \notin positions
      <3>1. \A j \in positions : segIds[j] # segIds[i]
        BY <2>1, <2>2
      <3> QED
        BY <1>2, <2>2, <3>1 DEF WriteSidecars
    <2>3. CASE i \in positions
      <3>1. (CHOOSE j \in positions : segIds[j] = segIds[i]) = i
        BY <2>1, <2>3
      <3> QED
        BY <1>2, <2>3, <3>1 DEF WriteSidecars
    <2> QED
      BY <2>2, <2>3
  <1>3. DOMAIN WriteSidecars(ds, v, positions, o) = DOMAIN ds
    BY DEF WriteSidecars
  <1> QED
    BY <1>1, <1>2, <1>3 DEF SidecarsAre

(* es is what the directories ds are when the view has become w and the    *)
(* sidecars at positions are written from u.                               *)
Rewritten(es, ds, u, w, positions, o) ==
    /\ DOMAIN es = DOMAIN ds
    /\ Backed(es, segIds, w)
    /\ \A d \in DOMAIN ds : \A id \in Id : Alive(es[d], id) => Alive(ds[d], id)
    /\ \A i \in DOMAIN segIds : \A id \in Id :
         Alive(es[segIds[i]], id) <=> IF i \in positions /\ o.kind # "payload"
                                        THEN Alive(u.immutables[i], id)
                                        ELSE Alive(ds[segIds[i]], id)

(* As many segments as ids. *)
AsMany(v) == DOMAIN v.immutables = DOMAIN segIds

LEMMA SidecarsBack ==
    ASSUME Distinct(segIds),
           NEW ds, \A d \in DOMAIN ds : d \in Nat /\ ds[d] \in Segment,
           NEW v, AsMany(v), NEW u, AsMany(u), NEW w, AsMany(w),
           Backed(ds, segIds, v), Fewer(v, u), Fewer(v, w),
           NEW positions, positions \subseteq DOMAIN segIds,
           \A i \in positions : \A id \in Id : Alive(w.immutables[i], id) => Alive(u.immutables[i], id),
           NEW o
    PROVE  Rewritten(WriteSidecars(ds, u, positions, o), ds, u, w, positions, o)
  <1> DEFINE es == WriteSidecars(ds, u, positions, o)
  <1>00. /\ DOMAIN segIds = DOMAIN v.immutables
         /\ DOMAIN u.immutables = DOMAIN v.immutables /\ DOMAIN w.immutables = DOMAIN v.immutables
    BY DEF AsMany
  <1>0. SidecarsAre(es, ds, u, positions, o)
    BY SidecarAt
  <1> HIDE DEF es
  <1>1. /\ DOMAIN es = DOMAIN ds
        /\ \A d \in DOMAIN ds : d \notin ToSet(segIds) => es[d] = ds[d]
        /\ \A i \in DOMAIN segIds : segIds[i] \in DOMAIN ds =>
             es[segIds[i]] = IF i \notin positions THEN ds[segIds[i]]
                             ELSE IF o.kind = "payload"
                                    THEN [ds[segIds[i]] EXCEPT !.overlay = u.immutables[i].overlay]
                                    ELSE [ds[segIds[i]] EXCEPT !.deleted = u.immutables[i].deleted]
    BY <1>0 DEF SidecarsAre
  <1>2. ASSUME NEW i \in DOMAIN segIds
        PROVE  /\ es[segIds[i]].rows = ds[segIds[i]].rows
               /\ \A id \in Id : Alive(es[segIds[i]], id)
                                   <=> IF i \in positions /\ o.kind # "payload"
                                         THEN Alive(u.immutables[i], id)
                                         ELSE Alive(ds[segIds[i]], id)
    <2>1. /\ segIds[i] \in DOMAIN ds /\ ds[segIds[i]] \in Segment
          /\ ds[segIds[i]].rows = u.immutables[i].rows
      BY <1>00 DEF Backed, Fewer
    <2>2. CASE i \notin positions
      <3>1. es[segIds[i]] = ds[segIds[i]]
        BY <1>1, <2>1, <2>2
      <3> QED
        BY <2>2, <3>1
    <2>3. CASE i \in positions /\ o.kind = "payload"
      <3>1. es[segIds[i]] = [ds[segIds[i]] EXCEPT !.overlay = u.immutables[i].overlay]
        BY <1>1, <2>1, <2>3
      <3>2. es[segIds[i]].rows = ds[segIds[i]].rows /\ es[segIds[i]].deleted = ds[segIds[i]].deleted
        BY <2>1, <3>1 DEF Segment
      <3> QED
        BY <2>3, <3>2 DEF Alive
    <2>4. CASE i \in positions /\ o.kind # "payload"
      <3>1. es[segIds[i]] = [ds[segIds[i]] EXCEPT !.deleted = u.immutables[i].deleted]
        BY <1>1, <2>1, <2>4
      <3>2. es[segIds[i]].rows = ds[segIds[i]].rows /\ es[segIds[i]].deleted = u.immutables[i].deleted
        BY <2>1, <3>1 DEF Segment
      <3> QED
        BY <2>1, <2>4, <3>2 DEF Alive
    <2> QED
      BY <2>2, <2>3, <2>4
  <1>3. Backed(es, segIds, w)
    <2>1. ASSUME NEW i \in DOMAIN segIds
          PROVE  /\ segIds[i] \in DOMAIN es
                 /\ es[segIds[i]].rows = w.immutables[i].rows
                 /\ \A id \in Id : Alive(w.immutables[i], id) => Alive(es[segIds[i]], id)
      <3>1. segIds[i] \in DOMAIN ds /\ ds[segIds[i]].rows = v.immutables[i].rows
            /\ \A id \in Id : Alive(v.immutables[i], id) => Alive(ds[segIds[i]], id)
        BY DEF Backed
      <3>2. w.immutables[i].rows = v.immutables[i].rows
            /\ \A id \in Id : Alive(w.immutables[i], id) => Alive(v.immutables[i], id)
        BY <1>00 DEF Fewer
      <3> QED
        BY <1>1, <1>2, <3>1, <3>2
    <2> QED
      BY <2>1 DEF Backed
  <1>4. ASSUME NEW d \in DOMAIN ds, NEW id \in Id, Alive(es[d], id)
        PROVE  Alive(ds[d], id)
    <2>1. CASE d \notin ToSet(segIds)
      BY <1>1, <1>4, <2>1
    <2>2. ASSUME NEW i \in DOMAIN segIds, segIds[i] = d PROVE Alive(ds[d], id)
      <3>1. Alive(u.immutables[i], id) => Alive(ds[d], id)
        BY <1>00, <2>2 DEF Fewer, Backed
      <3> QED
        BY <1>2, <1>4, <2>2, <3>1
    <2> QED
      BY <2>1, <2>2 DEF ToSet
  <1> QED
    BY <1>1, <1>2, <1>3, <1>4 DEF es, Rewritten

-----------------------------------------------------------------------------
(* The inductive invariant behind one live row for each id.                *)

(* No create has been called on an entry that a failed one has left.       *)
Single == Len(saved.entries) <= 1 /\ Len(manifest.entries) <= 1

(* What goes with the places a call or an open can be at.                  *)
Stages ==
    /\ pc = "ready" => records = <<>>
    /\ pc = "replay" \/ records # <<>> => ~unsaved
    /\ pc = "rebuild" => present
    /\ pc = "replay" /\ ~present => manifest.entries = <<>>

(* The LSNs that are handed out are not below the floors, and once a       *)
(* sidecar lacks what memory has, its call is above that of the file.      *)
Floors ==
    /\ saved.floor <= nextLsn /\ manifest.floor <= nextLsn
    /\ unsaved => saved.floor < nextLsn - 1 /\ manifest.floor < nextLsn

(* The manifest in memory has the segments of the view; others that it has *)
(* are of flushes that failed after they had named their segment.          *)
Listed == present /\ manifest.entries # <<>> => ToSet(segIds) \subseteq Named(manifest)

(* The others. *)
Strays == Named(manifest) \ ToSet(segIds)

(* A save of the manifest in memory would need no excuse.                  *)
Savable ==
    /\ \A d, e \in Strays : d = e
    /\ unsaved => manifest.floor <= saved.floor

(* The lists of segments and the LSNs. *)
Books == Single /\ Stages /\ Floors /\ Listed

(* What a sidecar lacks is repaired by a replay: it lacks nothing until a  *)
(* write of one has failed.                                                *)
Sidecars ==
    /\ Backed(dirs, segIds, view)
    /\ ~unsaved /\ pc # "down" => Synced(dirs, segIds, view)

(* What the next open loads has one live row for each id, and so would a   *)
(* save of the manifest in memory.                                         *)
Lists ==
    /\ Sole(dirs, Named(saved))
    /\ Savable => Sole(dirs, Named(manifest))

OneRow == Books /\ Sidecars /\ Lists /\ WellFormed(view)

LEMMA FloorFacts ==
    ASSUME IInv
    PROVE  /\ saved.floor \in Nat /\ manifest.floor \in Nat /\ nextLsn \in Nat
           /\ Named(saved) \subseteq DOMAIN dirs /\ Named(manifest) \subseteq DOMAIN dirs
  BY ProperFacts DEF IInv, Segs, Calls, There

LEMMA IdFacts ==
    ASSUME Segs
    PROVE  /\ view \in View /\ segIds \in Seq(Nat) /\ Distinct(segIds)
           /\ DOMAIN segIds = DOMAIN view.immutables /\ DOMAIN segIds = 1..Len(segIds)
           /\ Len(segIds) \in Nat /\ Len(segIds) = Len(view.immutables)
           /\ \A d \in DOMAIN dirs : d \in Nat /\ dirs[d] \in Segment
  <1>1. segIds \in Seq(Nat) /\ Len(segIds) = Len(view.immutables) /\ view \in View
    BY DEF Segs
  <1>2. DOMAIN segIds = 1..Len(segIds) /\ Len(segIds) \in Nat
    BY <1>1
  <1> QED
    BY <1>1, <1>2, ViewFacts DEF Segs, Ids

-----------------------------------------------------------------------------
(* One live row: calls on points. *)

(* Rows are lost in the view and the directories, and none appears.        *)
Edits ==
    /\ DOMAIN dirs' = DOMAIN dirs
    /\ \A d \in DOMAIN dirs : \A id \in Id : Alive(dirs'[d], id) => Alive(dirs[d], id)
    /\ Backed(dirs', segIds, view')
    /\ WellFormed(view')

LEMMA ApplyRows ==
    ASSUME Segs, Sidecars, WellFormed(view), NEW o, IsEdit(o), Apply(o)
    PROVE  Edits /\ (Synced(dirs, segIds, view) => Synced(dirs', segIds, view'))
  <1>1. /\ view \in View /\ Distinct(segIds) /\ DOMAIN segIds = DOMAIN view.immutables
        /\ \A d \in DOMAIN dirs : d \in Nat /\ dirs[d] \in Segment
        /\ Backed(dirs, segIds, view)
    BY IdFacts DEF Sidecars
  <1>2. view' = ApplyOp(view, o) /\ dirs' = WriteSidecars(dirs, view', Edited(view, o), o)
    BY DEF Apply
  <1>3. view' \in View /\ DOMAIN view'.immutables = DOMAIN view.immutables
    BY <1>1, <1>2, ApplyOpFacts
  <1>4. Edited(view, o) \subseteq DOMAIN segIds
    BY <1>1, EditedArePositions
  <1>5. /\ Fewer(view, view')
        /\ \A i \in DOMAIN view.immutables : \A id \in Id :
             Alive(view.immutables[i], id) =>
               Alive(view'.immutables[i], id) \/ (i \in Edited(view, o) /\ o.kind # "payload")
        /\ WellFormed(view')
    BY <1>1, <1>2, EditedRows
  <1>6. Rewritten(dirs', dirs, view', view', Edited(view, o), o)
    BY <1>1, <1>2, <1>3, <1>4, <1>5, SidecarsBack DEF AsMany
  <1>7. Edits
    BY <1>5, <1>6 DEF Edits, Rewritten
  <1>8. ASSUME Synced(dirs, segIds, view) PROVE Synced(dirs', segIds, view')
    <2>1. ASSUME NEW i \in DOMAIN segIds, NEW id \in Id, Alive(dirs'[segIds[i]], id)
          PROVE  Alive(view'.immutables[i], id)
      <3>1. CASE i \in Edited(view, o) /\ o.kind # "payload"
        BY <1>6, <2>1, <3>1 DEF Rewritten
      <3>2. CASE ~(i \in Edited(view, o) /\ o.kind # "payload")
        <4>1. Alive(dirs[segIds[i]], id)
          BY <1>6, <2>1, <3>2 DEF Rewritten
        <4>2. Alive(view.immutables[i], id)
          BY <1>8, <4>1 DEF Synced
        <4> QED
          BY <1>1, <1>5, <3>2, <4>2
      <3> QED
        BY <3>1, <3>2
    <2> QED
      BY <2>1 DEF Synced
  <1> QED
    BY <1>7, <1>8

LEMMA EditFailsRows ==
    ASSUME Segs, Sidecars, WellFormed(view), NEW o, IsEdit(o), o.kind # "upsert", EditFails(o)
    PROVE  Edits
  <1> DEFINE goal == ApplyOp(view, o)
  <1>1. /\ view \in View /\ Distinct(segIds) /\ DOMAIN segIds = DOMAIN view.immutables
        /\ \A d \in DOMAIN dirs : d \in Nat /\ dirs[d] \in Segment
        /\ Backed(dirs, segIds, view)
    BY IdFacts DEF Sidecars
  <1>2. PICK i \in Edited(view, o) : \E done \in SUBSET (Edited(view, o) \ {i}) :
          /\ view' = [goal EXCEPT !.immutables =
                        [j \in DOMAIN @ |-> IF j \in done \cup {i} THEN @[j] ELSE view.immutables[j]]]
          /\ dirs' = WriteSidecars(dirs, goal, done, o)
    BY DEF EditFails
  <1>3. PICK done \in SUBSET (Edited(view, o) \ {i}) :
          /\ view' = [goal EXCEPT !.immutables =
                        [j \in DOMAIN @ |-> IF j \in done \cup {i} THEN @[j] ELSE view.immutables[j]]]
          /\ dirs' = WriteSidecars(dirs, goal, done, o)
    BY <1>2
  <1>4. /\ goal \in View /\ DOMAIN goal.immutables = DOMAIN view.immutables
        /\ Fewer(view, goal) /\ RowIds(goal.mutable) = RowIds(view.mutable)
    BY <1>1, ApplyOpFacts, EditedRows
  <1> HIDE DEF goal
  <1> DEFINE f == [j \in DOMAIN goal.immutables |->
                     IF j \in done \cup {i} THEN goal.immutables[j] ELSE view.immutables[j]]
  <1>5. /\ DOMAIN f = DOMAIN goal.immutables
        /\ f = [j \in DOMAIN goal.immutables |-> f[j]]
        /\ \A j \in DOMAIN goal.immutables :
             /\ f[j] = IF j \in done \cup {i} THEN goal.immutables[j] ELSE view.immutables[j]
             /\ f[j] \in Segment
    BY <1>1, <1>4, ViewFacts
  <1>6. view' = [goal EXCEPT !.immutables = f]
    BY <1>3
  <1> HIDE DEF f
  <1>7. view' \in View /\ view'.immutables = f /\ view'.mutable = goal.mutable
    BY <1>4, <1>5, <1>6, SegmentsEdited
  <1>8. Fewer(view, view') /\ DOMAIN view'.immutables = DOMAIN view.immutables
    BY <1>4, <1>5, <1>7 DEF Fewer
  <1>9. WellFormed(view')
    BY <1>4, <1>7, <1>8, FewerIsWellFormed
  <1>10. done \subseteq DOMAIN segIds
    BY <1>1, EditedArePositions
  <1>11. \A j \in done : \A id \in Id : Alive(view'.immutables[j], id) => Alive(goal.immutables[j], id)
    BY <1>1, <1>4, <1>5, <1>7, <1>10
  <1>12. Rewritten(dirs', dirs, goal, view', done, o)
    BY <1>1, <1>3, <1>4, <1>7, <1>8, <1>10, <1>11, SidecarsBack DEF AsMany
  <1> QED
    BY <1>9, <1>12 DEF Edits, Rewritten

LEMMA UpsertFailsRows ==
    ASSUME Segs, Sidecars, WellFormed(view), NEW o, o.kind = "upsert", o.batch \in Batch,
           o = [kind |-> "upsert", batch |-> o.batch], UpsertFails(o)
    PROVE  Edits
  <1>1. /\ view \in View /\ Distinct(segIds) /\ DOMAIN segIds = DOMAIN view.immutables
        /\ \A d \in DOMAIN dirs : d \in Nat /\ dirs[d] \in Segment
        /\ Backed(dirs, segIds, view)
    BY IdFacts DEF Sidecars
  <1>2. PICK done \in SUBSET BatchIds(o.batch), id \in BatchIds(o.batch) :
          LET part == [o EXCEPT !.batch = [x \in Id |-> IF x \in done THEN @[x] ELSE NoRow]]
              v == ApplyOp(view, part)
              ds == WriteSidecars(dirs, v, Edited(view, part), part)
          IN  \E i \in Holders(v, id) :
               /\ view' = [v EXCEPT !.immutables =
                             [j \in DOMAIN @ |-> IF j <= i THEN TombstoneMany(@[j], {id}) ELSE @[j]]]
               /\ dirs' = WriteSidecars(ds, view', {j \in Holders(v, id) : j < i}, o)
    BY DEF UpsertFails
  <1> DEFINE part == [o EXCEPT !.batch = [x \in Id |-> IF x \in done THEN @[x] ELSE NoRow]]
             v == ApplyOp(view, part)
             ds == WriteSidecars(dirs, v, Edited(view, part), part)
  <1>3. PICK i \in Holders(v, id) :
               /\ view' = [v EXCEPT !.immutables =
                             [j \in DOMAIN @ |-> IF j <= i THEN TombstoneMany(@[j], {id}) ELSE @[j]]]
               /\ dirs' = WriteSidecars(ds, view', {j \in Holders(v, id) : j < i}, o)
    BY <1>2
  <1>4. IsEdit(part)
    <2> DEFINE less == [x \in Id |-> IF x \in done THEN o.batch[x] ELSE NoRow]
    <2>1. less \in Batch
      BY DEF Batch, Rows, OptRow
    <2>2. part = [kind |-> "upsert", batch |-> less]
      OBVIOUS
    <2> HIDE DEF less
    <2> QED
      BY <2>1, <2>2 DEF IsEdit
  <1> HIDE DEF part
  <1>5. /\ v \in View /\ DOMAIN v.immutables = DOMAIN view.immutables
        /\ Fewer(view, v) /\ WellFormed(v)
    BY <1>1, <1>4, ApplyOpFacts, EditedRows
  <1>6. Edited(view, part) \subseteq DOMAIN segIds
    BY <1>1, <1>4, EditedArePositions
  <1> HIDE DEF v
  <1>7. DOMAIN ds = DOMAIN dirs /\ \A d \in DOMAIN ds : d \in Nat /\ ds[d] \in Segment
    BY <1>1, <1>5, <1>6, SidecarsType
  <1>8. Rewritten(ds, dirs, v, v, Edited(view, part), part)
    BY <1>1, <1>5, <1>6, SidecarsBack DEF AsMany
  <1> HIDE DEF ds
  <1>9. id \in Id
    BY DEF BatchIds
  <1> DEFINE f == [j \in DOMAIN v.immutables |->
                     IF j <= i THEN TombstoneMany(v.immutables[j], {id}) ELSE v.immutables[j]]
  <1>10. /\ DOMAIN f = DOMAIN v.immutables
         /\ f = [j \in DOMAIN v.immutables |-> f[j]]
         /\ \A j \in DOMAIN v.immutables :
              /\ f[j] \in Segment /\ f[j].rows = v.immutables[j].rows
              /\ \A x \in Id : Alive(f[j], x) => Alive(v.immutables[j], x)
    <2>1. ASSUME NEW j \in DOMAIN v.immutables
          PROVE  /\ v.immutables[j] \in Segment
                 /\ TombstoneMany(v.immutables[j], {id}) \in Segment
                 /\ TombstoneMany(v.immutables[j], {id}).rows = v.immutables[j].rows
                 /\ \A x \in Id : Alive(TombstoneMany(v.immutables[j], {id}), x)
                                    => Alive(v.immutables[j], x)
      <3>1. v.immutables[j] \in Segment
        BY <1>5, ViewFacts
      <3>2. TombstoneMany(v.immutables[j], {id}) \in Segment
        BY <1>9, <3>1, TombstoneManyType
      <3>3. TombstoneMany(v.immutables[j], {id}).rows = v.immutables[j].rows
        BY <3>1 DEF TombstoneMany, Segment
      <3>4. \A x \in Id : Alive(TombstoneMany(v.immutables[j], {id}), x) => Alive(v.immutables[j], x)
        BY <1>9, <3>1, TombstoneEffect
      <3> QED
        BY <3>1, <3>2, <3>3, <3>4
    <2> QED
      BY <2>1
  <1>11. view' = [v EXCEPT !.immutables = f]
    BY <1>3
  <1> HIDE DEF f
  <1>12. view' \in View /\ view'.immutables = f /\ view'.mutable = v.mutable
    BY <1>5, <1>10, <1>11, SegmentsEdited
  <1>13. Fewer(v, view') /\ DOMAIN view'.immutables = DOMAIN v.immutables
    BY <1>10, <1>12 DEF Fewer
  <1>14. WellFormed(view')
    BY <1>5, <1>12, <1>13, FewerIsWellFormed
  <1> DEFINE written == {j \in Holders(v, id) : j < i}
  <1>15. written \subseteq DOMAIN segIds /\ dirs' = WriteSidecars(ds, view', written, o)
    BY <1>1, <1>3, <1>5 DEF Holders
  <1> HIDE DEF written
  <1>16. Rewritten(dirs', ds, view', view', written, o)
    <2>1. Backed(ds, segIds, v) /\ AsMany(v) /\ AsMany(view')
      BY <1>1, <1>5, <1>8, <1>13 DEF Rewritten, AsMany
    <2> QED
      BY <1>1, <1>7, <1>13, <1>15, <2>1, SidecarsBack
  <1> QED
    BY <1>7, <1>8, <1>14, <1>16 DEF Edits, Rewritten

LEMMA ApplyFailsRows ==
    ASSUME Segs, Sidecars, WellFormed(view), NEW o, IsEdit(o), ApplyFails(o)
    PROVE  Edits
  <1>1. IF o.kind = "upsert" THEN UpsertFails(o) ELSE EditFails(o)
    BY DEF ApplyFails
  <1>2. CASE o.kind = "upsert"
    BY <1>1, <1>2, UpsertFailsRows DEF IsEdit
  <1>3. CASE o.kind # "upsert"
    BY <1>1, <1>3, EditFailsRows
  <1> QED
    BY <1>2, <1>3

(* The lists stay as they are. *)
LEMMA EditsKeepLists ==
    ASSUME IInv, Lists, Edits, UNCHANGED <<saved, manifest, segIds>>, unsaved => unsaved'
    PROVE  Lists'
  <1>1. Named(saved) \subseteq DOMAIN dirs /\ Named(manifest) \subseteq DOMAIN dirs
    BY FloorFacts
  <1>2. Sole(dirs', Named(saved))
    BY <1>1, SoleShrinks DEF Lists, Edits
  <1>3. ASSUME Savable' PROVE Sole(dirs', Named(manifest))
    <2>1. Savable
      BY <1>3 DEF Savable, Strays
    <2> QED
      BY <1>1, <2>1, SoleShrinks DEF Lists, Edits
  <1> QED
    BY <1>2, <1>3 DEF Lists

LEMMA CallRows ==
    ASSUME IInv, OneRow, NEW o \in Ops, Call(o)
    PROVE  OneRow'
  <1>1. /\ o \in Op /\ o \notin {Create, Drop} /\ LogRecord(o) /\ Apply(o)
        /\ UNCHANGED <<saved, present, unsaved>>
    BY FaultsAssumption DEF Call
  <1>2. present /\ IsEdit(o) /\ pc = "ready" /\ nextLsn' = nextLsn + 1
    BY <1>1, EditsAre DEF LogRecord, Ready
  <1>3. records = <<>> /\ UNCHANGED <<manifest, segIds>>
        /\ pc' \in {"rebuild", "ready"} /\ records' = <<>>
    BY <1>1, <1>2 DEF OneRow, Books, Stages, Apply, Finish
  <1>4. Edits /\ (Synced(dirs, segIds, view) => Synced(dirs', segIds, view'))
    BY <1>1, <1>2, ApplyRows DEF IInv, OneRow
  <1>5. Books'
    <2>1. Floors'
      BY <1>1, <1>2, <1>3, FloorFacts DEF OneRow, Books, Floors
    <2> QED
      BY <1>1, <1>2, <1>3, <2>1 DEF OneRow, Books, Single, Stages, Listed
  <1>6. Sidecars'
    BY <1>1, <1>2, <1>3, <1>4 DEF OneRow, Sidecars, Edits
  <1>7. Lists'
    BY <1>1, <1>3, <1>4, EditsKeepLists DEF OneRow
  <1> QED
    BY <1>4, <1>5, <1>6, <1>7 DEF OneRow, Edits

LEMMA CallFailsRows ==
    ASSUME IInv, OneRow, NEW o \in Ops, CallFails(o), excused' = {}
    PROVE  OneRow'
  <1>1. /\ o \in Op /\ o \notin {Create, Drop} /\ LogRecord(o) /\ ApplyFails(o)
        /\ unsaved' = TRUE
        /\ UNCHANGED <<saved, present>>
    BY FaultsAssumption DEF CallFails
  <1>2. present /\ IsEdit(o) /\ pc = "ready" /\ nextLsn' = nextLsn + 1
    BY <1>1, EditsAre DEF LogRecord, Ready
  <1>3. records = <<>> /\ UNCHANGED <<manifest, segIds>> /\ pc' = "ready" /\ records' = <<>>
    BY <1>1, <1>2 DEF OneRow, Books, Stages, ApplyFails, Return
  <1>4. Edits
    BY <1>1, <1>2, ApplyFailsRows DEF IInv, OneRow
  <1>5. ~(nextLsn <= saved.floor)
    BY DEF CallFails, Excuses
  <1>6. Books'
    <2>1. Floors'
      BY <1>1, <1>2, <1>3, <1>5, FloorFacts DEF OneRow, Books, Floors
    <2> QED
      BY <1>1, <1>2, <1>3, <2>1 DEF OneRow, Books, Single, Stages, Listed
  <1>7. Sidecars'
    BY <1>1, <1>3, <1>4 DEF OneRow, Sidecars, Edits
  <1>8. Lists'
    BY <1>1, <1>3, <1>4, EditsKeepLists DEF OneRow
  <1> QED
    BY <1>4, <1>6, <1>7, <1>8 DEF OneRow, Edits

LEMMA AppendFailsRows ==
    ASSUME IInv, OneRow, NEW o \in Ops, AppendFails(o)
    PROVE  OneRow'
  <1>1. UNCHANGED <<saved, dirs, memory, call, unsaved>>
    BY DEF AppendFails
  <1> QED
    BY <1>1 DEF memory, call, OneRow, Books, Single, Stages, Floors, Listed, Sidecars, Lists,
                Savable, Strays

-----------------------------------------------------------------------------
(* One live row: creates and drops. *)

LEMMA NoSegments ==
    /\ Named([entries |-> <<>>, floor |-> 0]) = {} /\ ToSet(<<>>) = {}
    /\ EmptyView.immutables = <<>> /\ DOMAIN <<>> = {} /\ Len(<<>>) = 0
    /\ \A m : m.entries = <<>> => Named(m) = {}
  BY DEF Named, ToSet, EmptyView

LEMMA NoneAlive ==
    ASSUME NEW ds, NEW v
    PROVE  Backed(ds, <<>>, v) /\ Synced(ds, <<>>, v)
  BY DEF Backed, Synced

LEMMA CreateLockedRows ==
    ASSUME Segs, OneRow, ~present, manifest.entries = <<>>, CreateLocked \/ CreateLockedFails
    PROVE  /\ Single' /\ Listed' /\ Sidecars' /\ Lists' /\ WellFormed(view')
           /\ manifest'.floor = manifest.floor /\ (saved' = saved \/ saved' = manifest')
  <1>1. /\ manifest' = [manifest EXCEPT !.entries = Append(@, <<>>)]
        /\ saved' \in {saved, manifest'}
        /\ \/ present' = TRUE /\ view' = EmptyView /\ segIds' = <<>>
           \/ UNCHANGED <<present, view, segIds>>
        /\ UNCHANGED dirs
    BY DEF CreateLocked, CreateLockedFails, PushEntry
  <1>2. view = EmptyView /\ segIds = <<>>
    <2>1. view = EmptyView /\ segIds \in Seq(Nat) /\ Len(segIds) = Len(view.immutables)
      BY DEF Segs
    <2>2. Len(segIds) = 0
      BY <2>1, NoSegments
    <2> QED
      BY <2>1, <2>2
  <1>3. view' = EmptyView /\ segIds' = <<>>
    BY <1>1, <1>2
  <1>4. /\ Named(manifest') = {}
        /\ manifest'.floor = manifest.floor /\ Len(manifest'.entries) = 1
    <2>1. Named(manifest') = Named(manifest)
      BY <1>1, EntryPushed DEF Segs
    <2>2. Named(manifest) = {}
      BY NoSegments
    <2>3. manifest = [entries |-> <<>>, floor |-> manifest.floor]
      BY ProperFacts DEF Segs
    <2>4. manifest' = [entries |-> Append(<<>>, <<>>), floor |-> manifest.floor]
      BY <1>1, <2>3
    <2>5. Len(Append(<<>>, <<>>)) = 1
      OBVIOUS
    <2> QED
      BY <2>1, <2>2, <2>4, <2>5
  <1>5. Single'
    <2>1. Len(manifest'.entries) <= 1 /\ Len(saved.entries) <= 1
      BY <1>4 DEF OneRow, Books, Single
    <2> QED
      BY <1>1, <2>1 DEF Single
  <1>6. Listed'
    BY <1>3, NoSegments DEF Listed
  <1>7. Sidecars'
    BY <1>3, NoneAlive DEF Sidecars
  <1>8. Lists'
    <2>1. Sole(dirs', Named(manifest'))
      BY <1>4, SoleOfFew
    <2>2. Sole(dirs', Named(saved))
      BY <1>1 DEF OneRow, Lists
    <2> QED
      BY <1>1, <2>1, <2>2 DEF Lists
  <1>9. WellFormed(view')
    BY <1>3, EmptyViewFacts
  <1> QED
    BY <1>1, <1>4, <1>5, <1>6, <1>7, <1>8, <1>9

LEMMA DropLockedRows ==
    ASSUME Segs, OneRow, DropLocked \/ DropLockedFails, UNCHANGED unsaved, pc # "down"
    PROVE  /\ Single' /\ Listed' /\ Sidecars' /\ Lists' /\ WellFormed(view')
           /\ manifest'.entries = <<>>
           /\ manifest'.floor = manifest.floor /\ (saved' = saved \/ saved' = manifest')
  <1>1. /\ manifest' = [manifest EXCEPT !.entries = <<>>]
        /\ \/ saved' = manifest' /\ view' = EmptyView /\ segIds' = <<>>
           \/ UNCHANGED <<saved, dirs, view, segIds>>
    BY DEF DropLocked, DropLockedFails
  <1>2. /\ Named(manifest') = {} /\ manifest'.entries = <<>> /\ Len(manifest'.entries) = 0
        /\ manifest'.floor = manifest.floor
    <2>1. manifest = [entries |-> manifest.entries, floor |-> manifest.floor]
      BY ProperFacts DEF Segs
    <2>2. manifest' = [entries |-> <<>>, floor |-> manifest.floor]
      BY <1>1, <2>1
    <2>3. Named(manifest') = {}
      BY <1>1, EntriesDropped DEF Segs
    <2> QED
      BY <2>2, <2>3
  <1>3. Single' /\ Listed'
    <2>1. Len(manifest'.entries) <= 1 /\ Len(saved.entries) <= 1
      BY <1>2 DEF OneRow, Books, Single
    <2>2. saved' = saved \/ saved' = manifest'
      BY <1>1
    <2> QED
      BY <1>2, <2>1, <2>2 DEF Single, Listed
  <1>4. Sidecars' /\ WellFormed(view')
    <2>1. CASE view' = EmptyView /\ segIds' = <<>>
      BY <2>1, NoneAlive, EmptyViewFacts DEF Sidecars
    <2>2. CASE UNCHANGED <<saved, dirs, view, segIds>>
      BY <2>2 DEF OneRow, Sidecars
    <2> QED
      BY <1>1, <2>1, <2>2
  <1>5. Lists'
    <2>1. Sole(dirs', Named(manifest'))
      BY <1>2, SoleOfFew
    <2>2. dirs' = dirs => Sole(dirs', Named(saved))
      BY DEF OneRow, Lists
    <2> QED
      BY <1>1, <2>1, <2>2 DEF Lists
  <1> QED
    BY <1>1, <1>2, <1>3, <1>4, <1>5

LEMMA CreateOrDropRows ==
    ASSUME IInv, OneRow, NEW o \in Ops, CreateOrDrop(o), excused' = {}
    PROVE  OneRow'
  <1>1. /\ o \in {Create, Drop} /\ LogRecord(o) /\ Segs
        /\ IF o = Create THEN CreateLocked \/ CreateLockedFails ELSE DropLocked \/ DropLockedFails
        /\ UNCHANGED unsaved
    BY DEF CreateOrDrop, IInv
  <1>2. pc = "ready" /\ records = <<>> /\ nextLsn' = nextLsn + 1 /\ (present <=> o # Create)
    BY <1>1 DEF LogRecord, Ready, OneRow, Books, Stages
  <1>3. pc' = "ready" /\ records' = <<>>
    BY <1>1, <1>2 DEF CreateLocked, CreateLockedFails, DropLocked, DropLockedFails, Finish, Return
  <1>4. /\ Single' /\ Listed' /\ Sidecars' /\ Lists' /\ WellFormed(view')
        /\ manifest'.floor = manifest.floor /\ (saved' = saved \/ saved' = manifest')
    <2>1. CASE o = Create
      <3>1. manifest.entries = <<>>
        BY <2>1 DEF CreateOrDrop, Excuses
      <3> QED
        BY <1>1, <1>2, <2>1, <3>1, CreateLockedRows
    <2>2. CASE o # Create
      BY <1>1, <1>2, <2>2, DropLockedRows
    <2> QED
      BY <2>1, <2>2
  <1>5. Floors'
    BY <1>1, <1>2, <1>4, FloorFacts DEF OneRow, Books, Floors
  <1>6. Stages'
    BY <1>3 DEF Stages
  <1> QED
    BY <1>4, <1>5, <1>6 DEF OneRow, Books

-----------------------------------------------------------------------------
(* One live row: new segments. *)

(* A save leaves no excuse.                                                *)
LEMMA Saves ==
    ASSUME NEW strays, IsFiniteSet(strays), Write(strays), excused' = {}
    PROVE  /\ saved' = manifest'
           /\ \A d, e \in strays : d = e
           /\ unsaved => ~(manifest'.floor > saved.floor)
  <1>1. saved' = manifest' /\ Published(strays) = {}
    BY DEF Write
  <1>2. ~(Cardinality(strays) > 1) /\ ~(unsaved /\ manifest'.floor > saved.floor)
    BY <1>1 DEF Published
  <1> QED
    BY <1>1, <1>2, NotMoreThanOne

(* A directory more, or none.                                              *)
LEMMA DirsGrow ==
    ASSUME Segs, NEW seg, NEW ds, ds = dirs \/ ds = Put(nextSegId, seg)
    PROVE  \A d \in DOMAIN dirs : d \in DOMAIN ds /\ ds[d] = dirs[d]
  <1>1. nextSegId \notin DOMAIN dirs
    BY NextIdIsFree
  <1> QED
    BY <1>1 DEF Put

LEMMA GrownIsBacked ==
    ASSUME NEW ds, NEW es, NEW ids, NEW v, Backed(ds, ids, v),
           \A d \in DOMAIN ds : d \in DOMAIN es /\ es[d] = ds[d]
    PROVE  Backed(es, ids, v) /\ (Synced(ds, ids, v) => Synced(es, ids, v))
  BY DEF Backed, Synced

LEMMA GrownIsSole ==
    ASSUME NEW ds, NEW es, NEW names, Sole(ds, names), names \subseteq DOMAIN ds,
           \A d \in DOMAIN ds : es[d] = ds[d]
    PROVE  Sole(es, names)
  BY DEF Sole

LEMMA SegmentFailsRows ==
    ASSUME IInv, OneRow, NEW seg, dirs' \in {dirs, Put(nextSegId, seg)},
           UNCHANGED <<saved, manifest, view, segIds, present, nextLsn, unsaved>>,
           pc # "down", Stages'
    PROVE  OneRow'
  <1>1. /\ \A d \in DOMAIN dirs : d \in DOMAIN dirs' /\ dirs'[d] = dirs[d]
        /\ Named(saved) \subseteq DOMAIN dirs /\ Named(manifest) \subseteq DOMAIN dirs
    BY DirsGrow, FloorFacts DEF IInv
  <1>2. Books'
    BY DEF OneRow, Books, Single, Floors, Listed
  <1>3. Sidecars'
    BY <1>1, GrownIsBacked DEF OneRow, Sidecars
  <1>4. Lists'
    <2>1. Savable' => Savable
      BY DEF Savable, Strays
    <2> QED
      BY <1>1, <2>1, GrownIsSole DEF OneRow, Lists
  <1> QED
    BY <1>2, <1>3, <1>4 DEF OneRow

-----------------------------------------------------------------------------
(* One live row: flushes. *)

(* With nothing left over from a failed one, the new segment and the others*)
(* that the manifest names have no id in common.                           *)
LEMMA FlushedIsSole ==
    ASSUME IInv, OneRow, pc # "down", ~unsaved, Named(manifest) \subseteq ToSet(segIds),
           NEW ds, ds = Put(nextSegId, SegmentOf(view.mutable))
    PROVE  Sole(ds, Named(manifest) \cup {nextSegId})
  <1>1. /\ view \in View /\ view.mutable \in Mutable
        /\ Named(manifest) \subseteq DOMAIN dirs /\ nextSegId \notin DOMAIN dirs
        /\ WellFormed(view) /\ Synced(dirs, segIds, view)
        /\ DOMAIN segIds = DOMAIN view.immutables
    BY IdFacts, ViewFacts, FloorFacts, NextIdIsFree DEF IInv, OneRow, Sidecars
  <1>2. Sole(dirs, Named(manifest))
    <2>1. Savable
      BY DEF Savable, Strays
    <2> QED
      BY <2>1 DEF OneRow, Lists
  <1>3. /\ ds[nextSegId] = SegmentOf(view.mutable)
        /\ \A d \in Named(manifest) : ds[d] = dirs[d] /\ d # nextSegId
    BY <1>1 DEF Put
  <1>4. ASSUME NEW id \in Id, Alive(ds[nextSegId], id), NEW d \in Named(manifest), Alive(ds[d], id)
        PROVE  FALSE
    <2>1. Alive(view.mutable, id)
      BY <1>1, <1>3, <1>4, WrittenSegment
    <2>2. PICK i \in DOMAIN segIds : segIds[i] = d
      BY <1>4 DEF ToSet
    <2>3. Alive(view.immutables[i], id)
      BY <1>1, <1>3, <1>4, <2>2 DEF Synced
    <2>4. i \in Holders(view, id) /\ id \in RowIds(view.mutable)
      BY <1>1, <2>1, <2>3 DEF Holders, Alive, RowIds
    <2> QED
      BY <1>1, <2>4 DEF WellFormed
  <1>5. ASSUME NEW id \in Id, NEW d \in Named(manifest) \cup {nextSegId},
               NEW e \in Named(manifest) \cup {nextSegId}, Alive(ds[d], id), Alive(ds[e], id)
        PROVE  d = e
    <2>1. CASE d \in Named(manifest) /\ e \in Named(manifest)
      BY <1>2, <1>3, <1>5, <2>1 DEF Sole
    <2>2. CASE d = nextSegId \/ e = nextSegId
      BY <1>4, <1>5, <2>2
    <2> QED
      BY <1>5, <2>1, <2>2
  <1> QED
    BY <1>5 DEF Sole

LEMMA FlushPublishesRows ==
    ASSUME IInv, OneRow, pc = "ready", manifest.entries # <<>>,
           manifest' = WithSegments(manifest, Append(Segments1(manifest), nextSegId), nextLsn - 1),
           dirs' = Put(nextSegId, SegmentOf(view.mutable)),
           \/ UNCHANGED <<saved, view, segIds>>
           \/ /\ Write(Named(manifest') \ ToSet(segIds)) /\ excused' = {}
              /\ \/ UNCHANGED <<view, segIds>>
                 \/ /\ view' = ApplyFlush(view, SegmentOf(view.mutable))
                    /\ segIds' = Append(segIds, nextSegId),
           UNCHANGED <<present, pc, records, nextLsn, unsaved>>
    PROVE  OneRow'
  <1> DEFINE seg == SegmentOf(view.mutable)
  <1>1. /\ Segs /\ nextLsn - 1 \in Nat /\ nextLsn \in Nat
        /\ Proper(manifest) /\ Proper(saved) /\ nextSegId \in Nat
        /\ view \in View /\ segIds \in Seq(Nat) /\ DOMAIN segIds = DOMAIN view.immutables
        /\ DOMAIN segIds = 1..Len(segIds) /\ Len(segIds) \in Nat
        /\ view.mutable \in Mutable /\ view.immutables \in Seq(Segment)
        /\ Len(segIds) = Len(view.immutables)
    BY IdFacts, ViewFacts DEF IInv, Segs, Calls
  <1>2. /\ nextSegId \notin DOMAIN dirs /\ nextSegId \notin ToSet(segIds)
        /\ nextSegId \notin Named(manifest) /\ nextSegId \notin Named(saved)
    BY <1>1, NextIdIsFree
  <1>3. /\ Proper(manifest')
        /\ Named(manifest') = Named(manifest) \cup {nextSegId}
        /\ manifest'.floor = nextLsn - 1 /\ Len(manifest'.entries) = Len(manifest.entries)
        /\ manifest'.entries # <<>>
    <2> DEFINE first == Segments1(manifest)
               list == Append(first, nextSegId)
    <2>1. list \in Seq(Nat) /\ Distinct(list) /\ ToSet(list) = Named(manifest) \cup {nextSegId}
      <3>1. first \in Seq(Nat) /\ Distinct(first) /\ Named(manifest) = ToSet(first)
        BY <1>1, ProperFacts
      <3>2. nextSegId \notin ToSet(first)
        BY <1>2, <3>1
      <3> HIDE DEF first
      <3> QED
        BY <1>1, <3>1, <3>2, DistinctAppended
    <2>2. manifest' = WithSegments(manifest, list, nextLsn - 1)
      OBVIOUS
    <2> HIDE DEF list
    <2>3. Proper(manifest') /\ Named(manifest') = ToSet(list)
      BY <1>1, <2>1, <2>2, SegmentsChanged
    <2>4. manifest' = [entries |-> [manifest.entries EXCEPT ![1] = list], floor |-> nextLsn - 1]
      BY <2>2 DEF WithSegments
    <2>5. /\ manifest.entries \in Seq(Seq(Nat))
          /\ [manifest.entries EXCEPT ![1] = list] \in Seq(Seq(Nat))
          /\ Len([manifest.entries EXCEPT ![1] = list]) = Len(manifest.entries)
          /\ [manifest.entries EXCEPT ![1] = list] # <<>>
      BY <1>1, <2>1, ProperFacts
    <2> QED
      BY <2>1, <2>3, <2>4, <2>5
  <1>4. /\ saved.floor \in Nat /\ manifest.floor \in Nat
        /\ Named(saved) \subseteq DOMAIN dirs /\ Named(manifest) \subseteq DOMAIN dirs
        /\ unsaved => nextLsn - 1 > saved.floor
    BY FloorFacts DEF OneRow, Books, Floors
  <1>5. ASSUME Write(Named(manifest') \ ToSet(segIds)), excused' = {}
        PROVE  saved' = manifest' /\ ~unsaved /\ Named(manifest) \subseteq ToSet(segIds)
    <2> DEFINE strays == Named(manifest') \ ToSet(segIds)
    <2>1. IsFiniteSet(strays)
      BY <1>3, NamedIsFinite, FS_Subset
    <2>2. /\ saved' = manifest' /\ (\A d, e \in strays : d = e)
          /\ unsaved => ~(manifest'.floor > saved.floor)
      <3> HIDE DEF strays
      <3>1. Write(strays)
        BY <1>5 DEF strays
      <3> QED
        BY <1>5, <2>1, <3>1, Saves
    <2>3. ~unsaved
      <3>1. nextLsn - 1 > saved.floor => manifest'.floor > saved.floor
        BY <1>3
      <3>2. unsaved => nextLsn - 1 > saved.floor
        BY <1>4
      <3>3. unsaved => ~(manifest'.floor > saved.floor)
        BY <2>2
      <3> QED
        BY <3>1, <3>2, <3>3, Zenon
    <2>4. nextSegId \in strays
      BY <1>2, <1>3
    <2>5. ASSUME NEW d \in Named(manifest) PROVE d \in ToSet(segIds)
      <3>1. d \in Named(manifest') /\ d # nextSegId
        BY <1>2, <1>3
      <3> QED
        BY <2>2, <2>4, <3>1
    <2> QED
      BY <2>2, <2>3, <2>5
  <1>6. ASSUME UNCHANGED <<saved, view, segIds>>, Savable'
        PROVE  ~unsaved /\ Named(manifest) \subseteq ToSet(segIds)
    <2>1. ~unsaved
      <3>1. nextLsn - 1 > saved.floor => ~(manifest'.floor <= saved.floor)
        <4>1. nextLsn - 1 \in Nat /\ saved.floor \in Nat /\ manifest'.floor = nextLsn - 1
          BY <1>1, <1>3, <1>4
        <4> QED
          BY <4>1
      <3>2. unsaved => nextLsn - 1 > saved.floor
        BY <1>4
      <3>3. unsaved => manifest'.floor <= saved.floor
        BY <1>6 DEF Savable
      <3> QED
        BY <3>1, <3>2, <3>3, Zenon
    <2>2. nextSegId \in Strays'
      BY <1>2, <1>3, <1>6 DEF Strays
    <2>3. ASSUME NEW d \in Named(manifest) PROVE d \in ToSet(segIds)
      <3>1. d # nextSegId /\ (d \notin ToSet(segIds) => d \in Strays')
        BY <1>2, <1>3, <1>6 DEF Strays
      <3> QED
        BY <1>6, <2>2, <3>1 DEF Savable
    <2> QED
      BY <2>1, <2>3
  <1>7. ASSUME ~unsaved, Named(manifest) \subseteq ToSet(segIds)
        PROVE  Sole(dirs', Named(manifest'))
    BY <1>3, <1>7, FlushedIsSole
  <1>8. \A d \in DOMAIN dirs : d \in DOMAIN dirs' /\ dirs'[d] = dirs[d]
    BY <1>1, DirsGrow
  <1>9. Lists'
    <2>1. CASE UNCHANGED <<saved, view, segIds>>
      BY <1>4, <1>6, <1>7, <1>8, <2>1, GrownIsSole DEF OneRow, Lists
    <2>2. CASE Write(Named(manifest') \ ToSet(segIds)) /\ excused' = {}
      BY <1>5, <1>7, <2>2 DEF Lists
    <2> QED
      BY <2>1, <2>2
  <1>10. saved' = saved \/ (saved' = manifest' /\ ~unsaved)
    BY <1>5
  <1>11. \/ UNCHANGED <<view, segIds>>
         \/ view' = ApplyFlush(view, seg) /\ segIds' = Append(segIds, nextSegId)
    OBVIOUS
  <1>12. Books'
    <2>1. Single'
      BY <1>3, <1>10 DEF OneRow, Books, Single
    <2>2. Floors'
      BY <1>1, <1>3, <1>4, <1>10 DEF OneRow, Books, Floors
    <2>3. Listed'
      <3>1. present => ToSet(segIds) \subseteq Named(manifest)
        BY DEF OneRow, Books, Listed
      <3>2. ToSet(segIds') \subseteq ToSet(segIds) \cup {nextSegId}
        <4>1. CASE segIds' = segIds
          BY <4>1
        <4>2. CASE segIds' = Append(segIds, nextSegId)
          <5>1. Distinct(segIds)
            BY <1>1 DEF Segs, Ids
          <5> QED
            BY <1>1, <1>2, <4>2, <5>1, DistinctAppended
        <4> QED
          BY <1>11, <4>1, <4>2
      <3> QED
        BY <1>3, <3>1, <3>2 DEF Listed
    <2>4. Stages'
      BY DEF OneRow, Books, Stages
    <2> QED
      BY <2>1, <2>2, <2>3, <2>4 DEF Books
  <1>13. Sidecars' /\ WellFormed(view')
    <2>0. /\ Backed(dirs', segIds, view) /\ WellFormed(view)
          /\ ~unsaved => Synced(dirs', segIds, view)
      BY <1>8, GrownIsBacked DEF OneRow, Sidecars
    <2>1. CASE UNCHANGED <<view, segIds>>
      BY <2>0, <2>1 DEF Sidecars
    <2>2. CASE view' = ApplyFlush(view, seg) /\ segIds' = Append(segIds, nextSegId)
      <3>1. WellFormed(view')
        BY <1>1, <2>0, <2>2, FlushEffect
      <3>2. nextSegId \in DOMAIN dirs' /\ dirs'[nextSegId] = seg
        BY DEF Put
      <3>3. seg \in Segment
        BY <1>1, RebuildsAreSegments
      <3> HIDE DEF seg
      <3> DEFINE n == Len(segIds)
      <3>4. /\ DOMAIN segIds' = 1..(n + 1) /\ segIds'[n + 1] = nextSegId
            /\ \A i \in 1..n : segIds'[i] = segIds[i]
        BY <1>1, <2>2
      <3>5. view'.immutables = Append(view.immutables, seg)
        BY <2>2 DEF ApplyFlush
      <3>6. view'.immutables[n + 1] = seg /\ \A i \in 1..n : view'.immutables[i] = view.immutables[i]
        BY <1>1, <3>3, <3>5
      <3>7. \A i \in 1..(n + 1) : i \in 1..n \/ i = n + 1
        BY <1>1
      <3>8. DOMAIN segIds = 1..n
        BY <1>1
      <3> HIDE DEF n
      <3>9. Backed(dirs', segIds', view')
        BY <2>0, <3>2, <3>4, <3>6, <3>7, <3>8 DEF Backed
      <3>10. ~unsaved => Synced(dirs', segIds', view')
        BY <2>0, <3>2, <3>4, <3>6, <3>7, <3>8 DEF Synced
      <3> QED
        BY <3>1, <3>9, <3>10 DEF Sidecars
    <2> QED
      BY <1>11, <2>1, <2>2
  <1> QED
    BY <1>9, <1>12, <1>13 DEF OneRow

LEMMA FlushRows ==
    ASSUME IInv, OneRow, Flush, excused' = {}
    PROVE  OneRow'
  <1> DEFINE seg == SegmentOf(view.mutable)
             Publishes == /\ manifest.entries # <<>>
                          /\ manifest' = WithSegments(manifest, Append(Segments1(manifest), nextSegId),
                                                      nextLsn - 1)
                          /\ dirs' = Put(nextSegId, seg)
                          /\ \/ UNCHANGED <<saved, view, segIds>>
                             \/ /\ Write(Named(manifest') \ ToSet(segIds)) /\ excused' = {}
                                /\ \/ UNCHANGED <<view, segIds>>
                                   \/ view' = ApplyFlush(view, seg) /\ segIds' = Append(segIds, nextSegId)
             Staged == /\ dirs' \in {dirs, Put(nextSegId, seg)}
                       /\ UNCHANGED <<saved, manifest, view, segIds>>
  <1>1. /\ pc = "ready"
        /\ UNCHANGED <<present, nextLsn, pc, records, unsaved>>
    BY DEF Flush, Ready, call
  <1>2. Publishes \/ Staged
    <2>1. manifest.entries # <<>> => Segments1(manifest) = manifest.entries[1]
      BY ProperFacts DEF IInv, Segs
    <2> QED
      BY <2>1 DEF Flush, SegmentFails, SaveFails, WithSegments
  <1>3. ASSUME Publishes PROVE OneRow'
    BY <1>1, <1>3, FlushPublishesRows
  <1>4. ASSUME Staged PROVE OneRow'
    <2>1. Stages'
      BY <1>1, <1>4 DEF OneRow, Books, Stages
    <2> HIDE DEF seg
    <2> QED
      BY <1>1, <1>4, <2>1, SegmentFailsRows
  <1> QED
    BY <1>2, <1>3, <1>4

-----------------------------------------------------------------------------
(* One live row: rebuilds. *)

(* A call that had segments to rebuild goes on with them or ends.          *)
LEMMA GoesOn ==
    ASSUME Stages, pc = "rebuild", Finish \/ Return \/ UNCHANGED <<pc, records>>,
           UNCHANGED <<present, unsaved>>
    PROVE  Stages'
  <1>1. CASE Finish
    BY <1>1 DEF Stages, Finish
  <1>2. CASE Return
    BY <1>2 DEF Stages, Return
  <1>3. CASE UNCHANGED <<pc, records>>
    BY <1>3 DEF Stages
  <1> QED
    BY <1>1, <1>2, <1>3

LEMMA RebuildSkipRows ==
    ASSUME IInv, OneRow, RebuildSkip
    PROVE  OneRow'
  <1>1. /\ pc = "rebuild" /\ (Finish \/ UNCHANGED <<pc, records>>)
        /\ UNCHANGED <<saved, dirs, manifest, present, view, segIds, nextLsn, unsaved>>
    BY DEF RebuildSkip, disk, memory, history
  <1>2. Stages'
    BY <1>1, GoesOn DEF OneRow, Books
  <1> QED
    BY <1>1, <1>2 DEF OneRow, Books, Single, Floors, Listed, Sidecars, Lists, Savable, Strays

(* What another list of the first entry leaves alone.                      *)
LEMMA WithFirstKeeps ==
    ASSUME NEW m, Proper(m), NEW segs
    PROVE  /\ WithFirst(m, segs).floor = m.floor
           /\ Len(WithFirst(m, segs).entries) = Len(m.entries)
           /\ m.entries = <<>> => WithFirst(m, segs) = m
           /\ m.entries # <<>> => WithFirst(m, segs).entries # <<>>
  <1>0. m = [entries |-> m.entries, floor |-> m.floor]
    BY ProperFacts
  <1>1. /\ m.entries \in Seq(Seq(Nat)) /\ DOMAIN m.entries = 1..Len(m.entries)
        /\ m.entries # <<>> => 1 \in DOMAIN m.entries
    BY ProperFacts
  <1>2. CASE m.entries = <<>>
    BY <1>0, <1>2 DEF WithFirst
  <1>3. CASE m.entries # <<>>
    <2> DEFINE es == [m.entries EXCEPT ![1] = segs]
    <2>1. WithFirst(m, segs) = [entries |-> es, floor |-> m.floor]
      <3>1. WithFirst(m, segs) = WithSegments(m, segs, m.floor)
        BY <1>0, <1>3 DEF WithFirst, WithSegments
      <3> QED
        BY <3>1 DEF WithSegments
    <2>2. es \in Seq(Seq(Nat) \cup {segs}) /\ Len(es) = Len(m.entries) /\ es # <<>>
      <3>1. m.entries \in Seq(Seq(Nat) \cup {segs})
        BY <1>1
      <3> QED
        BY <1>1, <1>3, <3>1
    <2> QED
      BY <1>3, <2>1, <2>2
  <1> QED
    BY <1>2, <1>3

(* A list of the manifest has changed, and it may have been saved.         *)
LEMMA ListsKeepBooks ==
    ASSUME IInv, OneRow, UNCHANGED <<nextLsn, unsaved>>,
           manifest'.floor = manifest.floor, Len(manifest'.entries) = Len(manifest.entries),
           saved' = saved \/ (saved' = manifest' /\ (unsaved => ~(manifest.floor > saved.floor)))
    PROVE  Single' /\ Floors'
  <1>1. Single'
    <2>1. Len(manifest'.entries) <= 1 /\ Len(saved.entries) <= 1
      BY DEF OneRow, Books, Single
    <2> QED
      BY <2>1 DEF Single
  <1>2. Floors'
    <2>1. /\ saved.floor \in Nat /\ manifest.floor \in Nat /\ nextLsn \in Nat
          /\ saved.floor <= nextLsn /\ manifest.floor <= nextLsn
          /\ unsaved => saved.floor < nextLsn - 1 /\ manifest.floor < nextLsn
      BY FloorFacts DEF OneRow, Books, Floors
    <2>2. CASE saved' = saved
      BY <2>1, <2>2 DEF Floors
    <2>3. CASE saved' = manifest' /\ (unsaved => ~(manifest.floor > saved.floor))
      <3>1. ~(manifest.floor > saved.floor) /\ saved.floor < nextLsn - 1 => manifest.floor < nextLsn - 1
        BY <2>1
      <3>2. unsaved => manifest.floor < nextLsn - 1
        BY <2>1, <2>3, <3>1, Zenon
      <3> QED
        BY <2>1, <2>3, <3>2 DEF Floors
    <2> QED
      BY <2>2, <2>3
  <1> QED
    BY <1>1, <1>2

(* One of the directories gives way to one with no other live rows.        *)
LEMMA ReplacedIsSole ==
    ASSUME NEW ds, NEW es, NEW names, NEW old \in names, NEW n, n \notin names,
           NEW new, IsNew(new, n), Sole(ds, names),
           \A d \in names : \A id \in Id : Alive(es[d], id) => Alive(ds[d], id),
           new # {} => \A id \in Id : Alive(es[n], id) => Alive(ds[old], id)
    PROVE  Sole(es, (names \ {old}) \cup new)
  <1> SUFFICES ASSUME NEW id \in Id, NEW d \in (names \ {old}) \cup new, NEW e \in (names \ {old}) \cup new,
                      Alive(es[d], id), Alive(es[e], id)
               PROVE  d = e
    BY DEF Sole
  <1>1. \A x \in new : x = n /\ (Alive(es[x], id) => Alive(ds[old], id))
    BY DEF IsNew
  <1>2. \A x \in names \ {old} : Alive(es[x], id) => Alive(ds[x], id)
    OBVIOUS
  <1>3. \A x, y \in names : Alive(ds[x], id) /\ Alive(ds[y], id) => x = y
    BY DEF Sole
  <1>4. CASE d \in new /\ e \in new
    BY <1>1, <1>4
  <1>5. CASE d \in new /\ e \in names \ {old}
    <2>1. Alive(ds[old], id) /\ Alive(ds[e], id)
      BY <1>1, <1>2, <1>5
    <2> QED
      BY <1>3, <1>5, <2>1
  <1>6. CASE e \in new /\ d \in names \ {old}
    <2>1. Alive(ds[old], id) /\ Alive(ds[d], id)
      BY <1>1, <1>2, <1>6
    <2> QED
      BY <1>3, <1>6, <2>1
  <1>7. CASE d \in names \ {old} /\ e \in names \ {old}
    BY <1>2, <1>3, <1>7
  <1> QED
    BY <1>4, <1>5, <1>6, <1>7

(* Where the segments of the view are after a rebuild of the one at si.    *)
Shifted(ids, v, si, n, seg) ==
    \A k \in DOMAIN ids :
      \/ \E j \in DOMAIN segIds : j # si /\ ids[k] = segIds[j] /\ v.immutables[k] = view.immutables[j]
      \/ ids[k] = n /\ v.immutables[k] = seg

LEMMA RebuiltPositions ==
    ASSUME Segs, NEW si \in DOMAIN segIds, NEW n \in Nat,
           NEW seg, seg = SegmentOf(Rebuilt(view.immutables[si])),
           NEW ids, ids = IF IsEmpty(Rebuilt(view.immutables[si])) THEN RemovePosition(segIds, si)
                          ELSE ReplaceAt(segIds, si, n)
    PROVE  /\ Shifted(ids, ApplyRebuild(view, si), si, n, seg)
           /\ IsEmpty(Rebuilt(view.immutables[si])) => \A k \in DOMAIN ids : \E j \in DOMAIN segIds :
                j # si /\ ids[k] = segIds[j] /\ ApplyRebuild(view, si).immutables[k] = view.immutables[j]
  <1>1. /\ view \in View /\ segIds \in Seq(Nat) /\ DOMAIN segIds = DOMAIN view.immutables
        /\ DOMAIN segIds = 1..Len(segIds) /\ Len(segIds) \in Nat /\ Len(segIds) = Len(view.immutables)
        /\ view.immutables \in Seq(Segment)
        /\ view = [mutable |-> view.mutable, immutables |-> view.immutables]
    BY IdFacts, ViewFacts
  <1>2. CASE IsEmpty(Rebuilt(view.immutables[si]))
    <2>1. ApplyRebuild(view, si).immutables = RemovePosition(view.immutables, si)
      BY <1>1, <1>2 DEF ApplyRebuild
    <2>2. /\ DOMAIN RemovePosition(segIds, si) = 1..(Len(segIds) - 1)
          /\ \A j \in 1..(Len(segIds) - 1) :
               /\ RemovePosition(segIds, si)[j] = IF j < si THEN segIds[j] ELSE segIds[j + 1]
               /\ RemovePosition(view.immutables, si)[j]
                    = IF j < si THEN view.immutables[j] ELSE view.immutables[j + 1]
      <3> DEFINE segs == view.immutables
      <3>1. segs \in Seq(Segment) /\ Len(segs) = Len(segIds) /\ si \in 1..Len(segs) /\ si \in 1..Len(segIds)
        BY <1>1
      <3> HIDE DEF segs
      <3>2. \A j \in 1..(Len(segs) - 1) :
              RemovePosition(segs, si)[j] = IF j < si THEN segs[j] ELSE segs[j + 1]
        BY <3>1, RemovedPosition
      <3>3. /\ DOMAIN RemovePosition(segIds, si) = 1..(Len(segIds) - 1)
            /\ \A j \in 1..(Len(segIds) - 1) :
                 RemovePosition(segIds, si)[j] = IF j < si THEN segIds[j] ELSE segIds[j + 1]
        BY <1>1, <3>1, RemovedPosition
      <3> QED
        BY <3>1, <3>2, <3>3 DEF segs
    <2>3. ASSUME NEW k \in DOMAIN ids
          PROVE  \E j \in DOMAIN segIds : /\ j # si /\ ids[k] = segIds[j]
                                          /\ ApplyRebuild(view, si).immutables[k] = view.immutables[j]
      <3>1. k \in 1..(Len(segIds) - 1) /\ ids = RemovePosition(segIds, si)
        BY <1>2, <2>2
      <3>2. CASE k < si
        <4>1. k \in DOMAIN segIds /\ k # si
          BY <1>1, <3>1, <3>2
        <4> QED
          BY <2>1, <2>2, <3>1, <3>2, <4>1
      <3>3. CASE ~(k < si)
        <4>1. k + 1 \in DOMAIN segIds /\ k + 1 # si
          BY <1>1, <3>1, <3>3
        <4> QED
          BY <2>1, <2>2, <3>1, <3>3, <4>1
      <3> QED
        BY <3>2, <3>3
    <2> QED
      BY <2>3 DEF Shifted
  <1>3. CASE ~IsEmpty(Rebuilt(view.immutables[si]))
    <2>1. ApplyRebuild(view, si).immutables = [view.immutables EXCEPT ![si] = seg]
      BY <1>1, <1>3 DEF ApplyRebuild
    <2>2. /\ ids = ReplaceAt(segIds, si, n) /\ DOMAIN ids = DOMAIN segIds
          /\ \A k \in DOMAIN segIds : ids[k] = IF k = si THEN n ELSE segIds[k]
      BY <1>1, <1>3 DEF ReplaceAt
    <2>3. \A k \in DOMAIN segIds :
            [view.immutables EXCEPT ![si] = seg][k] = IF k = si THEN seg ELSE view.immutables[k]
      BY <1>1
    <2> QED
      BY <1>3, <2>1, <2>2, <2>3 DEF Shifted
  <1> QED
    BY <1>2, <1>3

LEMMA RebuildSwapRows ==
    ASSUME IInv, OneRow, pc = "rebuild", Min(todo) \in DOMAIN segIds, RebuildSwap,
           UNCHANGED <<present, nextLsn, unsaved>>, excused' = {}
    PROVE  OneRow'
  <1> DEFINE si == Min(todo)
             old == segIds[si]
             merged == Rebuilt(view.immutables[si])
             new == IF IsEmpty(merged) THEN {} ELSE {nextSegId}
             seg == SegmentOf(merged)
             written == IF new = {} THEN dirs ELSE Put(nextSegId, seg)
  <1>1. /\ view' = ApplyRebuild(view, si)
        /\ segIds' = Replaced(segIds, old, new)
        /\ manifest' = WithFirst(manifest, Replaced(Segments1(manifest), old, new))
        /\ Finish \/ Return \/ UNCHANGED <<pc, records>>
        /\ \/ /\ manifest.entries # <<>> /\ Write(Named(manifest') \ ToSet(segIds'))
              /\ dirs' = Without(written, {old})
           \/ saved' = saved /\ dirs' = written
    BY DEF RebuildSwap, SaveThenRemove, StopsBeforeRemove, Save, SaveFails
  <1>2. /\ Segs /\ present
        /\ view \in View /\ segIds \in Seq(Nat) /\ Distinct(segIds)
        /\ DOMAIN segIds = DOMAIN view.immutables
        /\ Proper(manifest) /\ Proper(saved) /\ nextSegId \in Nat
        /\ Named(saved) \subseteq DOMAIN dirs /\ Named(manifest) \subseteq DOMAIN dirs
        /\ nextSegId \notin DOMAIN dirs /\ nextSegId \notin ToSet(segIds)
    BY IdFacts, FloorFacts, NextIdIsFree DEF IInv, Segs, OneRow, Books, Stages
  <1>3. /\ si \in DOMAIN segIds /\ old \in ToSet(segIds) /\ old \in Nat
        /\ old \in DOMAIN dirs /\ view.immutables[si] \in Segment
        /\ \A id \in Id : Alive(view.immutables[si], id) => Alive(dirs[old], id)
    <2>1. old \in ToSet(segIds) /\ old \in Nat
      BY <1>2 DEF ToSet
    <2>2. view.immutables[si] \in Segment
      BY <1>2, ViewFacts
    <2> QED
      BY <2>1, <2>2 DEF OneRow, Sidecars, Backed
  <1>4. \A id \in Id : Alive(seg, id) <=> Alive(view.immutables[si], id)
    BY <1>3, RebuiltFacts
  <1>5. /\ IsNew(new, nextSegId) /\ (new = {} <=> IsEmpty(merged))
        /\ \A d \in DOMAIN dirs : d \in DOMAIN written /\ written[d] = dirs[d]
        /\ new # {} => nextSegId \in DOMAIN written /\ written[nextSegId] = seg
    BY <1>2 DEF Put, IsNew
  <1>6. /\ ToSet(segIds') = (ToSet(segIds) \ {old}) \cup new
        /\ segIds' = IF new = {} THEN RemovePosition(segIds, si) ELSE ReplaceAt(segIds, si, nextSegId)
    <2>1. Replaces(segIds, old, new)
      BY <1>2, <1>3, <1>5, ReplacedFacts
    <2>2. new # {} => nextSegId \in new
      BY <1>5 DEF IsNew
    <2> QED
      BY <1>1, <1>3, <2>1, <2>2 DEF Replaces
  <1>7. /\ Shifted(segIds', view', si, nextSegId, seg)
        /\ new = {} => \A k \in DOMAIN segIds' : \E j \in DOMAIN segIds :
                         j # si /\ segIds'[k] = segIds[j] /\ view'.immutables[k] = view.immutables[j]
    <2>1. segIds' = IF IsEmpty(merged) THEN RemovePosition(segIds, si)
                    ELSE ReplaceAt(segIds, si, nextSegId)
      BY <1>5, <1>6
    <2>2. /\ Shifted(segIds', ApplyRebuild(view, si), si, nextSegId, seg)
          /\ IsEmpty(merged) => \A k \in DOMAIN segIds' : \E j \in DOMAIN segIds :
               j # si /\ segIds'[k] = segIds[j] /\ ApplyRebuild(view, si).immutables[k] = view.immutables[j]
      BY <1>2, <1>3, <2>1, RebuiltPositions
    <2> QED
      BY <1>1, <1>5, <2>2
  <1>8. /\ manifest.entries = <<>> => manifest' = manifest
        /\ manifest.entries # <<>> => Named(manifest') = (Named(manifest) \ {old}) \cup new
        /\ manifest'.floor = manifest.floor /\ Len(manifest'.entries) = Len(manifest.entries)
        /\ Proper(manifest')
    <2>1. nextSegId \notin Named(manifest)
      BY <1>2
    <2>2. /\ manifest' = WithFirst(manifest, Replaced(Segments1(manifest), old, new))
          /\ Proper(manifest) /\ old \in Nat /\ nextSegId \in Nat /\ IsNew(new, nextSegId)
      BY <1>1, <1>2, <1>3, <1>5
    <2> HIDE DEF new, old
    <2>3. /\ Proper(manifest')
          /\ manifest.entries = <<>> => manifest' = manifest
          /\ manifest.entries # <<>> => Named(manifest') = (Named(manifest) \ {old}) \cup new
      BY <2>1, <2>2, EntrySwapped
    <2> QED
      BY <2>2, <2>3, WithFirstKeeps
  <1>9. WellFormed(view')
    BY <1>1, <1>2, RebuildEffect DEF OneRow
  <1> HIDE DEF merged, new, seg, written
  <1>10. manifest.entries # <<>> => old \in Named(manifest)
    BY <1>2, <1>3 DEF OneRow, Books, Listed
  <1>11. ASSUME Savable PROVE Sole(written, Named(manifest'))
    <2>1. Sole(dirs, Named(manifest))
      BY <1>11 DEF OneRow, Lists
    <2>2. CASE manifest.entries = <<>>
      BY <1>8, <2>2, NoSegments, SoleOfFew
    <2>3. CASE manifest.entries # <<>>
      <3>1. \A d \in Named(manifest) : \A id \in Id : Alive(written[d], id) => Alive(dirs[d], id)
        BY <1>2, <1>5
      <3>2. new # {} => \A id \in Id : Alive(written[nextSegId], id) => Alive(dirs[old], id)
        BY <1>3, <1>4, <1>5
      <3>3. old \in Named(manifest) /\ nextSegId \notin Named(manifest)
        BY <1>2, <1>10, <2>3
      <3> HIDE DEF old
      <3>4. Sole(written, (Named(manifest) \ {old}) \cup new)
        BY <1>5, <2>1, <3>1, <3>2, <3>3, ReplacedIsSole
      <3> QED
        BY <1>8, <2>3, <3>4
    <2> QED
      BY <2>2, <2>3
  <1>12. ASSUME NEW d \in Strays, manifest.entries # <<>> PROVE d \in Named(manifest') \ ToSet(segIds')
    <2>1. d \in Named(manifest) /\ d \notin ToSet(segIds) /\ d # old /\ d # nextSegId
      BY <1>2, <1>3, <1>12 DEF Strays
    <2> QED
      BY <1>5, <1>6, <1>8, <1>12, <2>1 DEF IsNew
  <1>13. manifest.entries = <<>> => Strays = {}
    BY NoSegments DEF Strays
  <1>14. ASSUME saved' = saved, Savable' PROVE Savable
    <2>1. \A d, e \in Strays : d = e
      BY <1>12, <1>13, <1>14 DEF Savable, Strays
    <2>2. unsaved => manifest.floor <= saved.floor
      BY <1>8, <1>14 DEF Savable
    <2> QED
      BY <2>1, <2>2 DEF Savable
  <1>15. ASSUME manifest.entries # <<>>, Write(Named(manifest') \ ToSet(segIds'))
         PROVE  /\ saved' = manifest' /\ Savable
                /\ unsaved => ~(manifest.floor > saved.floor)
    <2> DEFINE strays == Named(manifest') \ ToSet(segIds')
    <2>1. IsFiniteSet(strays)
      BY <1>8, NamedIsFinite, FS_Subset
    <2>2. /\ saved' = manifest' /\ (\A d, e \in strays : d = e)
          /\ unsaved => ~(manifest'.floor > saved.floor)
      <3> HIDE DEF strays
      <3>1. Write(strays)
        BY <1>15 DEF strays
      <3> QED
        BY <2>1, <3>1, Saves
    <2>3. unsaved => ~(manifest.floor > saved.floor)
      BY <1>8, <2>2
    <2>4. \A d, e \in Strays : d = e
      BY <1>12, <1>15, <2>2
    <2>5. manifest.floor \in Nat /\ saved.floor \in Nat
      BY FloorFacts
    <2>6. ~(manifest.floor > saved.floor) => manifest.floor <= saved.floor
      BY <2>5
    <2> QED
      BY <2>2, <2>3, <2>4, <2>6, Zenon DEF Savable
  <1>16. Lists'
    <2>1. CASE saved' = saved /\ dirs' = written
      <3>1. Sole(dirs', Named(saved'))
        <4>1. Sole(dirs, Named(saved))
          BY DEF OneRow, Lists
        <4> QED
          BY <1>2, <1>5, <2>1, <4>1, GrownIsSole
      <3> QED
        BY <1>11, <1>14, <2>1, <3>1 DEF Lists
    <2>2. CASE /\ manifest.entries # <<>> /\ Write(Named(manifest') \ ToSet(segIds'))
               /\ dirs' = Without(written, {old})
      <3>1. Sole(written, Named(manifest')) /\ saved' = manifest'
        BY <1>11, <1>15, <2>2
      <3>2. \A d \in Named(manifest') : dirs'[d] = written[d]
        <4>1. \A d \in Named(manifest') : d \in DOMAIN written /\ d # old
          BY <1>2, <1>3, <1>5, <1>8, <2>2 DEF IsNew
        <4> QED
          BY <2>2, <4>1 DEF Without
      <3>3. Sole(dirs', Named(manifest'))
        BY <3>1, <3>2, SoleShrinks
      <3> QED
        BY <3>1, <3>3 DEF Lists
    <2> QED
      BY <1>1, <2>1, <2>2
  <1>17. saved' = saved \/ (saved' = manifest' /\ (unsaved => ~(manifest.floor > saved.floor)))
    BY <1>1, <1>15
  <1>18. Books'
    <2>1. Single' /\ Floors'
      BY <1>8, <1>17, ListsKeepBooks
    <2>3. Listed'
      <3>1. CASE manifest.entries = <<>>
        BY <1>8, <3>1 DEF Listed
      <3>2. CASE manifest.entries # <<>>
        <4>1. ToSet(segIds) \subseteq Named(manifest)
          BY <1>2, <3>2 DEF OneRow, Books, Listed
        <4>2. ToSet(segIds') \subseteq Named(manifest')
          BY <1>6, <1>8, <3>2, <4>1
        <4> QED
          BY <4>2 DEF Listed
      <3> QED
        BY <3>1, <3>2
    <2>4. Stages'
      BY <1>1, GoesOn DEF OneRow, Books
    <2> QED
      BY <2>1, <2>3, <2>4 DEF Books
  <1>19. Sidecars'
    <2>1. /\ \A d \in DOMAIN written : d # old => d \in DOMAIN dirs' /\ dirs'[d] = written[d]
      BY <1>1 DEF Without
    <2>2. \A j \in DOMAIN segIds : j # si => segIds[j] # old
      BY <1>2, <1>3 DEF Distinct
    <2>3. /\ Backed(dirs, segIds, view) /\ (~unsaved => Synced(dirs, segIds, view))
      BY DEF OneRow, Sidecars
    <2>4. ASSUME NEW j \in DOMAIN segIds, j # si
          PROVE  segIds[j] \in DOMAIN dirs' /\ dirs'[segIds[j]] = dirs[segIds[j]]
      <3>1. segIds[j] \in DOMAIN dirs
        BY <2>3 DEF Backed
      <3>2. segIds[j] \in DOMAIN written /\ written[segIds[j]] = dirs[segIds[j]]
        BY <1>5, <3>1
      <3> QED
        BY <2>1, <2>2, <2>4, <3>2
    <2>5. new # {} => nextSegId \in DOMAIN dirs' /\ dirs'[nextSegId] = seg
      BY <1>2, <1>3, <1>5, <2>1
    <2>6. ASSUME NEW k \in DOMAIN segIds'
          PROVE  \/ \E j \in DOMAIN segIds : /\ j # si /\ segIds'[k] = segIds[j]
                                             /\ view'.immutables[k] = view.immutables[j]
                 \/ new # {} /\ segIds'[k] = nextSegId /\ view'.immutables[k] = seg
      BY <1>7 DEF Shifted
    <2> HIDE DEF old, si
    <2>7. Backed(dirs', segIds', view')
      BY <2>3, <2>4, <2>5, <2>6 DEF Backed
    <2>8. ~unsaved => Synced(dirs', segIds', view')
      BY <2>3, <2>4, <2>5, <2>6 DEF Synced
    <2> QED
      BY <2>7, <2>8 DEF Sidecars
  <1> QED
    BY <1>9, <1>16, <1>18, <1>19 DEF OneRow

LEMMA RebuildRows ==
    ASSUME IInv, OneRow, Rebuild, excused' = {}
    PROVE  OneRow'
  <1>1. /\ pc = "rebuild" /\ Min(todo) \in DOMAIN segIds /\ (RebuildSwap \/ RebuildSegmentFails)
        /\ UNCHANGED <<present, nextLsn, unsaved>>
    BY DEF Rebuild
  <1>2. ASSUME RebuildSwap PROVE OneRow'
    BY <1>1, <1>2, RebuildSwapRows
  <1>3. ASSUME RebuildSegmentFails PROVE OneRow'
    <2> DEFINE seg == SegmentOf(Rebuilt(view.immutables[Min(todo)]))
    <2>1. /\ dirs' \in {dirs, Put(nextSegId, seg)} /\ Return
          /\ UNCHANGED <<saved, manifest, view, segIds>>
      BY <1>3 DEF RebuildSegmentFails, SegmentFails
    <2>2. Stages'
      BY <1>1, <2>1, GoesOn DEF OneRow, Books
    <2> HIDE DEF seg
    <2> QED
      BY <1>1, <2>1, <2>2, SegmentFailsRows
  <1> QED
    BY <1>1, <1>2, <1>3

-----------------------------------------------------------------------------
(* One live row: compactions. *)

LEMMA CompactSwapRows ==
    ASSUME IInv, OneRow, pc = "ready", present,
           NEW ids, NEW written,
           ids = IF IsEmpty(Merged(view)) THEN <<>> ELSE <<nextSegId>>,
           written = IF IsEmpty(Merged(view)) THEN dirs ELSE Put(nextSegId, SegmentOf(Merged(view))),
           view' = ApplyCompact(view), segIds' = ids, manifest' = WithFirst(manifest, ids),
           \/ /\ manifest.entries # <<>> /\ Write(Named(manifest') \ ToSet(segIds'))
              /\ dirs' = Without(written, ToSet(segIds))
           \/ saved' = saved /\ dirs' = written,
           UNCHANGED <<present, nextLsn, pc, records, unsaved>>, excused' = {}
    PROVE  OneRow'
  <1>1. /\ Segs /\ Proper(manifest) /\ nextSegId \in Nat /\ view \in View
        /\ Named(saved) \subseteq DOMAIN dirs /\ Named(manifest) \subseteq DOMAIN dirs
        /\ nextSegId \notin DOMAIN dirs /\ nextSegId \notin ToSet(segIds)
    BY FloorFacts, NextIdIsFree DEF IInv, Segs
  <1>2. /\ ids \in Seq(Nat) /\ Distinct(ids)
        /\ ToSet(ids) = IF IsEmpty(Merged(view)) THEN {} ELSE {nextSegId}
    <2>1. CASE IsEmpty(Merged(view))
      <3>1. ids = <<>> /\ <<>> \in Seq(Nat) /\ DOMAIN <<>> = {}
        BY <2>1
      <3> QED
        BY <2>1, <3>1 DEF Distinct, ToSet
    <2>2. CASE ~IsEmpty(Merged(view))
      <3>1. /\ ids = <<nextSegId>> /\ <<nextSegId>> \in Seq(Nat)
            /\ DOMAIN <<nextSegId>> = {1} /\ <<nextSegId>>[1] = nextSegId
        BY <1>1, <2>2
      <3>2. ToSet(ids) = {nextSegId} /\ Distinct(ids)
        BY <3>1 DEF Distinct, ToSet
      <3> QED
        BY <2>2, <3>1, <3>2
    <2> QED
      BY <2>1, <2>2
  <1>3. /\ Proper(manifest')
        /\ manifest.entries = <<>> => manifest' = manifest
        /\ manifest.entries # <<>> => Named(manifest') = ToSet(ids)
        /\ manifest'.floor = manifest.floor /\ Len(manifest'.entries) = Len(manifest.entries)
    BY <1>1, <1>2, EntryReplaced, WithFirstKeeps
  <1>4. \A d, e \in Named(manifest') : d = e
    BY <1>2, <1>3, NoSegments
  <1>5. ASSUME manifest.entries # <<>>, Write(Named(manifest') \ ToSet(segIds'))
        PROVE  saved' = manifest' /\ (unsaved => ~(manifest.floor > saved.floor))
    <2> DEFINE strays == Named(manifest') \ ToSet(segIds')
    <2>1. IsFiniteSet(strays)
      BY <1>3, NamedIsFinite, FS_Subset
    <2>2. Write(strays)
      BY <1>5
    <2> HIDE DEF strays
    <2>3. saved' = manifest' /\ (unsaved => ~(manifest'.floor > saved.floor))
      BY <2>1, <2>2, Saves
    <2> QED
      BY <1>3, <2>3
  <1>6. \A d \in DOMAIN dirs : d \in DOMAIN written /\ written[d] = dirs[d]
    BY <1>1, DirsGrow
  <1>7. Lists'
    <2>1. Sole(dirs', Named(manifest'))
      BY <1>4, SoleOfFew
    <2>2. ASSUME saved' = saved, dirs' = written PROVE Sole(dirs', Named(saved'))
      <3>1. Sole(dirs, Named(saved))
        BY DEF OneRow, Lists
      <3> QED
        BY <1>1, <1>6, <2>2, <3>1, GrownIsSole
    <2> QED
      BY <1>5, <2>1, <2>2 DEF Lists
  <1>8. Books'
    <2>1. Single' /\ Floors'
      BY <1>3, <1>5, ListsKeepBooks
    <2>2. Listed'
      BY <1>3 DEF Listed
    <2>3. Stages'
      BY DEF OneRow, Books, Stages
    <2> QED
      BY <2>1, <2>2, <2>3 DEF Books
  <1>9. Sidecars'
    <2>1. CASE IsEmpty(Merged(view))
      <3>1. segIds' = <<>>
        BY <2>1
      <3> QED
        BY <3>1, NoneAlive DEF Sidecars
    <2>2. CASE ~IsEmpty(Merged(view))
      <3> DEFINE seg == SegmentOf(Merged(view))
      <3>1. written[nextSegId] = seg /\ nextSegId \in DOMAIN written
        BY <2>2 DEF Put
      <3>2. nextSegId \in DOMAIN dirs' /\ dirs'[nextSegId] = seg
        BY <1>1, <3>1 DEF Without
      <3>3. /\ segIds' = <<nextSegId>> /\ view'.immutables = <<seg>>
        BY <2>2 DEF ApplyCompact
      <3> HIDE DEF seg
      <3>4. DOMAIN segIds' = {1} /\ segIds'[1] = nextSegId /\ view'.immutables[1] = seg
        BY <3>3
      <3>5. Backed(dirs', segIds', view') /\ Synced(dirs', segIds', view')
        BY <3>2, <3>4 DEF Backed, Synced
      <3> QED
        BY <3>5 DEF Sidecars
    <2> QED
      BY <2>1, <2>2
  <1>10. WellFormed(view')
    BY <1>1, CompactEffect DEF OneRow
  <1> QED
    BY <1>7, <1>8, <1>9, <1>10 DEF OneRow

LEMMA CompactRows ==
    ASSUME IInv, OneRow, Compact, excused' = {}
    PROVE  OneRow'
  <1> DEFINE merged == Merged(view)
             ids == IF IsEmpty(merged) THEN <<>> ELSE <<nextSegId>>
             written == IF IsEmpty(merged) THEN dirs ELSE Put(nextSegId, SegmentOf(merged))
             Swap == /\ view' = ApplyCompact(view)
                     /\ segIds' = ids
                     /\ manifest' = WithFirst(manifest, ids)
                     /\ \/ /\ manifest.entries # <<>> /\ Write(Named(manifest') \ ToSet(segIds'))
                           /\ dirs' = Without(written, ToSet(segIds))
                        \/ saved' = saved /\ dirs' = written
             Fail == /\ dirs' \in {dirs, Put(nextSegId, SegmentOf(merged))}
                     /\ UNCHANGED <<saved, manifest, view, segIds>>
  <1>1. /\ pc = "ready" /\ present /\ (Swap \/ Fail)
        /\ UNCHANGED <<present, nextLsn, pc, records, unsaved>>
    BY DEF Compact, Ready, SegmentFails, SaveThenRemove, StopsBeforeRemove, Save, SaveFails, call
  <1>2. ASSUME Swap PROVE OneRow'
    <2> HIDE DEF ids, written
    <2>1. /\ ids = IF IsEmpty(merged) THEN <<>> ELSE <<nextSegId>>
          /\ written = IF IsEmpty(merged) THEN dirs ELSE Put(nextSegId, SegmentOf(merged))
      BY DEF ids, written
    <2> QED
      BY <1>1, <1>2, <2>1, CompactSwapRows
  <1>3. ASSUME Fail PROVE OneRow'
    <2>1. Stages'
      BY <1>1 DEF OneRow, Books, Stages
    <2> QED
      BY <1>1, <1>3, <2>1, SegmentFailsRows
  <1> QED
    BY <1>1, <1>2, <1>3

-----------------------------------------------------------------------------
(* One live row: opens. *)

LEMMA OpenRows ==
    ASSUME IInv, OneRow, Open
    PROVE  OneRow'
  <1>1. /\ Proper(saved) /\ walFile \in Seq(LoggedRecord \cup {Torn})
        /\ Len(saved.entries) <= 1 /\ Sole(dirs, Named(saved))
    BY DEF IInv, Segs, Calls, OneRow, Books, Single, Lists
  <1>2. /\ Named(saved) \subseteq DOMAIN dirs
        /\ nextLsn' = NextLsnAtOpen(Intact(walFile), saved.floor)
        /\ dirs' = [d \in Named(saved) |-> dirs[d]]
        /\ manifest' = saved /\ saved' = saved
        /\ present' = (saved.entries # <<>>)
        /\ segIds' = IF present' THEN Last(saved.entries) ELSE <<>>
        /\ view' = [mutable |-> EmptyMutable,
                    immutables |-> [i \in DOMAIN segIds' |-> dirs[segIds'[i]]]]
        /\ pc' = "replay" /\ unsaved' = FALSE
    BY DEF Open
  <1>3. /\ ToSet(segIds') = Named(saved) /\ Distinct(segIds')
    <2>1. CASE saved.entries = <<>>
      <3>1. segIds' = <<>>
        BY <1>2, <2>1
      <3> QED
        BY <2>1, <3>1, NoSegments DEF Distinct
    <2>2. CASE saved.entries # <<>>
      <3>1. /\ Len(saved.entries) \in Nat /\ 1 \in DOMAIN saved.entries
            /\ DOMAIN saved.entries = 1..Len(saved.entries)
            /\ Segments1(saved) = saved.entries[1]
            /\ Named(saved) = ToSet(Segments1(saved)) /\ Distinct(Segments1(saved))
        BY <1>1, <2>2, ProperFacts
      <3>2. Len(saved.entries) = 1
        <4>1. \A n \in Nat : 1 \in 1..n /\ n <= 1 => n = 1
          OBVIOUS
        <4> QED
          BY <1>1, <3>1, <4>1
      <3>3. segIds' = saved.entries[1]
        BY <1>2, <2>2, <3>2 DEF Last
      <3> QED
        BY <3>1, <3>3
    <2> QED
      BY <2>1, <2>2
  <1>4. \A i \in DOMAIN segIds' :
          /\ segIds'[i] \in Named(saved) /\ segIds'[i] \in DOMAIN dirs'
          /\ dirs'[segIds'[i]] = dirs[segIds'[i]] /\ view'.immutables[i] = dirs[segIds'[i]]
    BY <1>2, <1>3 DEF ToSet
  <1>5. Sidecars'
    <2>1. Backed(dirs', segIds', view') /\ Synced(dirs', segIds', view')
      BY <1>4 DEF Backed, Synced
    <2> QED
      BY <2>1 DEF Sidecars
  <1>6. Lists'
    <2>1. \A d \in Named(saved) : dirs'[d] = dirs[d]
      BY <1>2
    <2>2. Sole(dirs', Named(saved))
      BY <1>1, <2>1, SoleShrinks
    <2> QED
      BY <1>2, <2>2 DEF Lists
  <1>7. Books'
    <2>1. Single'
      BY <1>1, <1>2 DEF Single
    <2>2. Stages'
      BY <1>2 DEF Stages
    <2>3. Floors'
      <3>1. Intact(walFile) \in Seq(LoggedRecord) /\ saved.floor \in Nat
        BY <1>1, IntactType, ProperFacts
      <3>2. saved.floor <= nextLsn'
        BY <1>2, <3>1, NextLsnType
      <3> QED
        BY <1>2, <3>2 DEF Floors
    <2>4. Listed'
      BY <1>2, <1>3 DEF Listed
    <2> QED
      BY <2>1, <2>2, <2>3, <2>4 DEF Books
  <1>8. WellFormed(view')
    <2>1. DOMAIN view'.immutables = DOMAIN segIds' /\ view'.mutable = EmptyMutable
      BY <1>2
    <2>2. ASSUME NEW id \in Id PROVE id \notin RowIds(view'.mutable)
      BY <2>1, EmptyMutableFacts
    <2>3. ASSUME NEW id \in Id, NEW i \in Holders(view', id), NEW j \in Holders(view', id)
          PROVE  i = j
      <3>1. /\ i \in DOMAIN segIds' /\ j \in DOMAIN segIds'
            /\ Alive(view'.immutables[i], id) /\ Alive(view'.immutables[j], id)
        BY <2>1 DEF Holders
      <3>2. Alive(dirs[segIds'[i]], id) /\ Alive(dirs[segIds'[j]], id)
        BY <1>4, <3>1
      <3>3. segIds'[i] = segIds'[j]
        BY <1>1, <1>4, <3>1, <3>2 DEF Sole
      <3> QED
        BY <1>3, <3>1, <3>3 DEF Distinct
    <2> QED
      BY <2>2, <2>3 DEF WellFormed
  <1> QED
    BY <1>5, <1>6, <1>7, <1>8 DEF OneRow

(* The replay of a record that changes the manifest. *)
LEMMA ReplayedManifestRows ==
    ASSUME IInv, OneRow, pc = "replay",
           Single', Listed', Sidecars', Lists', WellFormed(view'), Stages',
           manifest'.floor = manifest.floor, saved' = saved \/ saved' = manifest',
           UNCHANGED <<nextLsn, unsaved>>
    PROVE  OneRow'
  <1>1. ~unsaved
    BY DEF OneRow, Books, Stages
  <1>2. Floors'
    BY <1>1, FloorFacts DEF OneRow, Books, Floors
  <1> QED
    BY <1>2 DEF OneRow, Books

LEMMA ReplayRows ==
    ASSUME IInv, OneRow, Replay
    PROVE  OneRow'
  <1> DEFINE o == Head(records).op
  <1>1. /\ Segs /\ records \in Seq(LoggedRecord) /\ records # <<>> /\ pc = "replay"
        /\ ReplayRecord(o) /\ ~unsaved
        /\ UNCHANGED <<nextLsn, unsaved>>
    BY DEF IInv, Segs, Replay, OneRow, Books, Stages
  <1>2. o \in Op
    BY <1>1, RecordFacts
  <1> HIDE DEF o
  <1>3. /\ Finish => pc' = "replay"
        /\ Return => pc' = "down" /\ records' = <<>>
    BY <1>1 DEF Finish, Return
  <1>4. ~present => manifest.entries = <<>>
    BY <1>1 DEF OneRow, Books, Stages
  <1>5. CASE o = Create
    <2>0. o # Drop
      BY <1>5 DEF Create, Drop
    <2>1. ASSUME present PROVE OneRow'
      <3>1. Finish /\ UNCHANGED <<saved, dirs, manifest, present, view, segIds>>
        BY <1>1, <1>5, <2>0, <2>1 DEF ReplayRecord
      <3>2. Stages'
        BY <1>1, <1>3, <2>1, <3>1 DEF Stages
      <3> QED
        BY <1>1, <3>1, <3>2 DEF OneRow, Books, Single, Floors, Listed, Sidecars, Lists, Savable, Strays
    <2>2. ASSUME ~present PROVE OneRow'
      <3>1. CreateLocked \/ CreateLockedFails
        BY <1>1, <1>5, <2>0, <2>2 DEF ReplayRecord
      <3>2. /\ Single' /\ Listed' /\ Sidecars' /\ Lists' /\ WellFormed(view')
            /\ manifest'.floor = manifest.floor /\ (saved' = saved \/ saved' = manifest')
        BY <1>1, <1>4, <2>2, <3>1, CreateLockedRows
      <3>3. Stages'
        <4>1. CASE CreateLocked
          BY <1>1, <1>3, <4>1 DEF CreateLocked, Stages
        <4>2. CASE CreateLockedFails
          BY <1>1, <1>3, <4>2 DEF CreateLockedFails, Stages
        <4> QED
          BY <3>1, <4>1, <4>2
      <3> QED
        BY <1>1, <3>2, <3>3, ReplayedManifestRows
    <2> QED
      BY <2>1, <2>2
  <1>6. CASE o = Drop
    <2>0. o # Create
      BY <1>6 DEF Create, Drop
    <2>1. DropLocked \/ DropLockedFails
      BY <1>1, <1>6, <2>0 DEF ReplayRecord
    <2>2. /\ Single' /\ Listed' /\ Sidecars' /\ Lists' /\ WellFormed(view')
          /\ manifest'.entries = <<>>
          /\ manifest'.floor = manifest.floor /\ (saved' = saved \/ saved' = manifest')
      BY <1>1, <2>1, DropLockedRows
    <2>3. Stages'
      BY <1>1, <1>3, <2>1, <2>2 DEF DropLocked, DropLockedFails, Stages
    <2> QED
      BY <1>1, <2>2, <2>3, ReplayedManifestRows
  <1>7. CASE o \notin {Create, Drop}
    <2>1. IsEdit(o)
      BY <1>2, <1>7, EditsAre
    <2>2. ASSUME present PROVE OneRow'
      <3>1. (Apply(o) \/ ApplyFails(o)) /\ UNCHANGED <<saved, present>>
        BY <1>1, <1>7, <2>2 DEF ReplayRecord
      <3>2. UNCHANGED <<manifest, segIds>>
        BY <3>1 DEF Apply, ApplyFails
      <3>3. Edits /\ (Apply(o) => Synced(dirs', segIds, view'))
        <4>1. Sidecars /\ WellFormed(view) /\ Synced(dirs, segIds, view)
          BY <1>1 DEF OneRow, Sidecars
        <4> QED
          BY <1>1, <2>1, <3>1, <4>1, ApplyRows, ApplyFailsRows
      <3>4. \/ Apply(o) /\ pc' \in {"rebuild", "replay"}
            \/ pc' = "down"
        BY <1>3, <3>1 DEF Apply, ApplyFails
      <3>5. Stages'
        BY <1>1, <2>2, <3>1, <3>4 DEF Stages
      <3>6. Books'
        BY <1>1, <3>1, <3>2, <3>5 DEF OneRow, Books, Single, Floors, Listed
      <3>7. Sidecars'
        BY <3>2, <3>3, <3>4 DEF Sidecars, Edits
      <3>8. Lists'
        BY <1>1, <3>1, <3>2, <3>3, EditsKeepLists DEF OneRow
      <3> QED
        BY <3>3, <3>6, <3>7, <3>8 DEF OneRow, Edits
    <2>3. ASSUME ~present PROVE OneRow'
      <3>1. /\ pc' = "refused" /\ records' = <<>>
            /\ UNCHANGED <<saved, dirs, manifest, present, view, segIds>>
        BY <1>1, <1>7, <2>3 DEF ReplayRecord
      <3>2. Stages'
        BY <3>1 DEF Stages
      <3> QED
        BY <1>1, <3>1, <3>2 DEF OneRow, Books, Single, Floors, Listed, Sidecars, Lists, Savable, Strays
    <2> QED
      BY <2>2, <2>3
  <1> QED
    BY <1>5, <1>6, <1>7

LEMMA ReplayEndRows ==
    ASSUME IInv, OneRow, ReplayEnd
    PROVE  OneRow'
  <1>1. /\ pc = "replay" /\ pc' = "ready" /\ records = <<>>
        /\ UNCHANGED <<saved, dirs, manifest, present, view, segIds, nextLsn, records, unsaved>>
    BY DEF ReplayEnd, disk, memory
  <1> QED
    BY <1>1 DEF OneRow, Books, Single, Stages, Floors, Listed, Sidecars, Lists, Savable, Strays

-----------------------------------------------------------------------------
(* One live row: every step. *)

(* An excuse is never taken back. *)
LEMMA ExcusesStay ==
    ASSUME [Next]_vars
    PROVE  excused \subseteq excused'
  <1>1. ASSUME NEW o \in Ops, Call(o) \/ CallFails(o) \/ CreateOrDrop(o) \/ AppendFails(o)
        PROVE  excused \subseteq excused'
    BY <1>1 DEF Call, CallFails, CreateOrDrop, AppendFails
  <1>2. CASE RebuildSkip
    BY <1>2 DEF RebuildSkip, history
  <1>3. CASE Rebuild
    <2>1. CASE RebuildSwap
      BY <2>1 DEF RebuildSwap, SaveThenRemove, StopsBeforeRemove, Save, Write, SaveFails
    <2>2. CASE RebuildSegmentFails
      BY <2>2 DEF RebuildSegmentFails
    <2> QED
      BY <1>3, <2>1, <2>2 DEF Rebuild
  <1>4. CASE Flush
    BY <1>4 DEF Flush, Write, SaveFails
  <1>5. CASE Compact
    BY <1>5 DEF Compact, SaveThenRemove, StopsBeforeRemove, Save, Write, SaveFails
  <1>6. CASE Open
    BY <1>6 DEF Open
  <1>7. CASE Replay
    BY <1>7 DEF Replay
  <1>8. CASE ReplayEnd
    BY <1>8 DEF ReplayEnd
  <1>9. CASE UNCHANGED vars
    BY <1>9 DEF vars, history
  <1> QED
    BY <1>1, <1>2, <1>3, <1>4, <1>5, <1>6, <1>7, <1>8, <1>9 DEF Next

LEMMA InitRows == Init => OneRow
  <1> SUFFICES ASSUME Init PROVE OneRow
    OBVIOUS
  <1>1. /\ saved = [entries |-> <<>>, floor |-> 0] /\ manifest = saved
        /\ dirs = <<>> /\ present = FALSE /\ view = EmptyView /\ segIds = <<>>
        /\ nextLsn = 1 /\ pc = "ready" /\ records = <<>> /\ unsaved = FALSE
    BY DEF Init
  <1>2. Named(saved) = {} /\ Named(manifest) = {} /\ saved.floor = 0 /\ Len(saved.entries) = 0
    BY <1>1, NoSegments
  <1>3. Books
    BY <1>1, <1>2 DEF Books, Single, Stages, Floors, Listed
  <1>4. Sidecars
    BY <1>1, NoneAlive DEF Sidecars
  <1>5. Lists
    BY <1>2, SoleOfFew DEF Lists
  <1> QED
    BY <1>1, <1>3, <1>4, <1>5, EmptyViewFacts DEF OneRow

(* The invariant, as long as there is no excuse. *)
RowsInv == excused = {} => OneRow

LEMMA NextKeepsRows == IInv /\ RowsInv /\ [Next]_vars => RowsInv'
  <1> SUFFICES ASSUME IInv, RowsInv, [Next]_vars, excused' = {} PROVE OneRow'
    BY DEF RowsInv
  <1>0. OneRow
    BY ExcusesStay DEF RowsInv
  <1>1. ASSUME NEW o \in Ops, Call(o) PROVE OneRow'
    BY <1>0, <1>1, CallRows
  <1>2. ASSUME NEW o \in Ops, CallFails(o) PROVE OneRow'
    BY <1>0, <1>2, CallFailsRows
  <1>3. ASSUME NEW o \in Ops, CreateOrDrop(o) PROVE OneRow'
    BY <1>0, <1>3, CreateOrDropRows
  <1>4. ASSUME NEW o \in Ops, AppendFails(o) PROVE OneRow'
    BY <1>0, <1>4, AppendFailsRows
  <1>5. CASE RebuildSkip
    BY <1>0, <1>5, RebuildSkipRows
  <1>6. CASE Rebuild
    BY <1>0, <1>6, RebuildRows
  <1>7. CASE Flush
    BY <1>0, <1>7, FlushRows
  <1>8. CASE Compact
    BY <1>0, <1>8, CompactRows
  <1>9. CASE Open
    BY <1>0, <1>9, OpenRows
  <1>10. CASE Replay
    BY <1>0, <1>10, ReplayRows
  <1>11. CASE ReplayEnd
    BY <1>0, <1>11, ReplayEndRows
  <1>12. CASE UNCHANGED vars
    BY <1>0, <1>12 DEF vars, disk, memory, call, history, OneRow, Books, Single, Stages, Floors, Listed,
                       Sidecars, Lists, Savable, Strays
  <1> QED
    BY <1>1, <1>2, <1>3, <1>4, <1>5, <1>6, <1>7, <1>8, <1>9, <1>10, <1>11, <1>12 DEF Next

(* Whatever I/O calls fail, an open that follows loads, and every call     *)
(* leaves, at most one live row for each id, unless one of the known ways  *)
(* to lose a call has been taken.                                          *)
THEOREM OneRowSurvivesFaults == Spec => []OneRowEachUnlessExcused
  <1>1. Init => RowsInv
    BY InitRows DEF RowsInv
  <1>2. RowsInv => OneRowEachUnlessExcused
    BY DEF RowsInv, OneRow, OneRowEachUnlessExcused
  <1> QED
    BY <1>1, <1>2, FaultsInvariant, NextKeepsRows, PTL DEF Spec

=============================================================================
