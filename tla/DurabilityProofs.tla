-------------------------- MODULE DurabilityProofs --------------------------
(***************************************************************************)
(* What holds of Durability for every set of ids and rows, every set of    *)
(* calls and any number of crashes at any step: open finds the segments of *)
(* the manifest, memory and disk agree between calls, views are well       *)
(* formed, LSNs increase, and no logged operation is lost unless an LSN    *)
(* was used again.                                                         *)
(***************************************************************************)
EXTENDS Durability, CollViewLemmas

-----------------------------------------------------------------------------
(* The log. *)

LogRecord == [lsn : Nat, op : Op]

(* A log without a torn frame is kept as a whole. *)
LEMMA IntactOfWhole ==
    ASSUME NEW f \in Seq(LogRecord)
    PROVE  Intact(f) = f
  <1> DEFINE K == {k \in 0..Len(f) : \A i \in 1..k : f[i] # Torn}
  <1>1. Torn \notin LogRecord
    BY TornAssumption DEF LogRecord
  <1>2. Len(f) \in K /\ K \in SUBSET Nat /\ \A k \in K : k <= Len(f)
    BY <1>1
  <1> HIDE DEF K
  <1>3. Max(K) = Len(f)
    BY <1>2, MaxIs
  <1>4. SubSeq(f, 1, Len(f)) = f
    OBVIOUS
  <1> QED
    BY <1>3, <1>4 DEF Intact, K

(* A torn frame at its end is cut off. *)
LEMMA IntactOfTorn ==
    ASSUME NEW f \in Seq(LogRecord)
    PROVE  Intact(Append(f, Torn)) = f
  <1> DEFINE g == Append(f, Torn)
             K == {k \in 0..Len(g) : \A i \in 1..k : g[i] # Torn}
  <1>1. Torn \notin LogRecord
    BY TornAssumption DEF LogRecord
  <1>2. /\ Len(f) \in Nat /\ Len(g) = Len(f) + 1
        /\ \A i \in 1..Len(f) : g[i] = f[i] /\ f[i] \in LogRecord
        /\ g[Len(f) + 1] = Torn
        /\ g \in Seq(LogRecord \cup {Torn})
    OBVIOUS
  <1>3. Len(f) \in K /\ K \in SUBSET Nat
    BY <1>1, <1>2
  <1>4. \A k \in K : k <= Len(f)
    BY <1>2
  <1>5. SubSeq(g, 1, Len(f)) = f
    BY <1>2
  <1> HIDE DEF K, g
  <1>6. Max(K) = Len(f)
    BY <1>3, <1>4, MaxIs
  <1> QED
    BY <1>5, <1>6 DEF Intact, K, g

LEMMA LastLsnIsLast ==
    ASSUME NEW f \in Seq(LogRecord), NEW floor \in Nat
    PROVE  /\ NextLsnAtOpen(f, floor) \in Nat
           /\ \A i \in DOMAIN f : f[i].lsn < NextLsnAtOpen(f, floor)
           /\ floor <= NextLsnAtOpen(f, floor) /\ 0 < NextLsnAtOpen(f, floor)
  <1>0. \A i \in DOMAIN f : f[i].lsn \in Nat
    <2>1. \A i \in DOMAIN f : f[i] \in LogRecord
      OBVIOUS
    <2> QED
      BY <2>1 DEF LogRecord
  <1> DEFINE lsns == [i \in 1..Len(f) |-> f[i].lsn]
  <1>1. lsns \in Seq(Nat) /\ DOMAIN lsns = DOMAIN f /\ \A i \in DOMAIN f : lsns[i] = f[i].lsn
    <2>1. DOMAIN f = 1..Len(f) /\ Len(f) \in Nat
      OBVIOUS
    <2>2. lsns \in [1..Len(f) -> Nat]
      BY <1>0, <2>1
    <2> QED
      BY <2>1, <2>2
  <1>2. {f[i].lsn : i \in DOMAIN f} = ToSet(lsns)
    BY <1>1 DEF ToSet
  <1> HIDE DEF lsns
  <1>3. LastLsn(f) \in Nat /\ \A i \in DOMAIN f : f[i].lsn <= LastLsn(f)
    BY <1>1, <1>2, MaxOfSeq DEF LastLsn
  <1> DEFINE T == {floor, LastLsn(f) + 1}
  <1>4. T \in SUBSET Nat /\ T # {} /\ floor + LastLsn(f) + 1 \in Nat
        /\ \A t \in T : t <= floor + LastLsn(f) + 1
    BY <1>3
  <1>5. floor \in T /\ LastLsn(f) + 1 \in T
    OBVIOUS
  <1> HIDE DEF T
  <1>6. Max(T) \in T /\ \A t \in T : t <= Max(T)
    BY <1>4, MaxIsGreatest
  <1>7. Max(T) = NextLsnAtOpen(f, floor)
    BY DEF T, NextLsnAtOpen
  <1>8. Max(T) \in Nat /\ floor <= Max(T) /\ LastLsn(f) + 1 <= Max(T)
    BY <1>4, <1>5, <1>6
  <1> QED
    BY <1>0, <1>3, <1>7, <1>8

-----------------------------------------------------------------------------
(* What the records of a log make of a map from ids to rows. *)

Effect(s, o) ==
    CASE o.kind = "upsert"  -> AfterUpsert(s, o.batch)
      [] o.kind = "delete"  -> AfterDelete(s, o.ids)
      [] o.kind = "payload" -> AfterSetPayload(s, o.ids, o.payload)
      [] OTHER              -> s

Replay(s, record, floor) == IF Skips(record, floor) THEN s ELSE Effect(s, record.op)

(* c[n] is what the first n records make of c[0]. *)
Runs(c, log, floor) == \A n \in 1..Len(log) : c[n] = Replay(c[n - 1], log[n], floor)

RecoversTo(s, log, floor, t) ==
    \E c \in [0..Len(log) -> Rows] :
      c[0] = s /\ Runs(c, log, floor) /\ c[Len(log)] = t

(* Operations after which the row of an id does not depend on what it was, *)
(* or on its vector only.                                                  *)
Decides(o, id) ==
    \/ o.kind = "upsert" /\ o.batch[id] # NoRow
    \/ o.kind = "delete" /\ id \in o.ids

SetsPayload(o, id) == o.kind = "payload" /\ id \in o.ids

Settled(log, floor, id) ==
    \E n \in DOMAIN log : ~Skips(log[n], floor) /\ Decides(log[n].op, id)

Repayloaded(log, floor, id) ==
    \E n \in DOMAIN log : ~Skips(log[n], floor) /\ SetsPayload(log[n].op, id)

Like(a, b) == a = b \/ (a # NoRow /\ b # NoRow /\ a.vector = b.vector)

LEMMA OpCases ==
    ASSUME NEW o \in Op
    PROVE  \/ o.kind = "create"
           \/ o.kind = "upsert" /\ o.batch \in Batch
           \/ o.kind = "delete" /\ o.ids \in SUBSET Id
           \/ o.kind = "payload" /\ o.ids \in SUBSET Id /\ o.payload \in OptPayload
  BY DEF Op, ClientOp

LEMMA AfterTypes ==
    ASSUME NEW s \in Rows
    PROVE  /\ \A batch \in Batch : AfterUpsert(s, batch) \in Rows
           /\ \A ids \in SUBSET Id : AfterDelete(s, ids) \in Rows
           /\ \A ids \in SUBSET Id, payload \in OptPayload : AfterSetPayload(s, ids, payload) \in Rows
  <1>1. \A batch \in Batch : AfterUpsert(s, batch) \in Rows
    BY DEF AfterUpsert, Batch, Rows
  <1>2. \A ids \in SUBSET Id : AfterDelete(s, ids) \in Rows
    BY DEF AfterDelete, Rows, OptRow
  <1>3. ASSUME NEW ids \in SUBSET Id, NEW payload \in OptPayload
        PROVE  AfterSetPayload(s, ids, payload) \in Rows
    <2>1. \A id \in Id : s[id] # NoRow => [s[id] EXCEPT !.payload = payload] \in Row
      BY DEF Rows, OptRow, Row
    <2> QED
      BY <2>1 DEF AfterSetPayload, Rows, OptRow
  <1> QED
    BY <1>1, <1>2, <1>3

LEMMA EffectType ==
    ASSUME NEW s \in Rows, NEW o \in Op
    PROVE  Effect(s, o) \in Rows
  <1>1. CASE o.kind = "create"
    BY <1>1 DEF Effect
  <1>2. CASE o.kind = "upsert" /\ o.batch \in Batch
    BY <1>2, AfterTypes DEF Effect
  <1>3. CASE o.kind = "delete" /\ o.ids \in SUBSET Id
    BY <1>3, AfterTypes DEF Effect
  <1>4. CASE o.kind = "payload" /\ o.ids \in SUBSET Id /\ o.payload \in OptPayload
    BY <1>4, AfterTypes DEF Effect
  <1> QED
    BY <1>1, <1>2, <1>3, <1>4, OpCases

(* One operation on two maps, at one id. *)
LEMMA EffectAt ==
    ASSUME NEW s \in Rows, NEW r \in Rows, NEW o \in Op, NEW id \in Id
    PROVE  /\ s[id] = r[id] => Effect(s, o)[id] = Effect(r, o)[id]
           /\ Decides(o, id) => Effect(s, o)[id] = Effect(r, o)[id]
           /\ Like(s[id], r[id]) => Like(Effect(s, o)[id], Effect(r, o)[id])
           /\ Like(s[id], r[id]) /\ SetsPayload(o, id) => Effect(s, o)[id] = Effect(r, o)[id]
  <1>1. CASE o.kind = "create"
    BY <1>1 DEF Effect, Decides, SetsPayload
  <1>2. CASE o.kind = "upsert" /\ o.batch \in Batch
    BY <1>2 DEF Effect, Decides, SetsPayload, AfterUpsert, Like
  <1>3. CASE o.kind = "delete" /\ o.ids \in SUBSET Id
    BY <1>3 DEF Effect, Decides, SetsPayload, AfterDelete, Like
  <1>4. CASE o.kind = "payload" /\ o.ids \in SUBSET Id /\ o.payload \in OptPayload
    <2>1. /\ Effect(s, o) = AfterSetPayload(s, o.ids, o.payload)
          /\ Effect(r, o) = AfterSetPayload(r, o.ids, o.payload)
      BY <1>4 DEF Effect
    <2>2. /\ Effect(s, o)[id] = IF id \in o.ids /\ s[id] # NoRow
                                  THEN [s[id] EXCEPT !.payload = o.payload] ELSE s[id]
          /\ Effect(r, o)[id] = IF id \in o.ids /\ r[id] # NoRow
                                  THEN [r[id] EXCEPT !.payload = o.payload] ELSE r[id]
      BY <2>1 DEF AfterSetPayload
    <2>3. ~Decides(o, id)
      BY <1>4 DEF Decides
    <2>4. CASE s[id] = r[id]
      BY <2>2, <2>3, <2>4 DEF Like
    <2>5. ASSUME s[id] # NoRow, r[id] # NoRow, s[id].vector = r[id].vector
          PROVE  /\ [s[id] EXCEPT !.payload = o.payload] = [r[id] EXCEPT !.payload = o.payload]
                 /\ [s[id] EXCEPT !.payload = o.payload] # NoRow
      <3>1. s[id] \in Row /\ r[id] \in Row
        BY <2>5 DEF Rows, OptRow
      <3>2. [s[id] EXCEPT !.payload = o.payload] = [vector |-> s[id].vector, payload |-> o.payload]
        BY <3>1 DEF Row
      <3>3. [r[id] EXCEPT !.payload = o.payload] = [vector |-> r[id].vector, payload |-> o.payload]
        BY <3>1 DEF Row
      <3>4. [vector |-> s[id].vector, payload |-> o.payload] \in Row
        BY <1>4, <3>1 DEF Row
      <3> QED
        BY <2>5, <3>2, <3>3, <3>4, NoRowAssumption
    <2>6. CASE s[id] # r[id]
      BY <2>2, <2>3, <2>5, <2>6 DEF Like, SetsPayload
    <2> QED
      BY <2>4, <2>6
  <1> QED
    BY <1>1, <1>2, <1>3, <1>4, OpCases

LEMMA ReplayType ==
    ASSUME NEW s \in Rows, NEW record \in LogRecord, NEW floor
    PROVE  Replay(s, record, floor) \in Rows
  <1>1. record.op \in Op
    BY DEF LogRecord
  <1> QED
    BY <1>1, EffectType DEF Replay

(* Every log runs from every map. *)
LEMMA RunExists ==
    ASSUME NEW s \in Rows, NEW log \in Seq(LogRecord), NEW floor
    PROVE  \E c \in [0..Len(log) -> Rows] : c[0] = s /\ Runs(c, log, floor)
  <1> DEFINE Part(k) == \E c \in [0..k -> Rows] :
                          c[0] = s /\ \A n \in 1..k : c[n] = Replay(c[n - 1], log[n], floor)
             S == {k \in Nat : k <= Len(log) => Part(k)}
  <1>1. 0 \in S
    <2>1. [n \in 0..0 |-> s] \in [0..0 -> Rows]
      OBVIOUS
    <2>2. Part(0)
      <3> WITNESS [n \in 0..0 |-> s] \in [0..0 -> Rows]
      <3> QED
        OBVIOUS
    <2> QED
      BY <2>2
  <1>2. ASSUME NEW k \in S PROVE k + 1 \in S
    <2>0. k \in Nat /\ k + 1 \in Nat /\ (k <= Len(log) => Part(k))
      OBVIOUS
    <2>1. SUFFICES ASSUME k + 1 <= Len(log) PROVE Part(k + 1)
      BY <2>0
    <2>2. k <= Len(log) /\ k + 1 \in 1..Len(log) /\ Len(log) \in Nat
      BY <2>0, <2>1
    <2>3. PICK c \in [0..k -> Rows] :
            c[0] = s /\ \A n \in 1..k : c[n] = Replay(c[n - 1], log[n], floor)
      BY <2>0, <2>2
    <2> DEFINE d == [n \in 0..(k + 1) |-> IF n <= k THEN c[n] ELSE Replay(c[k], log[k + 1], floor)]
    <2>4. c[k] \in Rows /\ log[k + 1] \in LogRecord
      BY <2>0, <2>2
    <2>5. Replay(c[k], log[k + 1], floor) \in Rows
      BY <2>4, ReplayType
    <2>6. d \in [0..(k + 1) -> Rows]
      BY <2>0, <2>5
    <2>7. d[0] = s
      BY <2>0, <2>3
    <2>8. ASSUME NEW n \in 1..(k + 1) PROVE d[n] = Replay(d[n - 1], log[n], floor)
      <3>1. CASE n = k + 1
        <4>1. d[n] = Replay(c[k], log[k + 1], floor) /\ d[n - 1] = c[k]
          BY <2>0, <3>1
        <4> QED
          BY <3>1, <4>1
      <3>2. CASE n # k + 1
        <4>1. n \in 1..k /\ d[n] = c[n] /\ d[n - 1] = c[n - 1]
          BY <2>0, <3>2
        <4> QED
          BY <2>3, <4>1
      <3> QED
        BY <3>1, <3>2
    <2> HIDE DEF d
    <2> QED
      BY <2>6, <2>7, <2>8
  <1>3. S \in SUBSET Nat
    OBVIOUS
  <1>4. Len(log) \in S => Part(Len(log))
    OBVIOUS
  <1> HIDE DEF S
  <1>5. S = Nat
    BY <1>1, <1>2, <1>3, InductionOnSet
  <1>6. Part(Len(log))
    BY <1>4, <1>5
  <1> QED
    BY <1>6 DEF Runs

-----------------------------------------------------------------------------
(* Two runs of one log. *)

(* Once they agree at an id they agree there to the end; they come to      *)
(* agree where an operation decides the row, or sets the payload of rows   *)
(* with one vector.                                                        *)
LEMMA RunsConverge ==
    ASSUME NEW log \in Seq(LogRecord), NEW floor,
           NEW c \in [0..Len(log) -> Rows], Runs(c, log, floor),
           NEW d \in [0..Len(log) -> Rows], Runs(d, log, floor),
           NEW id \in Id, NEW n \in 0..Len(log),
           \/ n = 0 /\ c[0][id] = d[0][id]
           \/ n # 0 /\ ~Skips(log[n], floor) /\ Decides(log[n].op, id)
           \/ n # 0 /\ ~Skips(log[n], floor) /\ SetsPayload(log[n].op, id) /\ Like(c[0][id], d[0][id])
    PROVE  c[Len(log)][id] = d[Len(log)][id]
  <1> DEFINE Part(k) == /\ n <= k => c[k][id] = d[k][id]
                        /\ Like(c[0][id], d[0][id]) => Like(c[k][id], d[k][id])
             S == {k \in Nat : k <= Len(log) => Part(k)}
  <1>0. Len(log) \in Nat /\ n \in Nat /\ n <= Len(log)
    OBVIOUS
  <1>1. 0 \in S
    BY <1>0
  <1>2. ASSUME NEW k \in S PROVE k + 1 \in S
    <2>0. k \in Nat /\ k + 1 \in Nat /\ (k <= Len(log) => Part(k))
      OBVIOUS
    <2>1. SUFFICES ASSUME k + 1 <= Len(log) PROVE Part(k + 1)
      BY <2>0
    <2>2. /\ k \in 0..Len(log) /\ k + 1 \in 1..Len(log)
          /\ c[k] \in Rows /\ d[k] \in Rows /\ log[k + 1] \in LogRecord
          /\ Part(k)
      BY <2>0, <2>1, <1>0
    <2>3. log[k + 1].op \in Op
      BY <2>2 DEF LogRecord
    <2>4. /\ c[k + 1] = Replay(c[k], log[k + 1], floor)
          /\ d[k + 1] = Replay(d[k], log[k + 1], floor)
      BY <2>0, <2>2 DEF Runs
    <2>5. CASE Skips(log[k + 1], floor)
      <3>1. c[k + 1] = c[k] /\ d[k + 1] = d[k]
        BY <2>4, <2>5 DEF Replay
      <3>2. n <= k + 1 => n <= k
        BY <2>0, <2>2, <2>5, <1>0
      <3> QED
        BY <2>2, <3>1, <3>2
    <2>6. CASE ~Skips(log[k + 1], floor)
      <3>1. c[k + 1] = Effect(c[k], log[k + 1].op) /\ d[k + 1] = Effect(d[k], log[k + 1].op)
        BY <2>4, <2>6 DEF Replay
      <3>2. /\ c[k][id] = d[k][id] => c[k + 1][id] = d[k + 1][id]
            /\ Decides(log[k + 1].op, id) => c[k + 1][id] = d[k + 1][id]
            /\ Like(c[k][id], d[k][id]) => Like(c[k + 1][id], d[k + 1][id])
            /\ Like(c[k][id], d[k][id]) /\ SetsPayload(log[k + 1].op, id)
                 => c[k + 1][id] = d[k + 1][id]
        BY <2>2, <2>3, <3>1, EffectAt
      <3>3. n <= k + 1 => n <= k \/ n = k + 1
        BY <2>0, <1>0
      <3>4. CASE n = k + 1
        BY <2>0, <2>2, <3>2, <3>4
      <3> QED
        BY <2>2, <3>2, <3>3, <3>4
    <2> QED
      BY <2>5, <2>6
  <1>3. S \in SUBSET Nat /\ (Len(log) \in S => Part(Len(log)))
    OBVIOUS
  <1> HIDE DEF S
  <1>4. S = Nat
    BY <1>1, <1>2, <1>3, InductionOnSet
  <1> QED
    BY <1>0, <1>3, <1>4

(* Replaying operations that the segments contain in part or in full.      *)
LEMMA Restart ==
    ASSUME NEW s \in Rows, NEW r \in Rows, NEW log \in Seq(LogRecord), NEW floor, NEW t,
           RecoversTo(s, log, floor, t),
           \A id \in Id : \/ s[id] = r[id]
                          \/ Settled(log, floor, id)
                          \/ Like(s[id], r[id]) /\ Repayloaded(log, floor, id)
    PROVE  RecoversTo(r, log, floor, t)
  <1>1. PICK c \in [0..Len(log) -> Rows] : c[0] = s /\ Runs(c, log, floor) /\ c[Len(log)] = t
    BY DEF RecoversTo
  <1>2. PICK d \in [0..Len(log) -> Rows] : d[0] = r /\ Runs(d, log, floor)
    BY RunExists
  <1>3. Len(log) \in Nat /\ DOMAIN log = 1..Len(log)
    OBVIOUS
  <1>4. ASSUME NEW id \in Id PROVE c[Len(log)][id] = d[Len(log)][id]
    <2>1. CASE s[id] = r[id]
      <3>1. 0 \in 0..Len(log) /\ c[0][id] = d[0][id]
        BY <1>1, <1>2, <1>3, <2>1
      <3> QED
        BY <1>1, <1>2, <3>1, RunsConverge
    <2>2. CASE Settled(log, floor, id)
      <3>1. PICK n \in DOMAIN log : ~Skips(log[n], floor) /\ Decides(log[n].op, id)
        BY <2>2 DEF Settled
      <3>2. n \in 0..Len(log) /\ n # 0
        BY <1>3
      <3> QED
        BY <1>1, <1>2, <3>1, <3>2, RunsConverge
    <2>3. CASE Like(s[id], r[id]) /\ Repayloaded(log, floor, id)
      <3>1. PICK n \in DOMAIN log : ~Skips(log[n], floor) /\ SetsPayload(log[n].op, id)
        BY <2>3 DEF Repayloaded
      <3>2. n \in 0..Len(log) /\ n # 0 /\ Like(c[0][id], d[0][id])
        BY <1>1, <1>2, <1>3, <2>3
      <3> QED
        BY <1>1, <1>2, <3>1, <3>2, RunsConverge
    <2> QED
      BY <2>1, <2>2, <2>3
  <1>5. c[Len(log)] \in Rows /\ d[Len(log)] \in Rows
    BY <1>3
  <1>6. c[Len(log)] = d[Len(log)]
    BY <1>4, <1>5 DEF Rows
  <1> QED
    BY <1>1, <1>2, <1>6 DEF RecoversTo

LEMMA RecoversFromNothing ==
    ASSUME NEW s \in Rows, NEW floor, NEW t
    PROVE  RecoversTo(s, <<>>, floor, t) <=> s = t
  <1>1. Len(<<>>) = 0 /\ 0..0 = {0}
    OBVIOUS
  <1>2. ASSUME RecoversTo(s, <<>>, floor, t) PROVE s = t
    BY <1>1, <1>2 DEF RecoversTo
  <1>3. ASSUME s = t PROVE RecoversTo(s, <<>>, floor, t)
    <2>1. [n \in 0..0 |-> s] \in [0..0 -> Rows]
      OBVIOUS
    <2>2. \E c \in [0..0 -> Rows] : c[0] = s /\ Runs(c, <<>>, floor) /\ c[0] = t
      <3> WITNESS [n \in 0..0 |-> s] \in [0..0 -> Rows]
      <3> QED
        BY <1>1, <1>3 DEF Runs
    <2> QED
      BY <1>1, <2>2 DEF RecoversTo
  <1> QED
    BY <1>2, <1>3

LEMMA RecoversWithAppended ==
    ASSUME NEW s \in Rows, NEW log \in Seq(LogRecord), NEW floor, NEW t \in Rows,
           NEW record \in LogRecord, RecoversTo(s, log, floor, t)
    PROVE  RecoversTo(s, Append(log, record), floor, Replay(t, record, floor))
  <1> DEFINE n == Len(log)
             g == Append(log, record)
  <1>1. PICK c \in [0..n -> Rows] : c[0] = s /\ Runs(c, log, floor) /\ c[n] = t
    BY DEF RecoversTo
  <1>2. /\ n \in Nat /\ Len(g) = n + 1 /\ g[n + 1] = record
        /\ \A i \in 1..n : g[i] = log[i]
    OBVIOUS
  <1> HIDE DEF n, g
  <1> DEFINE d == [i \in 0..(n + 1) |-> IF i <= n THEN c[i] ELSE Replay(t, record, floor)]
  <1>3. d \in [0..(n + 1) -> Rows]
    BY <1>1, <1>2, ReplayType
  <1>4. d[0] = s /\ d[n + 1] = Replay(t, record, floor) /\ d[n] = t
    BY <1>1, <1>2
  <1>5. ASSUME NEW i \in 1..(n + 1) PROVE d[i] = Replay(d[i - 1], g[i], floor)
    <2>1. CASE i = n + 1
      BY <1>2, <1>4, <2>1
    <2>2. CASE i # n + 1
      <3>1. i \in 1..n /\ d[i] = c[i] /\ d[i - 1] = c[i - 1] /\ g[i] = log[i]
        BY <1>2, <2>2
      <3> QED
        BY <1>1, <3>1 DEF Runs, n
    <2> QED
      BY <2>1, <2>2
  <1> HIDE DEF d
  <1>6. Runs(d, g, floor)
    BY <1>2, <1>5 DEF Runs
  <1>7. RecoversTo(s, g, floor, Replay(t, record, floor))
    BY <1>2, <1>3, <1>4, <1>6 DEF RecoversTo
  <1> QED
    BY <1>7 DEF g

(* The first record done, the rest is left. *)
LEMMA RecoversWithTail ==
    ASSUME NEW s \in Rows, NEW log \in Seq(LogRecord), log # <<>>, NEW floor, NEW t,
           RecoversTo(s, log, floor, t)
    PROVE  RecoversTo(Replay(s, Head(log), floor), Tail(log), floor, t)
  <1> DEFINE n == Len(log)
             g == Tail(log)
  <1>1. PICK c \in [0..n -> Rows] : c[0] = s /\ Runs(c, log, floor) /\ c[n] = t
    BY DEF RecoversTo
  <1>2. /\ n \in Nat /\ n # 0 /\ Len(g) = n - 1 /\ n - 1 \in Nat /\ Head(log) = log[1]
        /\ \A i \in 1..(n - 1) : g[i] = log[i + 1]
    OBVIOUS
  <1>3. \A i \in 1..n : c[i] = Replay(c[i - 1], log[i], floor)
    BY <1>1 DEF Runs
  <1> HIDE DEF n, g
  <1> DEFINE d == [i \in 0..(n - 1) |-> c[i + 1]]
  <1>4. d \in [0..(n - 1) -> Rows]
    BY <1>1, <1>2
  <1>5. d[n - 1] = t
    BY <1>1, <1>2
  <1>6. d[0] = Replay(s, Head(log), floor)
    <2>1. d[0] = c[1] /\ 1 \in 1..n
      BY <1>2
    <2> QED
      BY <1>1, <1>2, <1>3, <2>1
  <1>7. ASSUME NEW i \in 1..(n - 1) PROVE d[i] = Replay(d[i - 1], g[i], floor)
    <2>1. /\ d[i] = c[i + 1] /\ d[i - 1] = c[i] /\ g[i] = log[i + 1]
          /\ i + 1 \in 1..n /\ (i + 1) - 1 = i
      BY <1>2
    <2> QED
      BY <1>3, <2>1
  <1> HIDE DEF d
  <1>8. Runs(d, g, floor)
    BY <1>2, <1>7 DEF Runs
  <1>9. RecoversTo(Replay(s, Head(log), floor), g, floor, t)
    BY <1>2, <1>4, <1>5, <1>6, <1>8 DEF RecoversTo
  <1> QED
    BY <1>9 DEF g

LEMMA RecoversFromSegments ==
    ASSUME NEW s \in Rows, NEW log \in Seq(LogRecord), NEW floor,
           \A n \in DOMAIN log : Skips(log[n], floor)
    PROVE  RecoversTo(s, log, floor, s)
  <1> DEFINE c == [n \in 0..Len(log) |-> s]
  <1>1. Len(log) \in Nat /\ DOMAIN log = 1..Len(log)
    OBVIOUS
  <1>2. c \in [0..Len(log) -> Rows] /\ c[0] = s /\ c[Len(log)] = s
    BY <1>1
  <1>3. Runs(c, log, floor)
    BY <1>1 DEF Runs, Replay
  <1> HIDE DEF c
  <1> QED
    BY <1>2, <1>3 DEF RecoversTo

-----------------------------------------------------------------------------
(* Operations on a view. *)

LEMMA ApplyOpEffect ==
    ASSUME NEW v \in View, WellFormed(v), NEW o \in Op
    PROVE  /\ ApplyOp(v, o) \in View
           /\ WellFormed(ApplyOp(v, o))
           /\ LiveStore(ApplyOp(v, o)) = Effect(LiveStore(v), o)
           /\ DOMAIN ApplyOp(v, o).immutables = DOMAIN v.immutables
           /\ o.kind # "upsert" => RowIds(ApplyOp(v, o).mutable) = RowIds(v.mutable)
  <1>1. CASE o.kind = "create"
    BY <1>1 DEF ApplyOp, Effect
  <1>2. CASE o.kind = "upsert" /\ o.batch \in Batch
    <2>1. ApplyOp(v, o) = ApplyUpsert(v, o.batch) /\ Effect(LiveStore(v), o) = AfterUpsert(LiveStore(v), o.batch)
      BY <1>2 DEF ApplyOp, Effect
    <2>2. DOMAIN ApplyUpsert(v, o.batch).immutables = DOMAIN v.immutables
      BY DEF ApplyUpsert
    <2> QED
      BY <1>2, <2>1, <2>2, ApplyUpsertType, UpsertEffect
  <1>3. CASE o.kind = "delete" /\ o.ids \in SUBSET Id
    <2>1. ApplyOp(v, o) = ApplyDelete(v, o.ids) /\ Effect(LiveStore(v), o) = AfterDelete(LiveStore(v), o.ids)
      BY <1>3 DEF ApplyOp, Effect
    <2>2. DOMAIN ApplyDelete(v, o.ids).immutables = DOMAIN v.immutables
      BY DEF ApplyDelete
    <2>3. RowIds(MutableDelete(v.mutable, o.ids)) = RowIds(v.mutable)
      BY DEF RowIds, MutableDelete, View, Mutable
    <2>4. ApplyDelete(v, o.ids).mutable = MutableDelete(v.mutable, o.ids)
      BY DEF ApplyDelete
    <2> QED
      BY <1>3, <2>1, <2>2, <2>3, <2>4, ApplyDeleteType, DeleteEffect
  <1>4. CASE o.kind = "payload" /\ o.ids \in SUBSET Id /\ o.payload \in OptPayload
    <2>1. /\ ApplyOp(v, o) = ApplyPayload(v, o.ids, o.payload)
          /\ Effect(LiveStore(v), o) = AfterSetPayload(LiveStore(v), o.ids, o.payload)
      BY <1>4 DEF ApplyOp, Effect
    <2>2. DOMAIN ApplyPayload(v, o.ids, o.payload).immutables = DOMAIN v.immutables
      BY DEF ApplyPayload
    <2>3. v.mutable \in Mutable
      BY DEF View
    <2>4. ASSUME NEW id \in Id
          PROVE  MutableSetPayload(v.mutable, o.ids, o.payload).rows[id] # NoRow
                   <=> v.mutable.rows[id] # NoRow
      <3>1. MutableSetPayload(v.mutable, o.ids, o.payload).rows[id]
              = IF id \in o.ids /\ Alive(v.mutable, id)
                  THEN [v.mutable.rows[id] EXCEPT !.payload = o.payload] ELSE v.mutable.rows[id]
        BY <2>3 DEF MutableSetPayload, Mutable
      <3>2. ASSUME v.mutable.rows[id] # NoRow
            PROVE  [v.mutable.rows[id] EXCEPT !.payload = o.payload] # NoRow
        <4>1. v.mutable.rows[id] \in Row
          BY <2>3, <3>2 DEF Mutable, Rows, OptRow
        <4>2. [v.mutable.rows[id] EXCEPT !.payload = o.payload] \in Row
          BY <1>4, <4>1 DEF Row
        <4> QED
          BY <4>2, NoRowAssumption
      <3> QED
        BY <3>1, <3>2 DEF Alive
    <2>5. RowIds(MutableSetPayload(v.mutable, o.ids, o.payload)) = RowIds(v.mutable)
      BY <2>4 DEF RowIds
    <2>6. ApplyPayload(v, o.ids, o.payload).mutable = MutableSetPayload(v.mutable, o.ids, o.payload)
      BY DEF ApplyPayload
    <2> QED
      BY <1>4, <2>1, <2>2, <2>5, <2>6, ApplyPayloadType, PayloadEffect
  <1> QED
    BY <1>1, <1>2, <1>3, <1>4, OpCases

(* One point of an upsert. *)
PointOfBatch(batch, id) == [x \in Id |-> IF x = id THEN batch[x] ELSE NoRow]

LEMMA UpsertOneEffect ==
    ASSUME NEW v \in View, WellFormed(v), NEW batch \in Batch, NEW id \in BatchIds(batch)
    PROVE  LET w == ApplyUpsert(v, PointOfBatch(batch, id))
           IN  /\ w \in View
               /\ WellFormed(w)
               /\ DOMAIN w.immutables = DOMAIN v.immutables
               /\ RowIds(w.mutable) = RowIds(v.mutable) \cup {id}
               /\ \A x \in Id : LiveStore(w)[x] = IF x = id THEN batch[id] ELSE LiveStore(v)[x]
               /\ AfterUpsert(LiveStore(w), batch) = AfterUpsert(LiveStore(v), batch)
  <1> DEFINE one == PointOfBatch(batch, id)
             w == ApplyUpsert(v, one)
  <1>1. /\ id \in Id /\ batch[id] # NoRow /\ one \in Batch
        /\ \A x \in Id : one[x] = IF x = id THEN batch[x] ELSE NoRow
    BY DEF PointOfBatch, Batch, BatchIds, Rows, OptRow
  <1> HIDE DEF one
  <1>2. w \in View /\ WellFormed(w) /\ LiveStore(w) = AfterUpsert(LiveStore(v), one)
    BY <1>1, ApplyUpsertType, UpsertEffect
  <1>3. DOMAIN w.immutables = DOMAIN v.immutables /\ w.mutable = MutableUpsert(v.mutable, one)
    BY DEF ApplyUpsert
  <1>4. RowIds(w.mutable) = RowIds(v.mutable) \cup {id}
    BY <1>1, <1>3 DEF RowIds, MutableUpsert
  <1>5. \A x \in Id : LiveStore(w)[x] = IF x = id THEN batch[id] ELSE LiveStore(v)[x]
    BY <1>1, <1>2 DEF AfterUpsert
  <1>6. AfterUpsert(LiveStore(w), batch) = AfterUpsert(LiveStore(v), batch)
    BY <1>1, <1>5 DEF AfterUpsert
  <1> QED
    BY <1>2, <1>3, <1>4, <1>5, <1>6 DEF one

(* The edit of one segment by a delete or a payload update. *)
LEMMA EditEffect ==
    ASSUME NEW v \in View, WellFormed(v), NEW o \in Op, o.kind \in {"delete", "payload"},
           NEW i \in DOMAIN v.immutables
    PROVE  LET w == [v EXCEPT !.immutables[i] = ApplyOp(v, o).immutables[i]]
           IN  /\ w \in View
               /\ WellFormed(w)
               /\ w.mutable = v.mutable
               /\ DOMAIN w.immutables = DOMAIN v.immutables
               /\ \A id \in Id : \/ LiveStore(w)[id] = LiveStore(v)[id]
                                 \/ Decides(o, id)
                                 \/ SetsPayload(o, id) /\ Like(LiveStore(v)[id], LiveStore(w)[id])
               /\ Effect(LiveStore(w), o) = Effect(LiveStore(v), o)
  <1> DEFINE was == v.immutables[i]
             seg == ApplyOp(v, o).immutables[i]
             w == [v EXCEPT !.immutables[i] = seg]
             elsewhere == {id \in o.ids : ~Alive(v.mutable, id)}
             oldest == {id \in elsewhere : i \in Holders(v, id) /\ i = Min(Holders(v, id))}
  <1>1. was \in Segment
    BY DEF View
  <1>2. o.ids \in SUBSET Id /\ oldest \in SUBSET Id /\ oldest \subseteq o.ids
    BY OpCases
  <1>3. /\ seg \in Segment
        /\ \A id \in Id : Alive(seg, id) => Alive(was, id)
        /\ \A id \in Id : Alive(was, id) =>
             \/ Alive(seg, id) /\ PointOf(seg, id) = PointOf(was, id)
             \/ Decides(o, id)
             \/ SetsPayload(o, id) /\ Alive(seg, id) /\ Like(PointOf(was, id), PointOf(seg, id))
    <2>1. CASE o.kind = "delete"
      <3>1. seg = TombstoneMany(was, oldest)
        BY <2>1 DEF ApplyOp, ApplyDelete
      <3> HIDE DEF seg, oldest, was
      <3>2. seg \in Segment
        BY <1>1, <1>2, <3>1, TombstoneManyType
      <3>3. \A id \in Id : /\ Alive(seg, id) <=> Alive(was, id) /\ id \notin oldest
                           /\ PointOf(seg, id) = PointOf(was, id)
        BY <1>1, <1>2, <3>1, TombstoneEffect
      <3>4. \A id \in oldest : Decides(o, id)
        BY <1>2, <2>1 DEF Decides
      <3> QED
        BY <3>2, <3>3, <3>4
    <2>2. CASE o.kind = "payload"
      <3>0. o.payload \in OptPayload
        BY <2>2, OpCases
      <3>1. seg = SetOverlayBatch(was, oldest, o.payload)
        BY <2>2 DEF ApplyOp, ApplyPayload
      <3> HIDE DEF seg, oldest, was
      <3>2. seg \in Segment
        BY <1>1, <1>2, <3>0, <3>1, SetOverlayBatchType
      <3>3. \A id \in Id :
              /\ Alive(seg, id) <=> Alive(was, id)
              /\ Alive(was, id) /\ id \in oldest =>
                   PointOf(seg, id) = [PointOf(was, id) EXCEPT !.payload = o.payload]
              /\ id \notin oldest => PointOf(seg, id) = PointOf(was, id)
        BY <1>1, <1>2, <3>0, <3>1, OverlayEffect
      <3>4. ASSUME NEW id \in oldest, Alive(was, id)
            PROVE  SetsPayload(o, id) /\ Like(PointOf(was, id), PointOf(seg, id))
        <4>1. id \in Id /\ SetsPayload(o, id)
          BY <1>2, <2>2 DEF SetsPayload
        <4>2. PointOf(was, id) \in Row
          BY <1>1, <3>4, <4>1, PointOfType DEF Alive
        <4>3. PointOf(seg, id) = [vector |-> PointOf(was, id).vector, payload |-> o.payload]
          BY <3>3, <3>4, <4>1, <4>2 DEF Row
        <4>4. PointOf(seg, id) \in Row
          BY <3>0, <4>2, <4>3 DEF Row
        <4> QED
          BY <4>1, <4>2, <4>3, <4>4, NoRowAssumption DEF Like
      <3> QED
        BY <3>2, <3>3, <3>4
    <2> QED
      BY <2>1, <2>2
  <1> HIDE DEF seg, oldest
  <1>4. /\ w \in View /\ WellFormed(w) /\ w.mutable = v.mutable
        /\ DOMAIN w.immutables = DOMAIN v.immutables
        /\ \A id \in Id : LiveStore(w)[id] =
             IF i \in Holders(v, id) THEN IF Alive(seg, id) THEN PointOf(seg, id) ELSE NoRow
             ELSE LiveStore(v)[id]
    BY <1>3, EditedSegment
  <1> HIDE DEF w
  <1>5. ASSUME NEW id \in Id
        PROVE  \/ LiveStore(w)[id] = LiveStore(v)[id]
               \/ Decides(o, id)
               \/ SetsPayload(o, id) /\ Like(LiveStore(v)[id], LiveStore(w)[id])
    <2>1. CASE i \notin Holders(v, id)
      BY <1>4, <2>1
    <2>2. CASE i \in Holders(v, id)
      <3>1. Alive(was, id)
        BY <2>2 DEF Holders
      <3>2. LiveStore(v)[id] = PointOf(was, id)
        BY <2>2, OnlyHolder DEF LiveStore
      <3> HIDE DEF was
      <3> QED
        BY <1>3, <1>4, <2>2, <3>1, <3>2
    <2> QED
      BY <2>1, <2>2
  <1>6. LiveStore(v) \in Rows /\ LiveStore(w) \in Rows
    BY <1>4, LookupType
  <1>7. ASSUME NEW id \in Id PROVE Effect(LiveStore(w), o)[id] = Effect(LiveStore(v), o)[id]
    <2>1. /\ LiveStore(v)[id] = LiveStore(w)[id] => Effect(LiveStore(v), o)[id] = Effect(LiveStore(w), o)[id]
          /\ Decides(o, id) => Effect(LiveStore(v), o)[id] = Effect(LiveStore(w), o)[id]
          /\ Like(LiveStore(v)[id], LiveStore(w)[id]) /\ SetsPayload(o, id)
               => Effect(LiveStore(v), o)[id] = Effect(LiveStore(w), o)[id]
      BY <1>6, EffectAt
    <2> QED
      BY <1>5, <2>1
  <1>8. Effect(LiveStore(w), o) = Effect(LiveStore(v), o)
    <2>1. Effect(LiveStore(w), o) \in Rows /\ Effect(LiveStore(v), o) \in Rows
      BY <1>6, EffectType
    <2> QED
      BY <1>7, <2>1 DEF Rows
  <1> QED
    BY <1>4, <1>5, <1>8 DEF w, seg

-----------------------------------------------------------------------------
(* The disk, and what it would recover. *)

Logged == Intact(walFile)
Disk == OnDisk(manifest.segments)

(* replay_wal has one result, and its lookups are those of the run of the  *)
(* log.                                                                    *)
LEMMA RecoveredIs ==
    ASSUME Disk \in View, WellFormed(Disk), Logged \in Seq(LogRecord), NEW t,
           RecoversTo(LiveStore(Disk), Logged, manifest.floor, t)
    PROVE  Recovered = t
  <1> DEFINE log == Logged
             floor == manifest.floor
             Next1(w, n) == IF n = 0 THEN Disk
                            ELSE IF Skips(log[n], floor) THEN w[n - 1]
                            ELSE ApplyOp(w[n - 1], log[n].op)
             after == CHOOSE w : w = [n \in 0..Len(log) |-> Next1(w, n)]
             Part(k) == \E w \in [0..k -> View] : \A n \in 0..k : w[n] = Next1(w, n)
             S == {k \in Nat : k <= Len(log) => Part(k)}
  <1>0. Len(log) \in Nat /\ DOMAIN log = 1..Len(log)
    OBVIOUS
  <1>1. 0 \in S
    <2>1. [n \in 0..0 |-> Disk] \in [0..0 -> View]
      OBVIOUS
    <2>2. Part(0)
      <3> WITNESS [n \in 0..0 |-> Disk] \in [0..0 -> View]
      <3> QED
        OBVIOUS
    <2> QED
      BY <2>2
  <1>2. ASSUME NEW k \in S PROVE k + 1 \in S
    <2>0. k \in Nat /\ k + 1 \in Nat /\ (k <= Len(log) => Part(k))
      OBVIOUS
    <2>1. SUFFICES ASSUME k + 1 <= Len(log) PROVE Part(k + 1)
      BY <2>0
    <2>2. k <= Len(log) /\ k + 1 \in 1..Len(log)
      BY <1>0, <2>0, <2>1
    <2>3. PICK w \in [0..k -> View] : \A n \in 0..k : w[n] = Next1(w, n)
      BY <2>0, <2>2
    <2> DEFINE step == IF Skips(log[k + 1], floor) THEN w[k] ELSE ApplyOp(w[k], log[k + 1].op)
               z == [n \in 0..(k + 1) |-> IF n <= k THEN w[n] ELSE step]
    <2>4. step \in View
      <3>1. w[k] \in View /\ log[k + 1] \in LogRecord
        BY <2>0, <2>2
      <3>2. log[k + 1].op \in Op
        BY <3>1 DEF LogRecord
      <3>3. \A v \in View, o \in Op : ApplyOp(v, o) \in View
        <4>1. ASSUME NEW v \in View, NEW o \in Op PROVE ApplyOp(v, o) \in View
          BY OpCases, ApplyUpsertType, ApplyDeleteType, ApplyPayloadType DEF ApplyOp
        <4> QED
          BY <4>1
      <3> QED
        BY <3>1, <3>2, <3>3
    <2>5. z \in [0..(k + 1) -> View]
      BY <2>0, <2>4
    <2>6. ASSUME NEW n \in 0..(k + 1) PROVE z[n] = Next1(z, n)
      <3>1. CASE n = k + 1
        <4>1. z[n] = step /\ z[n - 1] = w[k] /\ n # 0
          BY <2>0, <3>1
        <4> HIDE DEF z
        <4> QED
          BY <3>1, <4>1
      <3>2. CASE n # k + 1
        <4>1. n \in 0..k /\ z[n] = w[n] /\ (n # 0 => z[n - 1] = w[n - 1])
          BY <2>0, <3>2
        <4> HIDE DEF z
        <4> QED
          BY <2>3, <4>1
      <3> QED
        BY <3>1, <3>2
    <2> HIDE DEF z
    <2> QED
      BY <2>5, <2>6
  <1>3. S \in SUBSET Nat /\ (Len(log) \in S => Part(Len(log)))
    OBVIOUS
  <1>4. Part(Len(log))
    <2> HIDE DEF S
    <2>1. S = Nat
      BY <1>1, <1>2, <1>3, InductionOnSet
    <2> QED
      BY <1>0, <1>3, <2>1
  <1>5. \E w : w = [n \in 0..Len(log) |-> Next1(w, n)]
    <2>1. PICK w \in [0..Len(log) -> View] : \A n \in 0..Len(log) : w[n] = Next1(w, n)
      BY <1>4
    <2>2. w = [n \in 0..Len(log) |-> Next1(w, n)]
      BY <2>1
    <2> QED
      BY <2>2
  <1>6. after = [n \in 0..Len(log) |-> Next1(after, n)]
    BY <1>5
  <1>7. Recovered = LiveStore(after[Len(log)])
    BY DEF Recovered, Logged, Disk
  <1>8. \A n \in 0..Len(log) : after[n] = Next1(after, n)
    <2> HIDE DEF after
    <2> QED
      BY <1>6
  <1> HIDE DEF after, S
  <1>9. PICK c \in [0..Len(log) -> Rows] :
          c[0] = LiveStore(Disk) /\ Runs(c, log, floor) /\ c[Len(log)] = t
    BY DEF RecoversTo
  <1> DEFINE Q(k) == after[k] \in View /\ WellFormed(after[k]) /\ LiveStore(after[k]) = c[k]
             T == {k \in Nat : k <= Len(log) => Q(k)}
  <1>10. 0 \in T
    <2>1. after[0] = Disk
      BY <1>0, <1>8
    <2> QED
      BY <1>9, <2>1
  <1>11. ASSUME NEW k \in T PROVE k + 1 \in T
    <2>0. k \in Nat /\ k + 1 \in Nat /\ (k <= Len(log) => Q(k))
      OBVIOUS
    <2>1. SUFFICES ASSUME k + 1 <= Len(log) PROVE Q(k + 1)
      BY <2>0
    <2>2. k + 1 \in 1..Len(log) /\ k + 1 \in 0..Len(log) /\ k + 1 # 0 /\ (k + 1) - 1 = k /\ Q(k)
      BY <1>0, <2>0, <2>1
    <2>3. log[k + 1] \in LogRecord
      BY <2>2
    <2>4. log[k + 1].op \in Op
      BY <2>3 DEF LogRecord
    <2>5. after[k + 1] = IF Skips(log[k + 1], floor) THEN after[k]
                         ELSE ApplyOp(after[k], log[k + 1].op)
      BY <1>8, <2>2
    <2>6. c[k + 1] = IF Skips(log[k + 1], floor) THEN c[k] ELSE Effect(c[k], log[k + 1].op)
      BY <1>9, <2>2 DEF Runs, Replay
    <2> QED
      BY <2>2, <2>4, <2>5, <2>6, ApplyOpEffect
  <1>12. T \in SUBSET Nat /\ (Len(log) \in T => Q(Len(log)))
    BY <1>0
  <1> HIDE DEF T
  <1>13. T = Nat
    BY <1>10, <1>11, <1>12, InductionOnSet
  <1>14. Q(Len(log))
    BY <1>0, <1>12, <1>13
  <1> QED
    BY <1>7, <1>9, <1>14

(* The segments of ids in the directories ds. *)
SegmentsIn(ds, ids) == [mutable    |-> EmptyMutable,
                        immutables |-> [i \in DOMAIN ids |-> ds[ids[i]]]]

LEMMA DiskIs ==
    /\ Disk = SegmentsIn(dirs, manifest.segments)
    /\ Disk' = SegmentsIn(dirs', manifest'.segments)
  BY DEF Disk, OnDisk, SegmentsIn

LEMMA SegmentsInType ==
    ASSUME NEW ids \in Seq(Nat), NEW ds, \A d \in ToSet(ids) : ds[d] \in Segment
    PROVE  SegmentsIn(ds, ids) \in View
  <1>1. \A i \in DOMAIN ids : ds[ids[i]] \in Segment
    BY DEF ToSet
  <1>2. DOMAIN ids = 1..Len(ids) /\ Len(ids) \in Nat
    OBVIOUS
  <1>3. [i \in DOMAIN ids |-> ds[ids[i]]] \in Seq(Segment)
    BY <1>1, <1>2
  <1> QED
    BY <1>3, EmptyMutableType DEF SegmentsIn, View

LEMMA SegmentsInSame ==
    ASSUME NEW ids \in Seq(Nat), NEW ds, NEW es, \A d \in ToSet(ids) : ds[d] = es[d]
    PROVE  SegmentsIn(ds, ids) = SegmentsIn(es, ids)
  <1>1. \A i \in DOMAIN ids : ds[ids[i]] = es[ids[i]]
    BY DEF ToSet
  <1> QED
    BY <1>1 DEF SegmentsIn

LEMMA SegmentsInMirrored ==
    ASSUME NEW ids \in Seq(Nat), NEW ds, NEW v \in View, Len(ids) = Len(v.immutables),
           \A i \in DOMAIN ids : ds[ids[i]] = v.immutables[i]
    PROVE  SegmentsIn(ds, ids) = Sealed(v)
  <1>1. v.immutables \in Seq(Segment) /\ DOMAIN v.immutables = DOMAIN ids
    BY DEF View
  <1>2. v.immutables = [i \in DOMAIN ids |-> v.immutables[i]]
    BY <1>1
  <1>3. [i \in DOMAIN ids |-> ds[ids[i]]] = v.immutables
    BY <1>2
  <1> QED
    BY <1>3 DEF SegmentsIn, Sealed

LEMMA SidecarsWritten ==
    ASSUME segIds \in Seq(Nat), Distinct(segIds), ToSet(segIds) \subseteq DOMAIN dirs,
           NEW v, WriteSidecars(v)
    PROVE  /\ DOMAIN dirs' = DOMAIN dirs
           /\ \A i \in DOMAIN segIds : dirs'[segIds[i]] = v.immutables[i]
           /\ \A d \in DOMAIN dirs \ ToSet(segIds) : dirs'[d] = dirs[d]
           /\ \A d \in ToSet(segIds) : \E i \in DOMAIN segIds : dirs'[d] = v.immutables[i]
  <1>1. /\ DOMAIN dirs' = DOMAIN dirs
        /\ \A d \in DOMAIN dirs \ ToSet(segIds) : dirs'[d] = dirs[d]
        /\ \A d \in ToSet(segIds) : dirs'[d] = v.immutables[PositionIn(segIds, d)]
    BY DEF WriteSidecars, PositionIn
  <1>2. ASSUME NEW i \in DOMAIN segIds PROVE dirs'[segIds[i]] = v.immutables[i]
    <2>1. segIds[i] \in ToSet(segIds)
      BY DEF ToSet
    <2>2. PositionIn(segIds, segIds[i]) = i
      BY <2>1, PositionOf DEF Distinct
    <2> QED
      BY <1>1, <2>1, <2>2
  <1>3. \A d \in ToSet(segIds) : \E i \in DOMAIN segIds : d = segIds[i]
    BY DEF ToSet
  <1> QED
    BY <1>1, <1>2, <1>3

-----------------------------------------------------------------------------
(* The inductive invariant. *)

Types ==
    /\ TypeOK
    /\ Logged \in Seq(LogRecord)
    /\ records \in Seq(LogRecord)
    /\ promised \in Rows
    /\ reused \in BOOLEAN

(* What is in progress at each step. *)
Phases ==
    /\ pc = "apply" => op \in ClientOp
    /\ pc = "apply" /\ op.kind = "upsert" => todo \subseteq BatchIds(op.batch)
    /\ pc \in {"ready", "flush_publish", "flush_reset", "flush_swap", "compact_publish"}
         => records = <<>>
    /\ fresh # NoSeg =>
         pc \in {"flush_publish", "flush_reset", "flush_swap", "compact_publish", "rebuild_publish"}
    /\ old # {} => pc \in {"rebuild_publish", "compact_publish", "clean"}

(* The segment directories are those of the segments in memory, of the     *)
(* segment that is being written and of those that are being removed.      *)
Mirror ==
    /\ ToSet(manifest.segments) \subseteq DOMAIN dirs
    /\ Distinct(manifest.segments)
    /\ pc # "failed"
    /\ pc # "down" =>
         /\ Distinct(segIds)
         /\ ToSet(segIds) \subseteq DOMAIN dirs
         /\ \A i \in DOMAIN segIds : dirs[segIds[i]] = view.immutables[i]
         /\ \A d \in ToSet(segIds) : d < nextSegId
         /\ 0 < nextSegId
         /\ old \cap ToSet(segIds) = {}
    /\ pc \notin {"down", "gc"} =>
         /\ DOMAIN dirs = ToSet(segIds) \cup old \cup ({fresh} \ {NoSeg})
         /\ \A d \in DOMAIN dirs : d < nextSegId

(* How far the manifest is behind, at each step. *)
Published ==
    /\ pc \in {"gc", "replay", "ready", "apply", "flush_publish", "rebuild", "clean"}
         => manifest.segments = segIds
    /\ pc \in {"flush_publish", "flush_reset", "flush_swap"} =>
         /\ fresh # NoSeg
         /\ fresh \notin ToSet(segIds)
         /\ dirs[fresh] = SegmentOf(view.mutable)
    /\ pc \in {"flush_reset", "flush_swap"} => manifest.segments = Append(segIds, fresh)
    /\ pc = "compact_publish" => segIds = IF fresh = NoSeg THEN <<>> ELSE <<fresh>>
    /\ pc = "rebuild_publish" => \E k \in DOMAIN manifest.segments :
         /\ old = {manifest.segments[k]}
         /\ fresh \notin ToSet(manifest.segments)
         /\ segIds = IF fresh = NoSeg THEN RemovePosition(manifest.segments, k)
                     ELSE ReplaceAt(manifest.segments, k, fresh)
         /\ view.immutables = ApplyRebuild(Disk, k).immutables

Views ==
    /\ WellFormed(view)
    /\ WellFormed(Disk)
    /\ pc = "apply" /\ op.kind = "upsert" =>
         \A id \in BatchIds(op.batch) \ todo : LiveStore(view)[id] = op.batch[id]

Lsns ==
    /\ LsnsIncrease
    /\ pc # "down" =>
         /\ walFile = Logged
         /\ 0 < nextLsn
         /\ \A i \in DOMAIN Logged : Logged[i].lsn < nextLsn

(* What a crash now would recover. *)
Kept == ~reused => RecoversTo(LiveStore(Disk), Logged, manifest.floor, promised)

(* What the call or the replay in progress will have made of the view, and *)
(* the records it still has to replay then.                                *)
Shown == IF pc = "apply" THEN Effect(LiveStore(view), op) ELSE LiveStore(view)

Rest == IF pc \in {"gc", "replay"} THEN records
        ELSE IF records = <<>> THEN <<>> ELSE Tail(records)

OnTrack == ~reused /\ pc # "down" => RecoversTo(Shown, Rest, manifest.floor, promised)

(* The disk may differ from memory only where the log decides what a       *)
(* recovery makes of it.                                                   *)
Covered ==
    /\ ToSet(records) \subseteq ToSet(Logged)
    /\ ~reused =>
         /\ pc = "apply" =>
              \E n \in DOMAIN Logged : ~Skips(Logged[n], manifest.floor) /\ Logged[n].op = op
         /\ pc \notin {"flush_reset", "flush_swap"} =>
              \A id \in RowIds(view.mutable) : Settled(Logged, manifest.floor, id)
         /\ pc = "compact_publish" =>
              \A id \in Id : \/ LiveStore(view)[id] = LiveStore(Disk)[id]
                             \/ Settled(Logged, manifest.floor, id)

IInv ==
    /\ Types
    /\ Phases
    /\ Mirror
    /\ Published
    /\ Views
    /\ Lsns
    /\ Kept
    /\ OnTrack
    /\ Covered

LEMMA InitHolds == Init => IInv
  <1> SUFFICES ASSUME Init PROVE IInv
    OBVIOUS
  <1> USE DEF Init
  <1>1. walFile = <<Record(1, Create)>> /\ Record(1, Create) \in LogRecord
    <2>1. Create \in Op
      BY DEF Create, Op
    <2>2. Record(1, Create) \in LogRecord
      BY ONLY <2>1 DEF Record, LogRecord
    <2> QED
      BY <2>2
  <1>2. walFile \in Seq(LogRecord) /\ Logged = walFile
    <2>1. walFile \in Seq(LogRecord)
      BY ONLY <1>1
    <2> QED
      BY ONLY <2>1, IntactOfWhole DEF Logged
  <1>3. EmptyView \in View /\ EmptyView.immutables = <<>> /\ WellFormed(EmptyView)
        /\ LiveStore(EmptyView) = promised /\ promised \in Rows
    BY EmptyViewFacts, LookupType DEF EmptyView
  <1>4. Disk = EmptyView
    BY DEF Disk, OnDisk, EmptyView
  <1>5. Types
    <2>1. DOMAIN dirs = {} /\ <<>> \in Seq(Nat) /\ <<>> \in Seq(LogRecord) /\ Len(<<>>) = 0
      OBVIOUS
    <2>2. manifest \in [segments : Seq(Nat), floor : Nat]
      BY <2>1
    <2>3. op \in Op /\ pc \in PC /\ fresh \in Nat
      BY DEF Op, Create, PC, NoSeg
    <2> QED
      BY <1>2, <1>3, <2>1, <2>2, <2>3 DEF Types, TypeOK
  <1>6. Phases
    BY DEF Phases, NoSeg
  <1>7. ToSet(<<>>) = {}
    BY DEF ToSet
  <1>8. Mirror
    BY <1>7 DEF Mirror, Distinct, NoSeg
  <1>9. Published
    BY DEF Published
  <1>10. Views
    BY <1>3, <1>4 DEF Views
  <1>11. /\ DOMAIN Logged = {1} /\ Logged[1].lsn = 1 /\ Logged[1].op = Create
    BY <1>1, <1>2 DEF Record
  <1>12. Lsns
    BY <1>2, <1>11 DEF Lsns, LsnsIncrease, Logged
  <1>13. RecoversTo(promised, Logged, 0, promised)
    <2>1. RecoversTo(promised, <<>>, 0, promised)
      BY <1>3, RecoversFromNothing
    <2>2. Replay(promised, Record(1, Create), 0) = promised
      BY DEF Replay, Effect, Record, Create
    <2>3. <<>> \in Seq(LogRecord) /\ Append(<<>>, Record(1, Create)) = <<Record(1, Create)>>
      BY <1>1
    <2>4. RecoversTo(promised, Append(<<>>, Record(1, Create)), 0,
                     Replay(promised, Record(1, Create), 0))
      BY ONLY <1>1, <1>3, <2>1, <2>3, RecoversWithAppended
    <2>5. RecoversTo(promised, Append(<<>>, Record(1, Create)), 0, promised)
      BY ONLY <2>2, <2>4
    <2> QED
      BY <1>2, <2>3, <2>5
  <1>14. Kept
    BY <1>3, <1>4, <1>13 DEF Kept
  <1>15. OnTrack
    BY <1>3, RecoversFromNothing DEF OnTrack, Shown, Rest
  <1>16. Covered
    <2>1. RowIds(view.mutable) = {}
      BY EmptyMutableFacts DEF EmptyView, RowIds, EmptyMutable
    <2> QED
      BY <1>7, <2>1 DEF Covered
  <1> QED
    BY <1>5, <1>6, <1>8, <1>9, <1>10, <1>12, <1>14, <1>15, <1>16 DEF IInv

-----------------------------------------------------------------------------
(* What the invariant says of the disk. *)

LEMMA DiskFacts ==
    ASSUME IInv
    PROVE  /\ manifest.segments \in Seq(Nat)
           /\ manifest.floor \in Nat
           /\ manifest = [segments |-> manifest.segments, floor |-> manifest.floor]
           /\ Disk \in View
           /\ Disk = SegmentsIn(dirs, manifest.segments)
           /\ LiveStore(Disk) \in Rows
           /\ LiveStore(view) \in Rows
           /\ view \in View /\ WellFormed(view) /\ WellFormed(Disk)
           /\ view.mutable \in Mutable /\ view.immutables \in Seq(Segment)
           /\ DOMAIN segIds = DOMAIN view.immutables
           /\ DOMAIN segIds = 1..Len(segIds)
           /\ segIds \in Seq(Nat)
           /\ \A i \in DOMAIN segIds : segIds[i] \in ToSet(segIds)
  <1>1. /\ manifest \in [segments : Seq(Nat), floor : Nat]
        /\ \A d \in DOMAIN dirs : dirs[d] \in Segment
        /\ view \in View /\ segIds \in Seq(Nat) /\ Len(segIds) = Len(view.immutables)
        /\ ToSet(manifest.segments) \subseteq DOMAIN dirs
        /\ WellFormed(view) /\ WellFormed(Disk)
    BY DEF IInv, Types, TypeOK, Mirror, Views
  <1>2. view.mutable \in Mutable /\ view.immutables \in Seq(Segment)
    BY <1>1 DEF View
  <1>3. DOMAIN segIds = DOMAIN view.immutables /\ DOMAIN segIds = 1..Len(segIds)
    BY <1>1, <1>2
  <1>4. Disk \in View /\ Disk = SegmentsIn(dirs, manifest.segments)
    BY <1>1, DiskIs, SegmentsInType
  <1> QED
    BY <1>1, <1>2, <1>3, <1>4, LookupType DEF ToSet

(* When the manifest is that of the view, the disk is its segments. *)
LEMMA DiskIsView ==
    ASSUME IInv, pc # "down", manifest.segments = segIds
    PROVE  Disk = Sealed(view)
  <1>1. /\ segIds \in Seq(Nat) /\ view \in View /\ Len(segIds) = Len(view.immutables)
        /\ \A i \in DOMAIN segIds : dirs[segIds[i]] = view.immutables[i]
    BY DEF IInv, Types, TypeOK, Mirror
  <1> QED
    BY <1>1, DiskIs, SegmentsInMirrored

-----------------------------------------------------------------------------
(* Each step keeps the invariant: a call is logged. *)

LEMMA LogKeeps ==
    ASSUME IInv, NEW o \in Ops, Log(o)
    PROVE  IInv'
  <1> DEFINE record == Record(nextLsn, o)
  <1>1. /\ pc = "ready" /\ pc' = "apply" /\ op' = o
        /\ todo' = IF o.kind = "upsert" THEN BatchIds(o.batch) ELSE {}
        /\ walFile' = Append(walFile, record) /\ nextLsn' = nextLsn + 1
        /\ promised' = PromisedAfter(o)
        /\ reused' = (reused \/ nextLsn <= manifest.floor)
        /\ UNCHANGED <<manifest, dirs, view, segIds, nextSegId, fresh, old, records>>
    BY DEF Log, Begin
  <1>2. o \in ClientOp /\ o \in Op
    BY OpsAssumption DEF Op
  <1>3. PromisedAfter(o) = Effect(promised, o)
    BY <1>2 DEF PromisedAfter, Effect, ClientOp, PS!AfterUpsert, PS!AfterDelete, PS!AfterSetPayload,
                AfterUpsert, AfterDelete, AfterSetPayload
  <1>4. /\ walFile = Logged /\ Logged \in Seq(LogRecord) /\ records = <<>>
        /\ nextLsn \in Nat /\ promised \in Rows /\ reused \in BOOLEAN
        /\ 0 < nextLsn /\ \A i \in DOMAIN Logged : Logged[i].lsn < nextLsn
    BY <1>1 DEF IInv, Types, TypeOK, Lsns, Phases
  <1>5. record \in LogRecord /\ record.lsn = nextLsn /\ record.op = o
    BY <1>2, <1>4 DEF Record, LogRecord
  <1> HIDE DEF record
  <1>6. walFile' \in Seq(LogRecord) /\ Logged' = walFile' /\ Logged' = Append(Logged, record)
    <2>1. walFile' = Append(Logged, record) /\ Append(Logged, record) \in Seq(LogRecord)
      BY <1>1, <1>4, <1>5
    <2> QED
      BY <2>1, IntactOfWhole DEF Logged
  <1>7. Disk' = Disk
    BY <1>1 DEF Disk, OnDisk
  <1>8. promised' \in Rows
    BY <1>1, <1>2, <1>3, <1>4, EffectType
  <1>9. DOMAIN Logged' = DOMAIN Logged \cup {Len(Logged) + 1}
        /\ (\A i \in DOMAIN Logged : Logged'[i] = Logged[i])
        /\ Logged'[Len(Logged) + 1] = record /\ Len(Logged) + 1 \notin DOMAIN Logged
        /\ DOMAIN Logged = 1..Len(Logged) /\ Len(Logged) \in Nat
    BY <1>4, <1>5, <1>6
  <1>10. Types'
    <2>1. todo' \subseteq Id /\ pc' \in PC
      BY <1>1 DEF BatchIds, PC
    <2>2. reused' \in BOOLEAN
      BY <1>1, <1>4
    <2> QED
      BY <1>1, <1>2, <1>4, <1>6, <1>8, <2>1, <2>2 DEF IInv, Types, TypeOK
  <1>11. Phases'
    BY <1>1, <1>2 DEF IInv, Phases
  <1>12. Mirror'
    BY <1>1 DEF IInv, Mirror
  <1>13. Published'
    BY <1>1 DEF IInv, Published
  <1>14. Views'
    BY <1>1, <1>7 DEF IInv, Views
  <1>15. Lsns'
    <2>1. LsnsIncrease <=> \A i, j \in DOMAIN Logged : i < j => Logged[i].lsn < Logged[j].lsn
      BY DEF LsnsIncrease, Logged
    <2>2. LsnsIncrease' <=> \A i, j \in DOMAIN Logged' : i < j => Logged'[i].lsn < Logged'[j].lsn
      BY DEF LsnsIncrease, Logged
    <2>3. LsnsIncrease
      BY DEF IInv, Lsns
    <2>4. LsnsIncrease'
      BY <1>4, <1>5, <1>9, <2>1, <2>2, <2>3
    <2>5. \A i \in DOMAIN Logged : Logged[i].lsn \in Nat
      <3>1. \A i \in DOMAIN Logged : Logged[i] \in LogRecord
        BY <1>4
      <3> QED
        BY <3>1 DEF LogRecord
    <2>6. \A i \in DOMAIN Logged' : Logged'[i].lsn < nextLsn'
      BY <1>1, <1>4, <1>5, <1>9, <2>5
    <2> QED
      BY <1>1, <1>4, <1>6, <2>4, <2>6 DEF Lsns
  <1>16. ~reused' => ~reused /\ ~Skips(record, manifest.floor)
    BY <1>1, <1>4, <1>5 DEF Skips
  <1>17. Kept'
    <2> SUFFICES ASSUME ~reused' PROVE RecoversTo(LiveStore(Disk), Logged', manifest.floor, promised')
      BY <1>1, <1>7 DEF Kept
    <2>1. RecoversTo(LiveStore(Disk), Logged, manifest.floor, promised)
      BY <1>16 DEF IInv, Kept
    <2>2. Replay(promised, record, manifest.floor) = promised'
      BY <1>1, <1>3, <1>5, <1>16 DEF Replay
    <2>3. RecoversTo(LiveStore(Disk), Append(Logged, record), manifest.floor,
                     Replay(promised, record, manifest.floor))
      BY <1>4, <1>5, <2>1, DiskFacts, RecoversWithAppended
    <2> QED
      BY <1>6, <2>2, <2>3
  <1>18. OnTrack'
    <2> SUFFICES ASSUME ~reused'
                 PROVE  RecoversTo(Effect(LiveStore(view), o), <<>>, manifest.floor, promised')
      BY <1>1, <1>4 DEF OnTrack, Shown, Rest
    <2>1. RecoversTo(LiveStore(view), <<>>, manifest.floor, promised)
      BY <1>1, <1>4, <1>16 DEF IInv, OnTrack, Shown, Rest
    <2>2. LiveStore(view) = promised
      BY <2>1, DiskFacts, RecoversFromNothing
    <2> QED
      BY <1>1, <1>2, <1>3, <1>4, <2>2, EffectType, RecoversFromNothing
  <1>19. Covered'
    <2>1. ToSet(records') \subseteq ToSet(Logged')
      BY <1>1, <1>4 DEF ToSet
    <2>2. ASSUME ~reused'
          PROVE  \E n \in DOMAIN Logged' : ~Skips(Logged'[n], manifest.floor) /\ Logged'[n].op = o
      BY <1>5, <1>9, <1>16, <2>2
    <2>3. ASSUME ~reused', NEW id \in RowIds(view.mutable)
          PROVE  Settled(Logged', manifest.floor, id)
      <3>1. Settled(Logged, manifest.floor, id)
        BY <1>1, <1>16, <2>3 DEF IInv, Covered
      <3> QED
        BY <1>9, <3>1 DEF Settled
    <2> QED
      BY <1>1, <2>1, <2>2, <2>3 DEF Covered
  <1> QED
    BY <1>10, <1>11, <1>12, <1>13, <1>14, <1>15, <1>17, <1>18, <1>19 DEF IInv

-----------------------------------------------------------------------------
(* A call, or the replay of a record, edits the segments. *)

(* The end of a call leads on to what was left. *)
LEMMA FinishFacts ==
    ASSUME IInv, pc \notin {"gc", "replay"}, Finish
    PROVE  /\ records' \in Seq(LogRecord)
           /\ ToSet(records') \subseteq ToSet(records)
           /\ pc' \in {"ready", "replay"} /\ pc' \in PC
           /\ pc' = "ready" => records' = <<>>
           /\ Rest' = Rest
  <1>1. records \in Seq(LogRecord)
    BY DEF IInv, Types
  <1>2. CASE records = <<>>
    BY <1>1, <1>2 DEF Finish, Rest, PC
  <1>3. CASE records # <<>>
    <2>1. records' = Tail(records) /\ pc' = "replay"
      BY <1>3 DEF Finish
    <2>2. Tail(records) \in Seq(LogRecord)
      BY <1>1, <1>3
    <2>3. /\ DOMAIN Tail(records) = 1..(Len(records) - 1) /\ DOMAIN records = 1..Len(records)
          /\ Len(records) \in Nat
          /\ \A i \in 1..(Len(records) - 1) : Tail(records)[i] = records[i + 1]
      BY <1>1, <1>3
    <2>4. ToSet(Tail(records)) \subseteq ToSet(records)
      BY <2>3 DEF ToSet
    <2> QED
      BY <1>3, <2>1, <2>2, <2>4 DEF Rest, PC
  <1> QED
    BY <1>2, <1>3

(* Sidecars are written for the segments of the new view. *)
LEMMA SidecarStep ==
    ASSUME IInv, pc = "apply", NEW w \in View, DOMAIN w.immutables = DOMAIN view.immutables,
           view' = w, WriteSidecars(w),
           UNCHANGED <<manifest, segIds, nextSegId, fresh, old>>,
           pc' \in {"apply", "ready", "replay"}
    PROVE  /\ \A d \in DOMAIN dirs' : dirs'[d] \in Segment
           /\ DOMAIN dirs' = DOMAIN dirs
           /\ Len(segIds') = Len(w.immutables)
           /\ Mirror'
           /\ Published'
           /\ Disk = Sealed(view)
           /\ Disk' = Sealed(w)
           /\ fresh = NoSeg /\ old = {}
  <1>1. /\ manifest.segments = segIds /\ pc # "down" /\ fresh = NoSeg /\ old = {}
        /\ segIds \in Seq(Nat) /\ Distinct(segIds) /\ ToSet(segIds) \subseteq DOMAIN dirs
        /\ \A d \in DOMAIN dirs : dirs[d] \in Segment
    BY DEF IInv, Types, TypeOK, Phases, Mirror, Published
  <1>2. w.immutables \in Seq(Segment) /\ Len(segIds) = Len(w.immutables)
        /\ DOMAIN w.immutables = DOMAIN segIds
    <2>1. w.immutables \in Seq(Segment) /\ view.immutables \in Seq(Segment)
          /\ Len(segIds) = Len(view.immutables) /\ DOMAIN segIds = DOMAIN view.immutables
      BY DiskFacts DEF View, IInv, Types, TypeOK
    <2> QED
      BY <2>1
  <1>3. /\ DOMAIN dirs' = DOMAIN dirs
        /\ \A i \in DOMAIN segIds : dirs'[segIds[i]] = w.immutables[i]
        /\ \A d \in DOMAIN dirs \ ToSet(segIds) : dirs'[d] = dirs[d]
        /\ \A d \in ToSet(segIds) : \E i \in DOMAIN segIds : dirs'[d] = w.immutables[i]
    BY <1>1, SidecarsWritten
  <1>4. \A i \in DOMAIN segIds : w.immutables[i] \in Segment
    BY <1>2
  <1>5. \A d \in DOMAIN dirs' : dirs'[d] \in Segment
    BY <1>1, <1>3, <1>4
  <1>6. Mirror'
    BY <1>3 DEF IInv, Mirror
  <1>7. Published'
    BY DEF IInv, Published
  <1>8. Disk = Sealed(view)
    BY <1>1, DiskIsView
  <1>9. Disk' = Sealed(w)
    <2>1. SegmentsIn(dirs', segIds) = Sealed(w)
      BY <1>1, <1>2, <1>3, SegmentsInMirrored
    <2> QED
      BY <1>1, <2>1, DiskIs
  <1> QED
    BY <1>1, <1>2, <1>3, <1>5, <1>6, <1>7, <1>8, <1>9

(* Another memory and another disk from which the log recovers the same.   *)
LEMMA KeptThroughEdit ==
    ASSUME IInv, NEW w \in View, WellFormed(w), Disk' = Sealed(w), Disk = Sealed(view),
           UNCHANGED <<manifest, walFile, promised, reused>>,
           ~reused => \A id \in Id :
             \/ Settled(Logged, manifest.floor, id)
             \/ /\ id \notin RowIds(w.mutable) \cup RowIds(view.mutable)
                /\ \/ LiveStore(w)[id] = LiveStore(view)[id]
                   \/ /\ Like(LiveStore(view)[id], LiveStore(w)[id])
                      /\ Repayloaded(Logged, manifest.floor, id)
    PROVE  /\ Kept'
           /\ Logged' = Logged
           /\ WellFormed(Disk')
  <1>1. Logged' = Logged
    BY DEF Logged
  <1>2. /\ Sealed(w) \in View /\ WellFormed(Sealed(w))
        /\ \A id \in Id \ RowIds(w.mutable) : LiveStore(Sealed(w))[id] = LiveStore(w)[id]
    BY SealedView
  <1>3. \A id \in Id \ RowIds(view.mutable) : LiveStore(Disk)[id] = LiveStore(view)[id]
    BY SealedView, DiskFacts
  <1>4. LiveStore(Sealed(w)) \in Rows /\ LiveStore(Disk) \in Rows /\ Logged \in Seq(LogRecord)
    BY <1>2, LookupType, DiskFacts DEF IInv, Types
  <1>5. ASSUME ~reused
        PROVE  RecoversTo(LiveStore(Sealed(w)), Logged, manifest.floor, promised)
    <2>1. RecoversTo(LiveStore(Disk), Logged, manifest.floor, promised)
      BY <1>5 DEF IInv, Kept
    <2>2. ASSUME NEW id \in Id
          PROVE  \/ LiveStore(Disk)[id] = LiveStore(Sealed(w))[id]
                 \/ Settled(Logged, manifest.floor, id)
                 \/ /\ Like(LiveStore(Disk)[id], LiveStore(Sealed(w))[id])
                    /\ Repayloaded(Logged, manifest.floor, id)
      BY <1>2, <1>3, <1>5
    <2> QED
      BY <1>4, <2>1, <2>2, Restart
  <1> QED
    BY <1>1, <1>2, <1>5 DEF Kept

LEMMA UpsertOneKeeps ==
    ASSUME IInv, NEW id \in Id, UpsertOne(id)
    PROVE  IInv'
  <1>1. /\ pc = "apply" /\ op.kind = "upsert" /\ id \in todo
        /\ WriteSidecars(view') /\ todo' = todo \ {id}
        /\ UNCHANGED <<manifest, walFile, segIds, nextSegId, nextLsn, op, fresh, old, promised, reused>>
        /\ (todo' = {} /\ Finish) \/ (todo' # {} /\ UNCHANGED <<pc, records>>)
        /\ view' = ApplyUpsert(view, PointOfBatch(op.batch, id))
    BY DEF UpsertOne, PointOfBatch, history
  <1>2. /\ op \in ClientOp /\ op \in Op /\ op.batch \in Batch
        /\ id \in BatchIds(op.batch) /\ op.batch[id] # NoRow
        /\ records \in Seq(LogRecord) /\ todo \subseteq BatchIds(op.batch)
        /\ Logged \in Seq(LogRecord) /\ promised \in Rows /\ reused \in BOOLEAN
    BY <1>1, OpCases DEF IInv, Types, TypeOK, Phases, Op, BatchIds
  <1>3. /\ view' \in View /\ WellFormed(view')
        /\ DOMAIN view'.immutables = DOMAIN view.immutables
        /\ RowIds(view'.mutable) = RowIds(view.mutable) \cup {id}
        /\ \A x \in Id : LiveStore(view')[x] = IF x = id THEN op.batch[id] ELSE LiveStore(view)[x]
        /\ AfterUpsert(LiveStore(view'), op.batch) = AfterUpsert(LiveStore(view), op.batch)
    <2>1. view \in View /\ WellFormed(view)
      BY DiskFacts
    <2>2. op.batch \in Batch /\ id \in BatchIds(op.batch)
      BY <1>2
    <2> DEFINE w == ApplyUpsert(view, PointOfBatch(op.batch, id))
    <2>3. w \in View /\ WellFormed(w) /\ DOMAIN w.immutables = DOMAIN view.immutables
      BY <2>1, <2>2, UpsertOneEffect
    <2>4. RowIds(w.mutable) = RowIds(view.mutable) \cup {id}
      BY <2>1, <2>2, UpsertOneEffect
    <2>5. \A x \in Id : LiveStore(w)[x] = IF x = id THEN op.batch[id] ELSE LiveStore(view)[x]
      BY <2>1, <2>2, UpsertOneEffect
    <2>6. AfterUpsert(LiveStore(w), op.batch) = AfterUpsert(LiveStore(view), op.batch)
      BY <2>1, <2>2, UpsertOneEffect
    <2> QED
      BY <1>1, <2>3, <2>4, <2>5, <2>6
  <1>4. \/ todo' = {} /\ pc' \in {"ready", "replay"}
        \/ todo' # {} /\ pc' = "apply" /\ UNCHANGED records
    BY <1>1, FinishFacts
  <1>5. /\ Rest' = Rest /\ records' \in Seq(LogRecord) /\ ToSet(records') \subseteq ToSet(records)
        /\ pc' \in {"apply", "ready", "replay"} /\ pc' \in PC
        /\ pc' = "ready" => records' = <<>>
    BY <1>1, <1>2, FinishFacts DEF Rest, PC
  <1>6. /\ \A d \in DOMAIN dirs' : dirs'[d] \in Segment
        /\ DOMAIN dirs' = DOMAIN dirs
        /\ Len(segIds') = Len(view'.immutables)
        /\ Mirror' /\ Published'
        /\ Disk = Sealed(view) /\ Disk' = Sealed(view')
        /\ fresh = NoSeg /\ old = {}
    <2> DEFINE w == view'
    <2>1. w \in View /\ DOMAIN w.immutables = DOMAIN view.immutables /\ view' = w /\ WriteSidecars(w)
      BY <1>1, <1>3
    <2> HIDE DEF w
    <2>2. /\ \A d \in DOMAIN dirs' : dirs'[d] \in Segment
          /\ DOMAIN dirs' = DOMAIN dirs
          /\ Len(segIds') = Len(w.immutables)
          /\ Mirror' /\ Published'
          /\ Disk = Sealed(view) /\ Disk' = Sealed(w)
          /\ fresh = NoSeg /\ old = {}
      BY <1>1, <1>5, <2>1, SidecarStep
    <2> QED
      BY <2>2 DEF w
  <1>7. ~reused => Settled(Logged, manifest.floor, id)
    <2>1. Decides(op, id)
      BY <1>1, <1>2 DEF Decides
    <2> QED
      BY <1>1, <2>1 DEF IInv, Covered, Settled
  <1>8. ~reused => \A x \in RowIds(view'.mutable) : Settled(Logged, manifest.floor, x)
    BY <1>1, <1>3, <1>7 DEF IInv, Covered
  <1>9. Kept' /\ Logged' = Logged /\ WellFormed(Disk')
    <2> DEFINE w == view'
    <2>1. w \in View /\ WellFormed(w) /\ Disk' = Sealed(w)
      BY <1>3, <1>6
    <2>2. ~reused => \A x \in Id :
             \/ Settled(Logged, manifest.floor, x)
             \/ /\ x \notin RowIds(w.mutable) \cup RowIds(view.mutable)
                /\ LiveStore(w)[x] = LiveStore(view)[x]
      BY <1>3, <1>7, <1>8
    <2> HIDE DEF w
    <2> QED
      BY <1>1, <1>6, <2>1, <2>2, KeptThroughEdit
  <1>10. Types'
    BY <1>1, <1>2, <1>3, <1>5, <1>6, <1>9 DEF IInv, Types, TypeOK, BatchIds
  <1>11. Phases'
    BY <1>1, <1>2, <1>4, <1>5, <1>6 DEF Phases
  <1>12. Views'
    <2>1. \A x \in BatchIds(op.batch) \ todo : LiveStore(view)[x] = op.batch[x]
      BY <1>1 DEF IInv, Views
    <2>2. \A x \in BatchIds(op.batch) \ todo' : LiveStore(view')[x] = op.batch[x]
      BY <1>1, <1>3, <2>1 DEF BatchIds
    <2> QED
      BY <1>1, <1>3, <1>9, <2>2 DEF Views
  <1>13. Lsns'
    BY <1>1, <1>4, <1>9 DEF IInv, Lsns, LsnsIncrease
  <1>14. OnTrack'
    <2> SUFFICES ASSUME ~reused PROVE RecoversTo(Shown', Rest, manifest.floor, promised)
      BY <1>1, <1>5 DEF OnTrack
    <2>1. RecoversTo(Effect(LiveStore(view), op), Rest, manifest.floor, promised)
      BY <1>1 DEF IInv, OnTrack, Shown
    <2>2. Effect(LiveStore(view'), op) = Effect(LiveStore(view), op)
      BY <1>1, <1>3 DEF Effect
    <2>3. CASE pc' = "apply"
      BY <1>1, <2>1, <2>2, <2>3 DEF Shown
    <2>4. CASE pc' # "apply"
      <3>1. todo' = {}
        BY <1>4, <2>4
      <3>2. \A x \in BatchIds(op.batch) \ todo : LiveStore(view)[x] = op.batch[x]
        BY <1>1 DEF IInv, Views
      <3>3. \A x \in BatchIds(op.batch) : LiveStore(view')[x] = op.batch[x]
        BY <1>1, <1>3, <3>1, <3>2 DEF BatchIds
      <3>4. LiveStore(view') \in Rows
        BY <1>3, LookupType
      <3>5. AfterUpsert(LiveStore(view'), op.batch) = LiveStore(view')
        BY <3>3, <3>4 DEF AfterUpsert, BatchIds, Rows
      <3>6. Effect(LiveStore(view'), op) = LiveStore(view')
        BY <1>1, <3>5 DEF Effect
      <3> QED
        BY <2>1, <2>2, <2>4, <3>6 DEF Shown
    <2> QED
      BY <2>3, <2>4
  <1>15. Covered'
    <2>1. ToSet(records') \subseteq ToSet(Logged')
      BY <1>5, <1>9 DEF IInv, Covered
    <2>2. ~reused => \E n \in DOMAIN Logged : ~Skips(Logged[n], manifest.floor) /\ Logged[n].op = op
      BY <1>1 DEF IInv, Covered
    <2> QED
      BY <1>1, <1>5, <1>8, <1>9, <2>1, <2>2 DEF Covered
  <1> QED
    BY <1>6, <1>9, <1>10, <1>11, <1>12, <1>13, <1>14, <1>15 DEF IInv

(* What an operation that is in the log allows to differ. *)
LEMMA LoggedOpDecides ==
    ASSUME IInv, pc = "apply", ~reused, NEW id \in Id
    PROVE  /\ Decides(op, id) => Settled(Logged, manifest.floor, id)
           /\ SetsPayload(op, id) => Repayloaded(Logged, manifest.floor, id)
  <1>1. \E n \in DOMAIN Logged : ~Skips(Logged[n], manifest.floor) /\ Logged[n].op = op
    BY DEF IInv, Covered
  <1> QED
    BY <1>1 DEF Settled, Repayloaded

LEMMA EditSegmentKeeps ==
    ASSUME IInv, NEW i \in DOMAIN segIds, EditSegment(i)
    PROVE  IInv'
  <1>1. /\ pc = "apply" /\ op.kind \in {"delete", "payload"}
        /\ view' = [view EXCEPT !.immutables[i] = ApplyOp(view, op).immutables[i]]
        /\ WriteSidecars(view')
        /\ UNCHANGED <<manifest, walFile, segIds, nextSegId, nextLsn, pc, op, todo, fresh, old,
                       records, promised, reused>>
    BY DEF EditSegment, Goal, history
  <1>2. /\ op \in Op /\ i \in DOMAIN view.immutables /\ view \in View /\ WellFormed(view)
        /\ records \in Seq(LogRecord) /\ Logged \in Seq(LogRecord)
        /\ promised \in Rows /\ reused \in BOOLEAN
    BY DiskFacts DEF IInv, Types, TypeOK
  <1> DEFINE w == [view EXCEPT !.immutables[i] = ApplyOp(view, op).immutables[i]]
  <1>3. /\ w \in View /\ WellFormed(w) /\ w.mutable = view.mutable
        /\ DOMAIN w.immutables = DOMAIN view.immutables
    BY <1>1, <1>2, EditEffect
  <1>4. \A id \in Id : \/ LiveStore(w)[id] = LiveStore(view)[id]
                       \/ Decides(op, id)
                       \/ SetsPayload(op, id) /\ Like(LiveStore(view)[id], LiveStore(w)[id])
    BY <1>1, <1>2, EditEffect
  <1>5. Effect(LiveStore(w), op) = Effect(LiveStore(view), op)
    BY <1>1, <1>2, EditEffect
  <1>6. view' = w /\ WriteSidecars(w)
    BY <1>1
  <1> HIDE DEF w
  <1>7. /\ \A d \in DOMAIN dirs' : dirs'[d] \in Segment
        /\ DOMAIN dirs' = DOMAIN dirs
        /\ Len(segIds') = Len(w.immutables)
        /\ Mirror' /\ Published'
        /\ Disk = Sealed(view) /\ Disk' = Sealed(w)
        /\ fresh = NoSeg /\ old = {}
    BY <1>1, <1>3, <1>6, SidecarStep
  <1>8. ~reused => \A id \in RowIds(view.mutable) : Settled(Logged, manifest.floor, id)
    BY <1>1 DEF IInv, Covered
  <1>9. ~reused => \A id \in Id :
             \/ Settled(Logged, manifest.floor, id)
             \/ /\ id \notin RowIds(w.mutable) \cup RowIds(view.mutable)
                /\ \/ LiveStore(w)[id] = LiveStore(view)[id]
                   \/ /\ Like(LiveStore(view)[id], LiveStore(w)[id])
                      /\ Repayloaded(Logged, manifest.floor, id)
    BY <1>1, <1>3, <1>4, <1>8, LoggedOpDecides
  <1>10. Kept' /\ Logged' = Logged /\ WellFormed(Disk')
    BY <1>1, <1>3, <1>7, <1>9, KeptThroughEdit
  <1>11. Types'
    BY <1>1, <1>2, <1>3, <1>6, <1>7, <1>10 DEF IInv, Types, TypeOK
  <1>12. Phases'
    BY <1>1 DEF IInv, Phases
  <1>13. Views'
    BY <1>1, <1>3, <1>6, <1>10 DEF Views
  <1>14. Lsns'
    BY <1>1, <1>10 DEF IInv, Lsns, LsnsIncrease
  <1>15. OnTrack'
    BY <1>1, <1>5, <1>6 DEF IInv, OnTrack, Shown, Rest
  <1>16. Covered'
    BY <1>1, <1>3, <1>6, <1>8, <1>10 DEF IInv, Covered
  <1> QED
    BY <1>7, <1>10, <1>11, <1>12, <1>13, <1>14, <1>15, <1>16 DEF IInv

LEMMA EditsDoneKeeps ==
    ASSUME IInv, EditsDone
    PROVE  IInv'
  <1>1. /\ pc = "apply" /\ op.kind \in {"delete", "payload"} /\ Edited = {}
        /\ view' = ApplyOp(view, op)
        /\ UNCHANGED <<manifest, walFile, dirs, segIds, nextSegId, nextLsn, op, fresh, old,
                       promised, reused>>
        /\ \/ pc' = "rebuild" /\ todo' = RebuildList(view') /\ UNCHANGED records
           \/ Finish /\ UNCHANGED todo
    BY DEF EditsDone, Goal, history
  <1>2. /\ op \in Op /\ view \in View /\ WellFormed(view)
        /\ records \in Seq(LogRecord) /\ Logged \in Seq(LogRecord)
        /\ promised \in Rows /\ reused \in BOOLEAN /\ segIds \in Seq(Nat)
        /\ DOMAIN segIds = DOMAIN view.immutables
    BY DiskFacts DEF IInv, Types, TypeOK
  <1> DEFINE w == ApplyOp(view, op)
  <1>3. /\ w \in View /\ WellFormed(w)
        /\ LiveStore(w) = Effect(LiveStore(view), op)
        /\ DOMAIN w.immutables = DOMAIN view.immutables
    BY <1>2, ApplyOpEffect
  <1>4. RowIds(w.mutable) = RowIds(view.mutable)
    BY <1>1, <1>2, ApplyOpEffect
  <1>5. \A i \in DOMAIN segIds : w.immutables[i] = view.immutables[i]
    BY <1>1 DEF Edited, Goal
  <1>6. view' = w
    BY <1>1
  <1> HIDE DEF w
  <1>7. w.immutables = view.immutables
    <2>1. w.immutables \in Seq(Segment) /\ view.immutables \in Seq(Segment)
      BY <1>2, <1>3 DEF View
    <2> QED
      BY <1>2, <1>3, <1>5, <2>1
  <1>8. /\ Rest' = Rest /\ records' \in Seq(LogRecord) /\ ToSet(records') \subseteq ToSet(records)
        /\ pc' \in {"rebuild", "ready", "replay"} /\ pc' \in PC
        /\ pc' = "ready" => records' = <<>>
    BY <1>1, <1>2, FinishFacts DEF Rest, PC
  <1>9. /\ manifest.segments = segIds /\ fresh = NoSeg /\ old = {}
    BY <1>1 DEF IInv, Published, Phases
  <1>10. Disk' = Disk /\ Logged' = Logged
    BY <1>1 DEF Disk, OnDisk, Logged
  <1>11. todo' \subseteq Id \/ todo' \subseteq Nat
    <2>1. todo \subseteq Id \/ todo \subseteq Nat
      BY DEF IInv, Types, TypeOK
    <2>2. RebuildList(w) \subseteq Nat
      <3>1. w.immutables \in Seq(Segment)
        BY <1>3 DEF View
      <3> QED
        BY <3>1 DEF RebuildList
    <2> QED
      BY <1>1, <1>6, <2>1, <2>2
  <1>12. Types'
    BY <1>1, <1>3, <1>6, <1>7, <1>8, <1>10, <1>11 DEF IInv, Types, TypeOK
  <1>13. Phases'
    BY <1>1, <1>8, <1>9 DEF Phases
  <1>14. Mirror'
    BY <1>1, <1>6, <1>7, <1>8 DEF IInv, Mirror
  <1>15. Published'
    BY <1>1, <1>8, <1>9 DEF Published
  <1>16. Views'
    BY <1>3, <1>6, <1>8, <1>10 DEF IInv, Views
  <1>17. Lsns'
    BY <1>1, <1>8, <1>10 DEF IInv, Lsns, LsnsIncrease
  <1>18. Kept'
    BY <1>1, <1>10 DEF IInv, Kept
  <1>19. OnTrack'
    BY <1>1, <1>3, <1>6, <1>8 DEF IInv, OnTrack, Shown
  <1>20. Covered'
    BY <1>1, <1>4, <1>6, <1>8, <1>10 DEF IInv, Covered
  <1> QED
    BY <1>12, <1>13, <1>14, <1>15, <1>16, <1>17, <1>18, <1>19, <1>20 DEF IInv

-----------------------------------------------------------------------------
(* Segments are rebuilt. *)

LEMMA RebuildSkipKeeps ==
    ASSUME IInv, RebuildSkip
    PROVE  IInv'
  <1>1. /\ pc = "rebuild" /\ todo' = todo \ {Min(todo)}
        /\ UNCHANGED <<manifest, walFile, dirs, view, segIds, nextSegId, nextLsn, op, fresh, old,
                       promised, reused>>
        /\ Finish \/ UNCHANGED <<pc, records>>
    BY DEF RebuildSkip, history
  <1>2. records \in Seq(LogRecord)
    BY DEF IInv, Types
  <1>3. /\ Rest' = Rest /\ records' \in Seq(LogRecord) /\ ToSet(records') \subseteq ToSet(records)
        /\ pc' \in {"rebuild", "ready", "replay"} /\ pc' \in PC
        /\ pc' = "ready" => records' = <<>>
    BY <1>1, <1>2, FinishFacts DEF Rest, PC
  <1>4. manifest.segments = segIds /\ fresh = NoSeg /\ old = {}
    BY <1>1 DEF IInv, Published, Phases
  <1>5. Disk' = Disk /\ Logged' = Logged
    BY <1>1 DEF Disk, OnDisk, Logged
  <1>6. Types'
    <2>1. todo \subseteq Id \/ todo \subseteq Nat
      BY DEF IInv, Types, TypeOK
    <2>2. todo' \subseteq Id \/ todo' \subseteq Nat
      BY <1>1, <2>1
    <2> QED
      BY <1>1, <1>3, <1>5, <2>2 DEF IInv, Types, TypeOK
  <1>7. Phases'
    BY <1>1, <1>3, <1>4 DEF Phases
  <1>8. Mirror'
    BY <1>1, <1>3 DEF IInv, Mirror
  <1>9. Published'
    BY <1>1, <1>3, <1>4 DEF Published
  <1>10. Views'
    BY <1>1, <1>3, <1>5 DEF IInv, Views
  <1>11. Lsns'
    BY <1>1, <1>3, <1>5 DEF IInv, Lsns, LsnsIncrease
  <1>12. Kept'
    BY <1>1, <1>5 DEF IInv, Kept
  <1>13. OnTrack'
    BY <1>1, <1>3 DEF IInv, OnTrack, Shown
  <1>14. Covered'
    BY <1>1, <1>3, <1>5 DEF IInv, Covered
  <1> QED
    BY <1>6, <1>7, <1>8, <1>9, <1>10, <1>11, <1>12, <1>13, <1>14 DEF IInv

LEMMA DirWritten ==
    ASSUME NEW n \in Nat, NEW seg, WriteDir(n, seg)
    PROVE  /\ DOMAIN dirs' = DOMAIN dirs \cup {n}
           /\ dirs'[n] = seg
           /\ \A d \in DOMAIN dirs \ {n} : dirs'[d] = dirs[d]
  BY DEF WriteDir

(* A directory under an id that is free on disk leaves the segments of the *)
(* manifest alone.                                                         *)
LEMMA FreshDir ==
    ASSUME IInv, pc \notin {"down", "gc"}, NEW seg \in Segment, WriteDir(nextSegId, seg),
           manifest' = manifest
    PROVE  /\ nextSegId \in Nat /\ nextSegId # NoSeg /\ nextSegId \notin DOMAIN dirs
           /\ nextSegId \notin ToSet(segIds) /\ nextSegId \notin ToSet(manifest.segments)
           /\ DOMAIN dirs' = DOMAIN dirs \cup {nextSegId}
           /\ dirs'[nextSegId] = seg
           /\ \A d \in DOMAIN dirs : dirs'[d] = dirs[d]
           /\ \A d \in DOMAIN dirs' : dirs'[d] \in Segment /\ d \in Nat \ {NoSeg} /\ d < nextSegId + 1
           /\ Disk' = Disk
  <1>1. /\ nextSegId \in Nat /\ 0 < nextSegId /\ \A d \in DOMAIN dirs : d < nextSegId
        /\ \A d \in DOMAIN dirs : dirs[d] \in Segment /\ d \in Nat \ {NoSeg}
        /\ ToSet(segIds) \subseteq DOMAIN dirs /\ ToSet(manifest.segments) \subseteq DOMAIN dirs
        /\ manifest.segments \in Seq(Nat)
    BY DEF IInv, Types, TypeOK, Mirror
  <1>2. nextSegId \notin DOMAIN dirs /\ nextSegId # NoSeg
    BY <1>1 DEF NoSeg
  <1>3. /\ DOMAIN dirs' = DOMAIN dirs \cup {nextSegId}
        /\ dirs'[nextSegId] = seg
        /\ \A d \in DOMAIN dirs : dirs'[d] = dirs[d]
    BY <1>1, <1>2, DirWritten
  <1>4. \A d \in DOMAIN dirs' : dirs'[d] \in Segment /\ d \in Nat \ {NoSeg} /\ d < nextSegId + 1
    BY <1>1, <1>2, <1>3
  <1>5. SegmentsIn(dirs', manifest.segments) = SegmentsIn(dirs, manifest.segments)
    BY <1>1, <1>3, SegmentsInSame
  <1> QED
    BY <1>1, <1>2, <1>3, <1>4, <1>5, DiskIs

LEMMA RebuildOfDisk ==
    ASSUME NEW v \in View, NEW si \in DOMAIN v.immutables
    PROVE  /\ ApplyRebuild(Sealed(v), si).immutables = ApplyRebuild(v, si).immutables
           /\ ApplyRebuild(v, si).immutables =
                IF IsEmpty(Rebuilt(v.immutables[si])) THEN RemovePosition(v.immutables, si)
                ELSE ReplaceAt(v.immutables, si, SegmentOf(Rebuilt(v.immutables[si])))
  BY DEF ApplyRebuild, Sealed, View, ReplaceAt

(* Directories and segments stay in step when both lists lose a position,  *)
(* or change at one.                                                       *)
Mirrors(ds, ids, segs) == \A i \in DOMAIN ids : ds[ids[i]] = segs[i]

LEMMA MirroredWithout ==
    ASSUME NEW ids \in Seq(Nat), NEW segs \in Seq(Segment), Len(ids) = Len(segs),
           NEW k \in DOMAIN ids, NEW ds, Mirrors(ds, ids, segs)
    PROVE  /\ RemovePosition(ids, k) \in Seq(Nat)
           /\ Len(RemovePosition(ids, k)) = Len(RemovePosition(segs, k))
           /\ Mirrors(ds, RemovePosition(ids, k), RemovePosition(segs, k))
  <1> DEFINE n == Len(ids)
             r == RemovePosition(ids, k)
             z == RemovePosition(segs, k)
  <1>1. n \in Nat /\ n = Len(segs) /\ DOMAIN ids = 1..n /\ k \in 1..Len(ids) /\ k \in 1..Len(segs)
    OBVIOUS
  <1>2. /\ r \in Seq(Nat) /\ DOMAIN r = 1..(n - 1)
        /\ \A j \in 1..(n - 1) : r[j] = IF j < k THEN ids[j] ELSE ids[j + 1]
    BY <1>1, RemovedPosition
  <1>3. /\ z \in Seq(Segment) /\ DOMAIN z = 1..(n - 1)
        /\ \A j \in 1..(n - 1) : z[j] = IF j < k THEN segs[j] ELSE segs[j + 1]
    BY <1>1, RemovedPosition
  <1> HIDE DEF n, r, z
  <1>4. \A j \in 1..(n - 1) : j \in 1..n /\ j + 1 \in 1..n
    BY <1>1
  <1>5. ASSUME NEW j \in 1..(n - 1) PROVE ds[r[j]] = z[j]
    <2>1. j \in DOMAIN ids /\ j + 1 \in DOMAIN ids
      BY <1>1, <1>4
    <2>2. ds[ids[j]] = segs[j] /\ ds[ids[j + 1]] = segs[j + 1]
      BY <2>1 DEF Mirrors
    <2> QED
      BY <1>2, <1>3, <2>2
  <1>6. Len(r) = Len(z)
    BY <1>2, <1>3
  <1> QED
    BY <1>2, <1>5, <1>6 DEF r, z, Mirrors

LEMMA MirroredReplaced ==
    ASSUME NEW ids \in Seq(Nat), NEW segs \in Seq(Segment), Len(ids) = Len(segs),
           NEW k \in DOMAIN ids, NEW d \in Nat, d \notin ToSet(ids), NEW seg \in Segment,
           NEW ds, Mirrors(ds, ids, segs), ds[d] = seg
    PROVE  /\ ReplaceAt(ids, k, d) \in Seq(Nat)
           /\ Len(ReplaceAt(ids, k, d)) = Len(ReplaceAt(segs, k, seg))
           /\ Mirrors(ds, ReplaceAt(ids, k, d), ReplaceAt(segs, k, seg))
  <1>1. DOMAIN ids = DOMAIN segs /\ DOMAIN ids = 1..Len(ids) /\ Len(ids) \in Nat
    OBVIOUS
  <1> DEFINE r == ReplaceAt(ids, k, d)
             z == ReplaceAt(segs, k, seg)
  <1>2. /\ r \in Seq(Nat) /\ DOMAIN r = DOMAIN ids
        /\ \A j \in DOMAIN ids : r[j] = IF j = k THEN d ELSE ids[j]
    BY DEF ReplaceAt
  <1>3. /\ z \in Seq(Segment) /\ DOMAIN z = DOMAIN ids
        /\ \A j \in DOMAIN ids : z[j] = IF j = k THEN seg ELSE segs[j]
    BY <1>1 DEF ReplaceAt
  <1> HIDE DEF r, z
  <1>4. \A j \in DOMAIN ids : ds[r[j]] = z[j]
    BY <1>2, <1>3 DEF Mirrors
  <1>5. Len(r) = Len(z)
    BY <1>2, <1>3
  <1> QED
    BY <1>2, <1>4, <1>5 DEF r, z, Mirrors

LEMMA RebuildWriteKeeps ==
    ASSUME IInv, RebuildWrite
    PROVE  IInv'
  <1> DEFINE si == Min(todo)
             merged == Rebuilt(view.immutables[si])
             w == ApplyRebuild(view, si)
  <1>1. /\ pc = "rebuild" /\ pc' = "rebuild_publish" /\ si \in DOMAIN segIds
        /\ view' = w /\ old' = {segIds[si]} /\ todo' = todo \ {si}
        /\ UNCHANGED <<manifest, walFile, nextLsn, op, records, promised, reused>>
        /\ \/ /\ IsEmpty(merged)
              /\ segIds' = RemovePosition(segIds, si)
              /\ UNCHANGED <<dirs, fresh, nextSegId>>
           \/ /\ ~IsEmpty(merged)
              /\ WriteDir(nextSegId, SegmentOf(merged))
              /\ segIds' = ReplaceAt(segIds, si, nextSegId)
              /\ fresh' = nextSegId
              /\ nextSegId' = nextSegId + 1
    BY DEF RebuildWrite, ReplaceAt, history
  <1>2. /\ segIds \in Seq(Nat) /\ Distinct(segIds) /\ ToSet(segIds) = DOMAIN dirs
        /\ view \in View /\ view.immutables \in Seq(Segment) /\ WellFormed(view)
        /\ DOMAIN segIds = DOMAIN view.immutables /\ DOMAIN segIds = 1..Len(segIds)
        /\ Len(segIds) = Len(view.immutables) /\ Len(segIds) \in Nat
        /\ \A i \in DOMAIN segIds : segIds[i] \in ToSet(segIds) /\ dirs[segIds[i]] = view.immutables[i]
        /\ manifest.segments = segIds /\ fresh = NoSeg /\ old = {}
        /\ \A d \in ToSet(segIds) : d < nextSegId /\ d \in Nat
        /\ 0 < nextSegId /\ nextSegId \in Nat
    <2>1. /\ Len(segIds) = Len(view.immutables) /\ nextSegId \in Nat
          /\ fresh = NoSeg /\ old = {} /\ manifest.segments = segIds
      BY <1>1 DEF IInv, Types, TypeOK, Phases, Published
    <2>2. /\ Distinct(segIds) /\ ToSet(segIds) = DOMAIN dirs /\ 0 < nextSegId
          /\ \A i \in DOMAIN segIds : dirs[segIds[i]] = view.immutables[i]
          /\ \A d \in ToSet(segIds) : d < nextSegId
      BY <1>1, <2>1 DEF IInv, Mirror
    <2>3. \A d \in ToSet(segIds) : d \in Nat
      BY DiskFacts DEF ToSet
    <2>4. Len(segIds) \in Nat
      BY DiskFacts
    <2> QED
      BY <2>1, <2>2, <2>3, <2>4, DiskFacts
  <1>3. /\ w \in View /\ WellFormed(w) /\ LiveStore(w) = LiveStore(view) /\ w.mutable = view.mutable
    BY <1>2, RebuildEffect
  <1>4. /\ ApplyRebuild(Disk, si).immutables = w.immutables
        /\ w.immutables = IF IsEmpty(merged) THEN RemovePosition(view.immutables, si)
                          ELSE ReplaceAt(view.immutables, si, SegmentOf(merged))
    <2>1. Disk = Sealed(view) /\ si \in DOMAIN view.immutables
      BY <1>1, <1>2, DiskIsView
    <2> HIDE DEF si
    <2> QED
      BY <1>2, <2>1, RebuildOfDisk
  <1>5. SegmentOf(merged) \in Segment
    BY <1>1, <1>2, RebuiltFacts
  <1> HIDE DEF merged, w, si
  <1>6. /\ Disk' = Disk /\ segIds' \in Seq(Nat) /\ Len(segIds') = Len(w.immutables)
        /\ Distinct(segIds') /\ fresh' \in Nat /\ nextSegId' \in Nat /\ 0 < nextSegId'
        /\ \A d \in DOMAIN dirs' : dirs'[d] \in Segment /\ d \in Nat \ {NoSeg} /\ d < nextSegId'
        /\ DOMAIN dirs' = ToSet(segIds') \cup old' \cup ({fresh'} \ {NoSeg})
        /\ ToSet(segIds) \subseteq DOMAIN dirs'
        /\ old' \cap ToSet(segIds') = {}
        /\ \A i \in DOMAIN segIds' : dirs'[segIds'[i]] = w.immutables[i]
        /\ fresh' \notin ToSet(segIds)
        /\ segIds' = IF fresh' = NoSeg THEN RemovePosition(segIds, si) ELSE ReplaceAt(segIds, si, fresh')
    <2>1. CASE IsEmpty(merged)
      <3>1. segIds' = RemovePosition(segIds, si) /\ UNCHANGED <<dirs, fresh, nextSegId>>
        BY <1>1, <2>1
      <3>2. w.immutables = RemovePosition(view.immutables, si)
        BY <1>4, <2>1
      <3>3. /\ segIds' \in Seq(Nat) /\ Len(segIds') = Len(w.immutables)
            /\ \A i \in DOMAIN segIds' : dirs[segIds'[i]] = w.immutables[i]
        <4>1. /\ RemovePosition(segIds, si) \in Seq(Nat)
              /\ Len(RemovePosition(segIds, si)) = Len(RemovePosition(view.immutables, si))
              /\ Mirrors(dirs, RemovePosition(segIds, si), RemovePosition(view.immutables, si))
          <5>1. Mirrors(dirs, segIds, view.immutables)
            BY <1>2 DEF Mirrors
          <5> QED
            BY <1>1, <1>2, <5>1, MirroredWithout
        <4> QED
          BY <3>1, <3>2, <4>1 DEF Mirrors
      <3>4. Distinct(segIds') /\ ToSet(segIds') = ToSet(segIds) \ {segIds[si]}
        BY <1>1, <1>2, <3>1, DistinctWithout
      <3>8. Disk' = Disk
        BY <1>1, <3>1 DEF Disk, OnDisk
      <3>9. fresh' = NoSeg /\ NoSeg \notin DOMAIN dirs /\ NoSeg \in Nat
            /\ \A d \in DOMAIN dirs : dirs[d] \in Segment
        BY <1>2, <3>1 DEF IInv, Types, TypeOK, NoSeg
      <3>10. DOMAIN dirs' = ToSet(segIds') \cup old' \cup ({fresh'} \ {NoSeg})
             /\ old' \cap ToSet(segIds') = {}
        <4>1. DOMAIN dirs' = ToSet(segIds) /\ segIds[si] \in ToSet(segIds) /\ old' = {segIds[si]}
          BY <1>1, <1>2, <3>1
        <4> QED
          BY <3>4, <3>9, <4>1
      <3>11. \A d \in DOMAIN dirs' : dirs'[d] \in Segment /\ d \in Nat \ {NoSeg} /\ d < nextSegId'
        BY <1>2, <3>1, <3>9
      <3> QED
        BY <1>2, <3>1, <3>3, <3>4, <3>8, <3>9, <3>10, <3>11
    <2>2. CASE ~IsEmpty(merged)
      <3>1. /\ WriteDir(nextSegId, SegmentOf(merged))
            /\ segIds' = ReplaceAt(segIds, si, nextSegId)
            /\ fresh' = nextSegId /\ nextSegId' = nextSegId + 1
        BY <1>1, <2>2
      <3>2. /\ nextSegId # NoSeg /\ nextSegId \notin DOMAIN dirs
            /\ DOMAIN dirs' = DOMAIN dirs \cup {nextSegId}
            /\ dirs'[nextSegId] = SegmentOf(merged)
            /\ \A d \in DOMAIN dirs : dirs'[d] = dirs[d]
            /\ \A d \in DOMAIN dirs' : dirs'[d] \in Segment /\ d \in Nat \ {NoSeg} /\ d < nextSegId + 1
            /\ Disk' = Disk
        BY <1>1, <1>5, <3>1, FreshDir
      <3>3. w.immutables = ReplaceAt(view.immutables, si, SegmentOf(merged))
        BY <1>4, <2>2
      <3>4. nextSegId \notin ToSet(segIds)
        BY <1>2, <3>2
      <3>5. Distinct(segIds') /\ ToSet(segIds') = (ToSet(segIds) \ {segIds[si]}) \cup {nextSegId}
        BY <1>1, <1>2, <3>1, <3>4, DistinctReplaced
      <3>6. Mirrors(dirs', segIds, view.immutables)
        BY <1>2, <3>2 DEF Mirrors
      <3>7. /\ segIds' \in Seq(Nat) /\ Len(segIds') = Len(w.immutables)
            /\ \A i \in DOMAIN segIds' : dirs'[segIds'[i]] = w.immutables[i]
        <4>1. /\ ReplaceAt(segIds, si, nextSegId) \in Seq(Nat)
              /\ Len(ReplaceAt(segIds, si, nextSegId))
                   = Len(ReplaceAt(view.immutables, si, SegmentOf(merged)))
              /\ Mirrors(dirs', ReplaceAt(segIds, si, nextSegId),
                         ReplaceAt(view.immutables, si, SegmentOf(merged)))
          BY <1>1, <1>2, <1>5, <3>2, <3>4, <3>6, MirroredReplaced
        <4> QED
          BY <3>1, <3>3, <4>1 DEF Mirrors
      <3>8. /\ DOMAIN dirs' = ToSet(segIds') \cup old' \cup ({fresh'} \ {NoSeg})
            /\ old' \cap ToSet(segIds') = {}
        <4>1. /\ DOMAIN dirs' = ToSet(segIds) \cup {nextSegId} /\ segIds[si] \in ToSet(segIds)
              /\ old' = {segIds[si]} /\ fresh' = nextSegId /\ nextSegId # NoSeg
          BY <1>1, <1>2, <3>1, <3>2
        <4> QED
          BY <3>4, <3>5, <4>1
      <3>9. fresh' \in Nat /\ nextSegId' \in Nat /\ 0 < nextSegId' /\ fresh' \notin ToSet(segIds)
        BY <1>2, <3>1, <3>2
      <3>10. \A d \in DOMAIN dirs' : dirs'[d] \in Segment /\ d \in Nat \ {NoSeg} /\ d < nextSegId'
        BY <3>1, <3>2
      <3> QED
        BY <1>2, <3>1, <3>2, <3>5, <3>7, <3>8, <3>9, <3>10
    <2> QED
      BY <2>1, <2>2
  <1>7. Logged' = Logged
    BY <1>1 DEF Logged
  <1>8. Types'
    <2>1. todo' \subseteq Id \/ todo' \subseteq Nat
      BY <1>1 DEF IInv, Types, TypeOK
    <2>2. old' \subseteq Nat /\ pc' \in PC
      BY <1>1, <1>2 DEF PC
    <2> QED
      BY <1>1, <1>3, <1>6, <1>7, <2>1, <2>2 DEF IInv, Types, TypeOK
  <1>9. Phases'
    BY <1>1 DEF Phases
  <1>10. Mirror'
    <2>1. \A d \in ToSet(segIds') : d < nextSegId'
      BY <1>6
    <2> QED
      BY <1>1, <1>2, <1>6, <2>1 DEF Mirror
  <1>11. Published'
    <2>1. ApplyRebuild(Disk, si).immutables = view'.immutables
      BY <1>1, <1>4
    <2> QED
      BY <1>1, <1>2, <1>6, <2>1 DEF Published
  <1>12. Views'
    BY <1>1, <1>3, <1>6 DEF IInv, Views
  <1>13. Lsns'
    BY <1>1, <1>7 DEF IInv, Lsns, LsnsIncrease
  <1>14. Kept'
    BY <1>1, <1>6, <1>7 DEF IInv, Kept
  <1>15. OnTrack'
    BY <1>1, <1>3 DEF IInv, OnTrack, Shown, Rest
  <1>16. Covered'
    BY <1>1, <1>3, <1>7 DEF IInv, Covered
  <1> QED
    BY <1>8, <1>9, <1>10, <1>11, <1>12, <1>13, <1>14, <1>15, <1>16 DEF IInv

LEMMA RebuildPublishKeeps ==
    ASSUME IInv, RebuildPublish
    PROVE  IInv'
  <1> DEFINE segs == manifest.segments
             oldId == CHOOSE s \in old : TRUE
  <1>1. /\ pc = "rebuild_publish" /\ pc' = "clean" /\ fresh' = NoSeg
        /\ manifest' = [manifest EXCEPT !.segments =
             IF fresh = NoSeg THEN RemoveFirst(segs, oldId)
             ELSE IF oldId \in ToSet(segs)
               THEN ReplaceAt(segs, PositionIn(segs, oldId), fresh)
               ELSE Append(segs, fresh)]
        /\ UNCHANGED <<walFile, dirs, view, segIds, nextSegId, nextLsn, op, todo, old, records,
                       promised, reused>>
    BY DEF RebuildPublish, ReplaceAt, PositionIn, history
  <1>2. PICK k \in DOMAIN segs :
         /\ old = {segs[k]}
         /\ segIds = IF fresh = NoSeg THEN RemovePosition(segs, k) ELSE ReplaceAt(segs, k, fresh)
         /\ view.immutables = ApplyRebuild(Disk, k).immutables
    BY <1>1 DEF IInv, Published
  <1>3. /\ segs \in Seq(Nat) /\ Distinct(segs) /\ segs[k] \in ToSet(segs)
        /\ view \in View /\ Disk \in View /\ WellFormed(Disk) /\ WellFormed(view)
        /\ segIds \in Seq(Nat) /\ Distinct(segIds)
    BY <1>1, <1>2, DiskFacts DEF IInv, Mirror, ToSet
  <1>4. oldId = segs[k]
    BY <1>2
  <1> HIDE DEF oldId
  <1>5. manifest' = [segments |-> segIds, floor |-> manifest.floor]
    <2>1. RemoveFirst(segs, segs[k]) = RemovePosition(segs, k)
      BY <1>3, RemovedFirst
    <2>2. PositionIn(segs, segs[k]) = k
      BY <1>3, PositionOf DEF Distinct
    <2> DEFINE new == IF fresh = NoSeg THEN RemoveFirst(segs, oldId)
             ELSE IF oldId \in ToSet(segs)
               THEN ReplaceAt(segs, PositionIn(segs, oldId), fresh)
               ELSE Append(segs, fresh)
    <2>3. new = segIds
      BY <1>2, <1>3, <1>4, <2>1, <2>2
    <2>4. manifest' = [manifest EXCEPT !.segments = new]
      BY <1>1
    <2> HIDE DEF new
    <2> QED
      BY <2>3, <2>4, DiskFacts
  <1>6. manifest'.segments = segIds /\ manifest'.floor = manifest.floor
        /\ manifest' \in [segments : Seq(Nat), floor : Nat]
    BY <1>3, <1>5, DiskFacts
  <1>7. Disk' = Sealed(view)
    <2>1. SegmentsIn(dirs, segIds) = Sealed(view)
      <3>1. /\ Len(segIds) = Len(view.immutables)
            /\ \A i \in DOMAIN segIds : dirs[segIds[i]] = view.immutables[i]
        BY <1>1 DEF IInv, Types, TypeOK, Mirror
      <3> QED
        BY <1>3, <3>1, SegmentsInMirrored
    <2> QED
      BY <1>1, <1>6, <2>1, DiskIs
  <1>8. Disk' = ApplyRebuild(Disk, k)
    <2>1. ApplyRebuild(Disk, k) \in View /\ ApplyRebuild(Disk, k).mutable = Disk.mutable
      BY <1>3, RebuildEffect
    <2>2. Disk.mutable = EmptyMutable
      BY DEF Disk, OnDisk
    <2>3. \A v \in View : v = [mutable |-> v.mutable, immutables |-> v.immutables]
      BY DEF View
    <2> QED
      BY <1>2, <1>7, <2>1, <2>2, <2>3 DEF Sealed
  <1>9. WellFormed(Disk') /\ LiveStore(Disk') = LiveStore(Disk)
    BY <1>3, <1>8, RebuildEffect
  <1>10. Logged' = Logged
    BY <1>1 DEF Logged
  <1>11. Types'
    BY <1>1, <1>6, <1>10 DEF IInv, Types, TypeOK, NoSeg, PC
  <1>12. Phases'
    BY <1>1 DEF Phases
  <1>13. Mirror'
    <2>1. DOMAIN dirs = ToSet(segIds) \cup old
      <3>1. ASSUME fresh # NoSeg PROVE fresh \in ToSet(segIds)
        <4>1. fresh \in Nat /\ fresh \notin ToSet(segs)
          BY <1>1 DEF IInv, Types, TypeOK, Published
        <4> QED
          BY <1>2, <1>3, <3>1, <4>1, DistinctReplaced
      <3>2. DOMAIN dirs = ToSet(segIds) \cup old \cup ({fresh} \ {NoSeg})
        BY <1>1 DEF IInv, Mirror
      <3> QED
        BY <3>1, <3>2
    <2>2. /\ ToSet(segIds) \subseteq DOMAIN dirs
          /\ \A i \in DOMAIN segIds : dirs[segIds[i]] = view.immutables[i]
          /\ \A d \in ToSet(segIds) : d < nextSegId
          /\ 0 < nextSegId /\ old \cap ToSet(segIds) = {}
          /\ \A d \in DOMAIN dirs : d < nextSegId
      BY <1>1 DEF IInv, Mirror
    <2> QED
      BY <1>1, <1>3, <1>6, <2>1, <2>2 DEF Mirror
  <1>14. Published'
    BY <1>1, <1>6 DEF Published
  <1>15. Views'
    BY <1>1, <1>3, <1>9 DEF Views
  <1>16. Lsns'
    BY <1>1, <1>10 DEF IInv, Lsns, LsnsIncrease
  <1>17. Kept'
    BY <1>1, <1>6, <1>9, <1>10 DEF IInv, Kept
  <1>18. OnTrack'
    BY <1>1, <1>6 DEF IInv, OnTrack, Shown, Rest
  <1>19. Covered'
    BY <1>1, <1>6, <1>10 DEF IInv, Covered
  <1> QED
    BY <1>11, <1>12, <1>13, <1>14, <1>15, <1>16, <1>17, <1>18, <1>19 DEF IInv

LEMMA CleanKeeps ==
    ASSUME IInv, NEW id \in old, Clean(id)
    PROVE  IInv'
  <1>1. /\ pc = "clean" /\ old' = old \ {id}
        /\ dirs' = [d \in DOMAIN dirs \ {id} |-> dirs[d]]
        /\ UNCHANGED <<manifest, walFile, view, segIds, nextSegId, nextLsn, op, todo, fresh,
                       promised, reused>>
        /\ \/ old' # {} /\ UNCHANGED <<pc, records>>
           \/ old' = {} /\ pc' = "rebuild" /\ UNCHANGED records
           \/ old' = {} /\ Finish
    BY DEF Clean, history
  <1>2. /\ manifest.segments = segIds /\ fresh = NoSeg /\ records \in Seq(LogRecord)
        /\ segIds \in Seq(Nat) /\ old \cap ToSet(segIds) = {}
    BY <1>1 DEF IInv, Types, TypeOK, Phases, Mirror, Published
  <1>3. /\ Rest' = Rest /\ records' \in Seq(LogRecord) /\ ToSet(records') \subseteq ToSet(records)
        /\ pc' \in {"clean", "rebuild", "ready", "replay"} /\ pc' \in PC
        /\ pc' = "ready" => records' = <<>>
        /\ pc' # "clean" => old' = {}
    BY <1>1, <1>2, FinishFacts DEF Rest, PC
  <1>4. /\ DOMAIN dirs' = DOMAIN dirs \ {id}
        /\ \A d \in DOMAIN dirs' : dirs'[d] = dirs[d]
        /\ \A d \in ToSet(segIds) : d # id
    BY <1>1, <1>2
  <1>5. ToSet(segIds) \subseteq DOMAIN dirs'
    BY <1>1, <1>4 DEF IInv, Mirror
  <1>6. Disk' = Disk /\ Logged' = Logged
    <2>1. SegmentsIn(dirs', segIds) = SegmentsIn(dirs, segIds)
      BY <1>2, <1>4, <1>5, SegmentsInSame
    <2> QED
      BY <1>1, <1>2, <2>1, DiskIs DEF Logged
  <1>7. Types'
    BY <1>1, <1>3, <1>4, <1>6 DEF IInv, Types, TypeOK
  <1>8. Phases'
    BY <1>1, <1>2, <1>3 DEF Phases
  <1>9. Mirror'
    <2>1. \A i \in DOMAIN segIds : dirs'[segIds[i]] = view.immutables[i]
      <3>1. \A i \in DOMAIN segIds : dirs[segIds[i]] = view.immutables[i] /\ segIds[i] \in ToSet(segIds)
        BY <1>1 DEF IInv, Mirror, ToSet
      <3> QED
        BY <1>4, <1>5, <3>1
    <2>2. DOMAIN dirs' = ToSet(segIds) \cup old' \cup ({fresh} \ {NoSeg})
      <3>1. DOMAIN dirs = ToSet(segIds) \cup old \cup ({fresh} \ {NoSeg})
        BY <1>1 DEF IInv, Mirror
      <3> QED
        BY <1>1, <1>2, <1>4, <3>1
    <2>3. /\ Distinct(segIds) /\ Distinct(manifest.segments)
          /\ \A d \in ToSet(segIds) : d < nextSegId
          /\ 0 < nextSegId /\ \A d \in DOMAIN dirs' : d < nextSegId
      BY <1>1, <1>4 DEF IInv, Mirror
    <2>4. old' \cap ToSet(segIds) = {}
      BY <1>1, <1>2
    <2> QED
      BY <1>1, <1>2, <1>3, <1>5, <2>1, <2>2, <2>3, <2>4 DEF Mirror
  <1>10. Published'
    BY <1>1, <1>2, <1>3 DEF Published
  <1>11. Views'
    BY <1>1, <1>3, <1>6 DEF IInv, Views
  <1>12. Lsns'
    BY <1>1, <1>3, <1>6 DEF IInv, Lsns, LsnsIncrease
  <1>13. Kept'
    BY <1>1, <1>6 DEF IInv, Kept
  <1>14. OnTrack'
    BY <1>1, <1>3 DEF IInv, OnTrack, Shown
  <1>15. Covered'
    BY <1>1, <1>3, <1>6 DEF IInv, Covered
  <1> QED
    BY <1>7, <1>8, <1>9, <1>10, <1>11, <1>12, <1>13, <1>14, <1>15 DEF IInv

-----------------------------------------------------------------------------
(* Flush. *)

LEMMA FlushWriteKeeps ==
    ASSUME IInv, FlushWrite
    PROVE  IInv'
  <1>1. /\ pc = "ready" /\ pc' = "flush_publish"
        /\ WriteDir(nextSegId, SegmentOf(view.mutable))
        /\ fresh' = nextSegId /\ nextSegId' = nextSegId + 1
        /\ UNCHANGED <<manifest, walFile, view, segIds, nextLsn, op, todo, old, records,
                       promised, reused>>
    BY DEF FlushWrite, history
  <1>2. SegmentOf(view.mutable) \in Segment
    BY DiskFacts, RebuildsAreSegments
  <1>3. /\ nextSegId \in Nat /\ nextSegId # NoSeg /\ nextSegId \notin DOMAIN dirs
        /\ nextSegId \notin ToSet(segIds)
        /\ DOMAIN dirs' = DOMAIN dirs \cup {nextSegId}
        /\ dirs'[nextSegId] = SegmentOf(view.mutable)
        /\ \A d \in DOMAIN dirs : dirs'[d] = dirs[d]
        /\ \A d \in DOMAIN dirs' : dirs'[d] \in Segment /\ d \in Nat \ {NoSeg} /\ d < nextSegId + 1
        /\ Disk' = Disk
    BY <1>1, <1>2, FreshDir
  <1>4. Logged' = Logged
    BY <1>1 DEF Logged
  <1>5. /\ records = <<>> /\ manifest.segments = segIds /\ fresh = NoSeg /\ old = {}
    BY <1>1 DEF IInv, Phases, Published
  <1>6. Types'
    BY <1>1, <1>3, <1>4 DEF IInv, Types, TypeOK, PC
  <1>7. Phases'
    BY <1>1, <1>5 DEF Phases
  <1>8. Mirror'
    <2>1. /\ DOMAIN dirs = ToSet(segIds) \cup old \cup ({fresh} \ {NoSeg})
          /\ Distinct(segIds) /\ 0 < nextSegId
          /\ \A i \in DOMAIN segIds : dirs[segIds[i]] = view.immutables[i] /\ segIds[i] \in DOMAIN dirs
      BY <1>1, DiskFacts DEF IInv, Mirror
    <2>2. /\ DOMAIN dirs' = ToSet(segIds) \cup old' \cup ({fresh'} \ {NoSeg})
          /\ ToSet(segIds) \subseteq DOMAIN dirs'
      BY <1>1, <1>3, <1>5, <2>1
    <2>3. \A i \in DOMAIN segIds : dirs'[segIds[i]] = view.immutables[i]
      BY <1>3, <2>1
    <2>4. \A d \in ToSet(segIds) : d < nextSegId'
      BY <1>1, <1>3, <2>2
    <2>5. 0 < nextSegId'
      BY <1>1, <1>3
    <2> QED
      BY <1>1, <1>3, <1>5, <2>1, <2>2, <2>3, <2>4, <2>5 DEF Mirror
  <1>9. Published'
    BY <1>1, <1>3, <1>5 DEF Published
  <1>10. Views'
    BY <1>1, <1>3 DEF IInv, Views
  <1>11. Lsns'
    BY <1>1, <1>4 DEF IInv, Lsns, LsnsIncrease
  <1>12. Kept'
    BY <1>1, <1>3, <1>4 DEF IInv, Kept
  <1>13. OnTrack'
    BY <1>1 DEF IInv, OnTrack, Shown, Rest
  <1>14. Covered'
    BY <1>1, <1>3, <1>4 DEF IInv, Covered
  <1> QED
    BY <1>6, <1>7, <1>8, <1>9, <1>10, <1>11, <1>12, <1>13, <1>14 DEF IInv

(* What a flush has written is the view. *)
LEMMA FlushedFacts ==
    ASSUME IInv, pc \in {"flush_publish", "flush_reset", "flush_swap"}
    PROVE  LET w == ApplyFlush(view, SegmentOf(view.mutable))
           IN  /\ w \in View
               /\ WellFormed(w)
               /\ LiveStore(w) = LiveStore(view)
               /\ w = Sealed(w)
               /\ w = SegmentsIn(dirs, Append(segIds, fresh))
               /\ RowIds(w.mutable) = {}
               /\ Append(segIds, fresh) \in Seq(Nat)
               /\ Len(Append(segIds, fresh)) = Len(w.immutables)
               /\ Distinct(Append(segIds, fresh))
               /\ ToSet(Append(segIds, fresh)) = DOMAIN dirs
               /\ Mirrors(dirs, Append(segIds, fresh), w.immutables)
               /\ fresh \in Nat /\ fresh # NoSeg /\ old = {} /\ records = <<>>
               /\ ~reused => LiveStore(view) = promised
  <1> DEFINE seg == SegmentOf(view.mutable)
             w == ApplyFlush(view, seg)
             ids == Append(segIds, fresh)
  <1>1. /\ view \in View /\ WellFormed(view) /\ view.mutable \in Mutable
        /\ view.immutables \in Seq(Segment) /\ segIds \in Seq(Nat) /\ Len(segIds) = Len(view.immutables)
        /\ Distinct(segIds) /\ fresh \in Nat /\ fresh # NoSeg /\ fresh \notin ToSet(segIds)
        /\ dirs[fresh] = seg /\ old = {} /\ records = <<>>
        /\ DOMAIN dirs = ToSet(segIds) \cup old \cup ({fresh} \ {NoSeg})
        /\ \A i \in DOMAIN segIds : dirs[segIds[i]] = view.immutables[i]
    BY DiskFacts DEF IInv, Types, TypeOK, Phases, Mirror, Published
  <1>2. seg \in Segment
    BY <1>1, RebuildsAreSegments
  <1>3. w \in View /\ WellFormed(w) /\ LiveStore(w) = LiveStore(view)
    BY <1>1, FlushEffect
  <1>4. w = Sealed(w) /\ w.immutables = Append(view.immutables, seg) /\ w.mutable = EmptyMutable
    BY DEF Sealed, ApplyFlush
  <1>5. RowIds(w.mutable) = {}
    BY <1>4 DEF RowIds, EmptyMutable
  <1>6. Distinct(ids) /\ ToSet(ids) = DOMAIN dirs
    <2>1. Distinct(ids) /\ ToSet(ids) = ToSet(segIds) \cup {fresh}
      BY <1>1, DistinctAppended
    <2> HIDE DEF ids
    <2> QED
      BY <1>1, <2>1
  <1> HIDE DEF seg, w
  <1>7. /\ ids \in Seq(Nat) /\ Len(ids) = Len(w.immutables)
        /\ Mirrors(dirs, ids, w.immutables)
    <2> DEFINE n == Len(segIds)
    <2>1. /\ n \in Nat /\ DOMAIN segIds = 1..n /\ ids \in Seq(Nat) /\ DOMAIN ids = 1..(n + 1) /\ Len(ids) = n + 1
          /\ \A i \in 1..n : ids[i] = segIds[i]
          /\ ids[n + 1] = fresh
      BY <1>1
    <2>2. /\ Len(w.immutables) = n + 1
          /\ \A i \in 1..n : w.immutables[i] = view.immutables[i]
          /\ w.immutables[n + 1] = seg
      BY <1>1, <1>2, <1>4
    <2> HIDE DEF ids, n
    <2>3. \A i \in 1..(n + 1) : i \in 1..n \/ i = n + 1
      BY <2>1
    <2>4. \A i \in 1..n : dirs[segIds[i]] = view.immutables[i]
      BY <1>1, <2>1
    <2>5. \A i \in 1..(n + 1) : dirs[ids[i]] = w.immutables[i]
      BY <1>1, <2>1, <2>2, <2>3, <2>4
    <2> QED
      BY <2>1, <2>2, <2>5 DEF Mirrors
  <1>8. w = SegmentsIn(dirs, ids)
    <2> HIDE DEF ids
    <2>1. \A i \in DOMAIN ids : dirs[ids[i]] = w.immutables[i]
      BY <1>7 DEF Mirrors
    <2> QED
      BY <1>3, <1>4, <1>7, <2>1, SegmentsInMirrored
  <1>9. ASSUME ~reused PROVE LiveStore(view) = promised
    <2>1. RecoversTo(LiveStore(view), <<>>, manifest.floor, promised)
      BY <1>1, <1>9 DEF IInv, OnTrack, Shown, Rest
    <2> QED
      BY <2>1, DiskFacts, RecoversFromNothing
  <1> QED
    BY <1>1, <1>3, <1>4, <1>5, <1>6, <1>7, <1>8, <1>9 DEF w, seg

LEMMA FlushPublishKeeps ==
    ASSUME IInv, FlushPublish
    PROVE  IInv'
  <1> DEFINE w == ApplyFlush(view, SegmentOf(view.mutable))
             ids == Append(segIds, fresh)
  <1>1. /\ pc = "flush_publish" /\ pc' = "flush_reset"
        /\ manifest' = [segments |-> ids, floor |-> nextLsn - 1]
        /\ UNCHANGED <<walFile, dirs, view, segIds, nextSegId, nextLsn, op, todo, fresh, old, records,
                       promised, reused>>
    <2>1. /\ pc = "flush_publish" /\ pc' = "flush_reset"
          /\ manifest' = [segments |-> Append(manifest.segments, fresh), floor |-> nextLsn - 1]
          /\ UNCHANGED <<walFile, dirs, view, segIds, nextSegId, nextLsn, op, todo, fresh, old,
                         records, promised, reused>>
      BY DEF FlushPublish, memory, history
    <2>2. manifest.segments = segIds
      BY <2>1 DEF IInv, Published
    <2> QED
      BY <2>1, <2>2
  <1>2. /\ w \in View /\ WellFormed(w) /\ LiveStore(w) = LiveStore(view)
        /\ w = SegmentsIn(dirs, ids)
    BY <1>1, FlushedFacts
  <1>3. /\ ids \in Seq(Nat) /\ Distinct(ids) /\ ToSet(ids) = DOMAIN dirs
        /\ records = <<>> /\ (~reused => LiveStore(view) = promised)
    BY <1>1, FlushedFacts
  <1> HIDE DEF w, ids
  <1>4. /\ nextLsn \in Nat /\ 0 < nextLsn /\ Logged \in Seq(LogRecord)
        /\ \A i \in DOMAIN Logged : Logged[i].lsn < nextLsn
        /\ promised \in Rows
    BY <1>1 DEF IInv, Types, TypeOK, Lsns
  <1>5. /\ manifest'.segments = ids /\ manifest'.floor = nextLsn - 1
        /\ manifest' \in [segments : Seq(Nat), floor : Nat]
    BY <1>1, <1>3, <1>4
  <1>6. Disk' = w /\ Logged' = Logged
    BY <1>1, <1>2, <1>5, DiskIs DEF Logged
  <1>7. Types'
    BY <1>1, <1>5, <1>6 DEF IInv, Types, TypeOK, PC
  <1>8. Phases'
    BY <1>1 DEF IInv, Phases
  <1>9. Mirror'
    BY <1>1, <1>3, <1>5 DEF IInv, Mirror
  <1>10. Published'
    BY <1>1, <1>5 DEF IInv, Published, ids
  <1>11. Views'
    BY <1>1, <1>2, <1>6 DEF IInv, Views
  <1>12. Lsns'
    BY <1>1, <1>6 DEF IInv, Lsns, LsnsIncrease
  <1>13. Kept'
    <2> SUFFICES ASSUME ~reused PROVE RecoversTo(promised, Logged, nextLsn - 1, promised)
      BY <1>1, <1>2, <1>3, <1>5, <1>6 DEF Kept
    <2>1. \A i \in DOMAIN Logged : Logged[i] \in LogRecord
      BY <1>4
    <2>2. \A i \in DOMAIN Logged : Logged[i].lsn \in Nat
      BY <2>1 DEF LogRecord
    <2>3. \A i \in DOMAIN Logged : Skips(Logged[i], nextLsn - 1)
      BY <1>4, <2>2 DEF Skips
    <2> QED
      BY <1>4, <2>3, RecoversFromSegments
  <1>14. OnTrack'
    <2> SUFFICES ASSUME ~reused PROVE RecoversTo(LiveStore(view), <<>>, manifest'.floor, promised)
      BY <1>1, <1>3 DEF OnTrack, Shown, Rest
    <2> QED
      BY <1>3, DiskFacts, RecoversFromNothing
  <1>15. Covered'
    BY <1>1, <1>6 DEF IInv, Covered
  <1> QED
    BY <1>7, <1>8, <1>9, <1>10, <1>11, <1>12, <1>13, <1>14, <1>15 DEF IInv

LEMMA FlushResetKeeps ==
    ASSUME IInv, FlushReset
    PROVE  IInv'
  <1> DEFINE w == ApplyFlush(view, SegmentOf(view.mutable))
             ids == Append(segIds, fresh)
  <1>1. /\ pc = "flush_reset" /\ pc' = "flush_swap" /\ walFile' = <<>>
        /\ UNCHANGED <<manifest, dirs, view, segIds, nextSegId, nextLsn, op, todo, fresh, old, records,
                       promised, reused>>
    BY DEF FlushReset, memory, history
  <1>2. /\ w \in View /\ WellFormed(w) /\ LiveStore(w) = LiveStore(view)
        /\ w = SegmentsIn(dirs, ids)
    BY <1>1, FlushedFacts
  <1>3. records = <<>> /\ (~reused => LiveStore(view) = promised)
    BY <1>1, FlushedFacts
  <1>4. manifest.segments = ids
    BY <1>1 DEF IInv, Published
  <1> HIDE DEF w, ids
  <1>5. Disk = w /\ Disk' = Disk
    BY <1>1, <1>2, <1>4, DiskIs DEF Disk, OnDisk
  <1>6. Logged' = <<>> /\ <<>> \in Seq(LogRecord) /\ DOMAIN Logged' = {} /\ ToSet(<<>>) = {}
    <2>1. <<>> \in Seq(LogRecord) /\ DOMAIN <<>> = {}
      OBVIOUS
    <2>2. Intact(<<>>) = <<>>
      BY <2>1, IntactOfWhole
    <2>3. Logged' = <<>>
      BY <1>1, <2>2 DEF Logged
    <2> QED
      BY <2>1, <2>3 DEF ToSet
  <1>7. Types'
    BY <1>1, <1>6 DEF IInv, Types, TypeOK, PC
  <1>8. Phases'
    BY <1>1 DEF IInv, Phases
  <1>9. Mirror'
    BY <1>1 DEF IInv, Mirror
  <1>10. Published'
    BY <1>1 DEF IInv, Published
  <1>11. Views'
    BY <1>1, <1>5 DEF IInv, Views
  <1>12. Lsns'
    <2>1. LsnsIncrease'
      BY <1>6 DEF LsnsIncrease, Logged
    <2> QED
      BY <1>1, <1>6, <2>1 DEF IInv, Lsns
  <1>13. Kept'
    <2> SUFFICES ASSUME ~reused PROVE RecoversTo(LiveStore(view), <<>>, manifest.floor, promised)
      BY <1>1, <1>2, <1>5, <1>6 DEF Kept
    <2> QED
      BY <1>3, DiskFacts, RecoversFromNothing
  <1>14. OnTrack'
    BY <1>1 DEF IInv, OnTrack, Shown, Rest
  <1>15. Covered'
    BY <1>1, <1>3, <1>6 DEF Covered
  <1> QED
    BY <1>7, <1>8, <1>9, <1>10, <1>11, <1>12, <1>13, <1>14, <1>15 DEF IInv

LEMMA FlushSwapKeeps ==
    ASSUME IInv, FlushSwap
    PROVE  IInv'
  <1> DEFINE w == ApplyFlush(view, SegmentOf(view.mutable))
             ids == Append(segIds, fresh)
  <1>1. /\ pc = "flush_swap" /\ pc' = "ready" /\ fresh' = NoSeg
        /\ view' = ApplyFlush(view, dirs[fresh]) /\ segIds' = ids
        /\ UNCHANGED <<manifest, walFile, dirs, nextSegId, nextLsn, op, todo, old, records,
                       promised, reused>>
    BY DEF FlushSwap, history
  <1>2. /\ w \in View /\ WellFormed(w) /\ LiveStore(w) = LiveStore(view)
        /\ RowIds(w.mutable) = {}
    BY <1>1, FlushedFacts
  <1>3. /\ ids \in Seq(Nat) /\ Len(ids) = Len(w.immutables) /\ Distinct(ids) /\ ToSet(ids) = DOMAIN dirs
    BY <1>1, FlushedFacts
  <1>4. Mirrors(dirs, ids, w.immutables) /\ old = {} /\ records = <<>>
    BY <1>1, FlushedFacts
  <1>5. view' = w
    BY <1>1 DEF IInv, Published
  <1>6. manifest.segments = ids /\ \A d \in DOMAIN dirs : d < nextSegId
    BY <1>1 DEF IInv, Published, Mirror
  <1> HIDE DEF w, ids
  <1>7. Disk' = Disk /\ Logged' = Logged
    BY <1>1 DEF Disk, OnDisk, Logged
  <1>8. Types'
    BY <1>1, <1>2, <1>3, <1>5, <1>7 DEF IInv, Types, TypeOK, PC, NoSeg
  <1>9. Phases'
    BY <1>1, <1>4 DEF Phases
  <1>10. Mirror'
    <2>1. \A i \in DOMAIN ids : dirs[ids[i]] = w.immutables[i]
      BY <1>4 DEF Mirrors
    <2>2. 0 < nextSegId /\ ToSet(manifest.segments) \subseteq DOMAIN dirs /\ Distinct(manifest.segments)
      BY <1>1 DEF IInv, Mirror
    <2> QED
      BY <1>1, <1>3, <1>4, <1>5, <1>6, <2>1, <2>2 DEF Mirror
  <1>11. Published'
    BY <1>1, <1>6 DEF Published
  <1>12. Views'
    BY <1>1, <1>2, <1>5, <1>7 DEF IInv, Views
  <1>13. Lsns'
    BY <1>1, <1>7 DEF IInv, Lsns, LsnsIncrease
  <1>14. Kept'
    BY <1>1, <1>7 DEF IInv, Kept
  <1>15. OnTrack'
    BY <1>1, <1>2, <1>5 DEF IInv, OnTrack, Shown, Rest
  <1>16. Covered'
    BY <1>1, <1>2, <1>5, <1>7 DEF IInv, Covered
  <1> QED
    BY <1>8, <1>9, <1>10, <1>11, <1>12, <1>13, <1>14, <1>15, <1>16 DEF IInv

-----------------------------------------------------------------------------
(* Compaction. *)

LEMMA CompactWriteKeeps ==
    ASSUME IInv, CompactWrite
    PROVE  IInv'
  <1> DEFINE w == ApplyCompact(view)
             seg == SegmentOf(Merged(view))
  <1>1. /\ pc = "ready" /\ pc' = "compact_publish" /\ view' = w /\ old' = ToSet(segIds)
        /\ UNCHANGED <<manifest, walFile, nextLsn, op, todo, records, promised, reused>>
        /\ \/ /\ IsEmpty(Merged(view))
              /\ segIds' = <<>>
              /\ UNCHANGED <<dirs, fresh, nextSegId>>
           \/ /\ ~IsEmpty(Merged(view))
              /\ WriteDir(nextSegId, seg)
              /\ segIds' = <<nextSegId>>
              /\ fresh' = nextSegId
              /\ nextSegId' = nextSegId + 1
    BY DEF CompactWrite, history
  <1>2. /\ segIds \in Seq(Nat) /\ view \in View /\ WellFormed(view)
        /\ ToSet(segIds) = DOMAIN dirs /\ ToSet(segIds) \subseteq Nat
        /\ manifest.segments = segIds /\ fresh = NoSeg /\ old = {} /\ records = <<>>
        /\ 0 < nextSegId /\ nextSegId \in Nat
        /\ \A d \in DOMAIN dirs : dirs[d] \in Segment /\ d \in Nat \ {NoSeg} /\ d < nextSegId
    BY <1>1, DiskFacts DEF IInv, Types, TypeOK, Phases, Mirror, Published
  <1>3. /\ w \in View /\ WellFormed(w) /\ LiveStore(w) = LiveStore(view)
    BY <1>2, CompactEffect
  <1>4. /\ w.immutables = IF IsEmpty(Merged(view)) THEN <<>> ELSE <<seg>>
        /\ RowIds(w.mutable) = {}
    BY DEF ApplyCompact, RowIds, EmptyMutable
  <1>5. seg \in Segment
    BY <1>2, MergeIsLiveStore, RebuildsAreSegments
  <1> HIDE DEF w, seg
  <1>6. /\ Disk' = Disk /\ segIds' \in Seq(Nat) /\ Len(segIds') = Len(w.immutables)
        /\ Distinct(segIds') /\ fresh' \in Nat /\ nextSegId' \in Nat /\ 0 < nextSegId'
        /\ \A d \in DOMAIN dirs' : dirs'[d] \in Segment /\ d \in Nat \ {NoSeg} /\ d < nextSegId'
        /\ DOMAIN dirs' = ToSet(segIds') \cup old' \cup ({fresh'} \ {NoSeg})
        /\ ToSet(segIds) \subseteq DOMAIN dirs'
        /\ old' \cap ToSet(segIds') = {}
        /\ \A i \in DOMAIN segIds' : dirs'[segIds'[i]] = w.immutables[i]
        /\ segIds' = IF fresh' = NoSeg THEN <<>> ELSE <<fresh'>>
    <2>1. CASE IsEmpty(Merged(view))
      <3>1. segIds' = <<>> /\ UNCHANGED <<dirs, fresh, nextSegId>> /\ w.immutables = <<>>
        BY <1>1, <1>4, <2>1
      <3>2. ToSet(<<>>) = {} /\ DOMAIN <<>> = {} /\ <<>> \in Seq(Nat) /\ Len(<<>>) = 0
        BY DEF ToSet
      <3>3. Disk' = Disk
        BY <1>1, <3>1 DEF Disk, OnDisk
      <3>4. Distinct(<<>>) /\ NoSeg \in Nat
        BY <3>2 DEF Distinct, NoSeg
      <3> QED
        BY <1>1, <1>2, <3>1, <3>2, <3>3, <3>4
    <2>2. CASE ~IsEmpty(Merged(view))
      <3>1. /\ WriteDir(nextSegId, seg) /\ segIds' = <<nextSegId>> /\ fresh' = nextSegId
            /\ nextSegId' = nextSegId + 1 /\ w.immutables = <<seg>>
        BY <1>1, <1>4, <2>2
      <3>2. /\ nextSegId # NoSeg /\ nextSegId \notin DOMAIN dirs /\ nextSegId \notin ToSet(segIds)
            /\ DOMAIN dirs' = DOMAIN dirs \cup {nextSegId}
            /\ dirs'[nextSegId] = seg
            /\ \A d \in DOMAIN dirs' : dirs'[d] \in Segment /\ d \in Nat \ {NoSeg} /\ d < nextSegId + 1
            /\ Disk' = Disk
        BY <1>1, <1>5, <3>1, FreshDir
      <3>3. /\ <<nextSegId>> \in Seq(Nat) /\ DOMAIN <<nextSegId>> = {1} /\ <<nextSegId>>[1] = nextSegId
            /\ <<seg>>[1] = seg /\ Len(<<nextSegId>>) = 1 /\ Len(<<seg>>) = 1
        BY <1>2
      <3>4. ToSet(<<nextSegId>>) = {nextSegId} /\ Distinct(<<nextSegId>>)
        BY <3>3 DEF ToSet, Distinct
      <3>5. nextSegId + 1 \in Nat /\ 0 < nextSegId + 1
        BY <1>2
      <3>6. /\ DOMAIN dirs' = ToSet(segIds') \cup old' \cup ({fresh'} \ {NoSeg})
            /\ ToSet(segIds) \subseteq DOMAIN dirs' /\ old' \cap ToSet(segIds') = {}
        BY <1>1, <1>2, <3>1, <3>2, <3>4
      <3>7. \A i \in DOMAIN segIds' : dirs'[segIds'[i]] = w.immutables[i]
        BY <3>1, <3>2, <3>3
      <3> QED
        BY <1>2, <3>1, <3>2, <3>3, <3>4, <3>5, <3>6, <3>7
    <2> QED
      BY <2>1, <2>2
  <1>7. Logged' = Logged
    BY <1>1 DEF Logged
  <1>8. Types'
    BY <1>1, <1>2, <1>3, <1>6, <1>7 DEF IInv, Types, TypeOK, PC
  <1>9. Phases'
    BY <1>1, <1>2 DEF Phases
  <1>10. Mirror'
    <2>1. (\A d \in ToSet(segIds') : d < nextSegId') /\ ToSet(segIds') \subseteq DOMAIN dirs'
      BY <1>6
    <2>2. Distinct(manifest.segments)
      BY DEF IInv, Mirror
    <2> QED
      BY <1>1, <1>2, <1>6, <2>1, <2>2 DEF Mirror
  <1>11. Published'
    BY <1>1, <1>6 DEF Published
  <1>12. Views'
    BY <1>1, <1>3, <1>6 DEF IInv, Views
  <1>13. Lsns'
    BY <1>1, <1>7 DEF IInv, Lsns, LsnsIncrease
  <1>14. Kept'
    BY <1>1, <1>6, <1>7 DEF IInv, Kept
  <1>15. OnTrack'
    BY <1>1, <1>3 DEF IInv, OnTrack, Shown, Rest
  <1>16. Covered'
    <2>1. ASSUME ~reused, NEW id \in Id
          PROVE  LiveStore(w)[id] = LiveStore(Disk)[id] \/ Settled(Logged, manifest.floor, id)
      <3>1. CASE id \in RowIds(view.mutable)
        BY <1>1, <2>1, <3>1 DEF IInv, Covered
      <3>2. CASE id \notin RowIds(view.mutable)
        <4>1. Disk = Sealed(view)
          BY <1>1, <1>2, DiskIsView
        <4>2. LiveStore(Sealed(view))[id] = LiveStore(view)[id]
          BY <1>2, <3>2, SealedView
        <4> QED
          BY <1>3, <4>1, <4>2
      <3> QED
        BY <3>1, <3>2
    <2>2. ToSet(records) \subseteq ToSet(Logged)
      BY DEF IInv, Covered
    <2> QED
      BY <1>1, <1>4, <1>6, <1>7, <2>1, <2>2 DEF Covered
  <1> QED
    BY <1>8, <1>9, <1>10, <1>11, <1>12, <1>13, <1>14, <1>15, <1>16 DEF IInv

LEMMA CompactPublishKeeps ==
    ASSUME IInv, CompactPublish
    PROVE  IInv'
  <1>1. /\ pc = "compact_publish" /\ fresh' = NoSeg
        /\ manifest' = [manifest EXCEPT !.segments = IF fresh = NoSeg THEN <<>> ELSE <<fresh>>]
        /\ pc' = IF old = {} THEN "ready" ELSE "clean"
        /\ UNCHANGED <<walFile, dirs, view, segIds, nextSegId, nextLsn, op, todo, old, records,
                       promised, reused>>
    BY DEF CompactPublish, history
  <1>2. /\ segIds = IF fresh = NoSeg THEN <<>> ELSE <<fresh>>
        /\ segIds \in Seq(Nat) /\ view \in View /\ WellFormed(view) /\ records = <<>>
        /\ Len(segIds) = Len(view.immutables)
        /\ \A i \in DOMAIN segIds : dirs[segIds[i]] = view.immutables[i]
    BY <1>1, DiskFacts DEF IInv, Types, TypeOK, Phases, Mirror, Published
  <1>3. manifest' = [segments |-> segIds, floor |-> manifest.floor]
    <2>1. manifest' = [manifest EXCEPT !.segments = segIds]
      BY <1>1, <1>2
    <2> QED
      BY <2>1, DiskFacts
  <1>4. /\ manifest'.segments = segIds /\ manifest'.floor = manifest.floor
        /\ manifest' \in [segments : Seq(Nat), floor : Nat]
    BY <1>2, <1>3, DiskFacts
  <1>5. Disk' = Sealed(view) /\ Logged' = Logged
    <2>1. SegmentsIn(dirs, segIds) = Sealed(view)
      BY <1>2, SegmentsInMirrored
    <2> QED
      BY <1>1, <1>4, <2>1, DiskIs DEF Logged
  <1>6. /\ Sealed(view) \in View /\ WellFormed(Sealed(view))
        /\ \A id \in Id \ RowIds(view.mutable) : LiveStore(Sealed(view))[id] = LiveStore(view)[id]
    BY <1>2, SealedView
  <1>7. Types'
    BY <1>1, <1>4, <1>5 DEF IInv, Types, TypeOK, NoSeg, PC
  <1>8. Phases'
    BY <1>1, <1>2 DEF IInv, Phases
  <1>9. Mirror'
    <2>1. fresh # NoSeg => fresh \in ToSet(segIds)
      <3>1. <<fresh>>[1] = fresh /\ 1 \in DOMAIN <<fresh>>
        OBVIOUS
      <3> QED
        BY <1>2, <3>1 DEF ToSet
    <2>2. DOMAIN dirs = ToSet(segIds) \cup old \cup ({fresh} \ {NoSeg})
      BY <1>1 DEF IInv, Mirror
    <2>3. DOMAIN dirs = ToSet(segIds) \cup old
      BY <2>1, <2>2
    <2>4. /\ Distinct(segIds) /\ ToSet(segIds) \subseteq DOMAIN dirs
          /\ \A d \in ToSet(segIds) : d < nextSegId
          /\ 0 < nextSegId /\ old \cap ToSet(segIds) = {}
          /\ \A d \in DOMAIN dirs : d < nextSegId
      BY <1>1 DEF IInv, Mirror
    <2> QED
      BY <1>1, <1>2, <1>4, <2>3, <2>4 DEF Mirror
  <1>10. Published'
    BY <1>1, <1>4 DEF Published
  <1>11. Views'
    BY <1>1, <1>2, <1>5, <1>6 DEF Views
  <1>12. Lsns'
    BY <1>1, <1>5 DEF IInv, Lsns, LsnsIncrease
  <1>13. Kept'
    <2> SUFFICES ASSUME ~reused
                 PROVE  RecoversTo(LiveStore(Sealed(view)), Logged, manifest.floor, promised)
      BY <1>1, <1>4, <1>5 DEF Kept
    <2>1. RecoversTo(LiveStore(Disk), Logged, manifest.floor, promised)
      BY DEF IInv, Kept
    <2>2. LiveStore(Disk) \in Rows /\ LiveStore(Sealed(view)) \in Rows /\ Logged \in Seq(LogRecord)
      BY <1>6, LookupType, DiskFacts DEF IInv, Types
    <2>3. ASSUME NEW id \in Id
          PROVE  LiveStore(Disk)[id] = LiveStore(Sealed(view))[id] \/ Settled(Logged, manifest.floor, id)
      <3>1. \/ LiveStore(view)[id] = LiveStore(Disk)[id]
            \/ Settled(Logged, manifest.floor, id)
        BY <1>1 DEF IInv, Covered
      <3>2. id \in RowIds(view.mutable) => Settled(Logged, manifest.floor, id)
        BY <1>1 DEF IInv, Covered
      <3> QED
        BY <1>6, <3>1, <3>2
    <2> QED
      BY <2>1, <2>2, <2>3, Restart
  <1>14. OnTrack'
    BY <1>1, <1>2, <1>4 DEF IInv, OnTrack, Shown, Rest
  <1>15. Covered'
    BY <1>1, <1>4, <1>5 DEF IInv, Covered
  <1> QED
    BY <1>7, <1>8, <1>9, <1>10, <1>11, <1>12, <1>13, <1>14, <1>15 DEF IInv

-----------------------------------------------------------------------------
(* Crashes, and open. *)

LEMMA LoseMemoryKeeps ==
    ASSUME IInv, LoseMemory, Logged' = Logged
    PROVE  IInv'
  <1>1. /\ pc' = "down" /\ view' = EmptyView /\ segIds' = <<>> /\ nextSegId' = 0 /\ nextLsn' = 0
        /\ op' = Create /\ todo' = {} /\ fresh' = NoSeg /\ old' = {} /\ records' = <<>>
        /\ UNCHANGED <<manifest, dirs, promised, reused>>
    BY DEF LoseMemory
  <1>2. /\ EmptyView \in View /\ WellFormed(EmptyView) /\ EmptyView.immutables = <<>>
        /\ RowIds(EmptyView.mutable) = {}
    BY EmptyViewFacts DEF EmptyView, RowIds, EmptyMutable
  <1>3. Disk' = Disk
    BY <1>1 DEF Disk, OnDisk
  <1>4. <<>> \in Seq(LogRecord) /\ <<>> \in Seq(Nat) /\ Len(<<>>) = 0 /\ ToSet(<<>>) = {}
    BY DEF ToSet
  <1>5. Types'
    BY <1>1, <1>2, <1>4 DEF IInv, Types, TypeOK, Op, Create, NoSeg, PC
  <1>6. Phases'
    BY <1>1 DEF Phases
  <1>7. Mirror'
    BY <1>1 DEF IInv, Mirror
  <1>8. Published'
    BY <1>1 DEF Published
  <1>9. Views'
    BY <1>1, <1>2, <1>3 DEF IInv, Views
  <1>10. Lsns'
    BY <1>1 DEF IInv, Lsns, LsnsIncrease, Logged
  <1>11. Kept'
    BY <1>1, <1>3 DEF IInv, Kept
  <1>12. OnTrack'
    BY <1>1 DEF OnTrack
  <1>13. Covered'
    BY <1>1, <1>2, <1>4 DEF Covered
  <1> QED
    BY <1>5, <1>6, <1>7, <1>8, <1>9, <1>10, <1>11, <1>12, <1>13 DEF IInv

LEMMA CrashKeeps ==
    ASSUME IInv, Crash \/ CrashInAppend
    PROVE  IInv'
  <1>1. CASE Crash
    <2>1. LoseMemory /\ Logged' = Logged
      BY <1>1 DEF Crash, Logged
    <2> QED
      BY <2>1, LoseMemoryKeeps
  <1>2. CASE CrashInAppend
    <2>1. pc = "ready" /\ LoseMemory /\ walFile' = Append(walFile, Torn)
      BY <1>2 DEF CrashInAppend
    <2>2. walFile = Logged /\ Logged \in Seq(LogRecord)
      BY <2>1 DEF IInv, Types, Lsns
    <2>3. Intact(Append(Logged, Torn)) = Logged
      BY <2>2, IntactOfTorn
    <2>4. Logged' = Logged
      BY <2>1, <2>2, <2>3 DEF Logged
    <2> QED
      BY <2>1, <2>4, LoseMemoryKeeps
  <1> QED
    BY <1>1, <1>2

LEMMA OpenKeeps ==
    ASSUME IInv, Open
    PROVE  IInv'
  <1>1. /\ pc = "down" /\ walFile' = Logged /\ nextLsn' = NextLsnAtOpen(Logged, manifest.floor)
        /\ ToSet(manifest.segments) \subseteq DOMAIN dirs =>
             /\ view' = OnDisk(manifest.segments) /\ segIds' = manifest.segments
             /\ nextSegId' = Max({0} \cup ToSet(manifest.segments)) + 1
             /\ records' = Logged /\ pc' = "gc"
        /\ UNCHANGED <<manifest, dirs, op, todo, fresh, old, promised, reused>>
    BY DEF Open, Logged, history
  <1>2. ToSet(manifest.segments) \subseteq DOMAIN dirs /\ Distinct(manifest.segments)
    BY DEF IInv, Mirror
  <1>3. /\ pc' = "gc" /\ view' = Disk /\ segIds' = manifest.segments /\ records' = Logged
        /\ nextSegId' = Max({0} \cup ToSet(manifest.segments)) + 1
    BY <1>1, <1>2 DEF Disk
  <1>4. /\ Logged \in Seq(LogRecord) /\ Logged' = Logged /\ walFile' = Logged'
    <2>1. Logged \in Seq(LogRecord)
      BY DEF IInv, Types
    <2>2. Intact(Logged) = Logged
      BY <2>1, IntactOfWhole
    <2>3. Logged' = Intact(walFile')
      BY DEF Logged
    <2> QED
      BY <1>1, <2>1, <2>2, <2>3
  <1>5. /\ nextLsn' \in Nat /\ \A i \in DOMAIN Logged : Logged[i].lsn < nextLsn'
        /\ 0 < nextLsn'
    <2>1. manifest.floor \in Nat
      BY DiskFacts
    <2> QED
      BY <1>1, <1>4, <2>1, LastLsnIsLast
  <1>6. Disk' = Disk
    BY <1>1 DEF Disk, OnDisk
  <1>7. /\ manifest.segments \in Seq(Nat) /\ Disk \in View /\ WellFormed(Disk)
        /\ DOMAIN Disk.immutables = DOMAIN manifest.segments
        /\ Disk.immutables \in Seq(Segment)
        /\ \A i \in DOMAIN manifest.segments : dirs[manifest.segments[i]] = Disk.immutables[i]
        /\ RowIds(Disk.mutable) = {}
    <2>1. manifest.segments \in Seq(Nat) /\ Disk \in View /\ WellFormed(Disk)
      BY DiskFacts
    <2> QED
      BY <2>1 DEF Disk, OnDisk, View, RowIds, EmptyMutable
  <1>8. Len(Disk.immutables) = Len(manifest.segments)
    BY <1>7
  <1>9. nextSegId' \in Nat /\ 0 < nextSegId' /\ \A d \in ToSet(manifest.segments) : d < nextSegId'
    <2> DEFINE m == Max({0} \cup ToSet(manifest.segments))
    <2>1. m \in Nat /\ \A i \in DOMAIN manifest.segments : manifest.segments[i] <= m
      BY <1>7, MaxOfSeq
    <2>2. nextSegId' = m + 1
      BY <1>3
    <2>3. \A i \in DOMAIN manifest.segments : manifest.segments[i] \in Nat
      BY <1>7
    <2> HIDE DEF m
    <2>4. \A i \in DOMAIN manifest.segments : manifest.segments[i] < nextSegId'
      BY <2>1, <2>2, <2>3
    <2> QED
      BY <2>1, <2>2, <2>4 DEF ToSet
  <1>10. fresh = NoSeg /\ old = {}
    BY <1>1 DEF IInv, Phases
  <1>11. Types'
    BY <1>1, <1>3, <1>4, <1>5, <1>7, <1>8, <1>9 DEF IInv, Types, TypeOK, PC
  <1>12. Phases'
    BY <1>1, <1>3, <1>10 DEF Phases
  <1>13. Mirror'
    BY <1>1, <1>2, <1>3, <1>7, <1>9, <1>10 DEF Mirror
  <1>14. Published'
    BY <1>1, <1>3 DEF Published
  <1>15. Views'
    BY <1>3, <1>6, <1>7 DEF Views
  <1>16. Lsns'
    BY <1>4, <1>5 DEF IInv, Lsns, LsnsIncrease, Logged
  <1>17. Kept'
    BY <1>1, <1>4, <1>6 DEF IInv, Kept
  <1>18. OnTrack'
    BY <1>1, <1>3, <1>4 DEF IInv, Kept, OnTrack, Shown, Rest
  <1>19. Covered'
    BY <1>3, <1>4, <1>7 DEF Covered
  <1> QED
    BY <1>11, <1>12, <1>13, <1>14, <1>15, <1>16, <1>17, <1>18, <1>19 DEF IInv

LEMMA GcOrphansKeeps ==
    ASSUME IInv, GcOrphans
    PROVE  IInv'
  <1>1. /\ pc = "gc" /\ pc' = "replay"
        /\ UNCHANGED <<manifest, walFile, view, segIds, nextSegId, nextLsn, op, todo, fresh, old,
                       records, promised, reused>>
    BY DEF GcOrphans, memory, history
  <1>2. /\ DOMAIN dirs' = DOMAIN dirs \cap ToSet(manifest.segments)
        /\ \A d \in DOMAIN dirs' : dirs'[d] = dirs[d]
    BY DEF GcOrphans
  <1>3. manifest.segments = segIds /\ fresh = NoSeg /\ old = {}
    BY <1>1 DEF IInv, Published, Phases
  <1>4. /\ ToSet(segIds) \subseteq DOMAIN dirs /\ Distinct(segIds)
        /\ \A i \in DOMAIN segIds : dirs[segIds[i]] = view.immutables[i]
        /\ \A d \in ToSet(segIds) : d < nextSegId
    BY <1>1 DEF IInv, Mirror
  <1>5. DOMAIN dirs' = ToSet(segIds) /\ \A d \in ToSet(segIds) : dirs'[d] = dirs[d]
    BY <1>2, <1>3, <1>4
  <1>6. Disk' = Disk /\ Logged' = Logged
    <2>1. SegmentsIn(dirs', segIds) = SegmentsIn(dirs, segIds)
      BY <1>5, DiskFacts, SegmentsInSame
    <2> QED
      BY <1>1, <1>3, <2>1, DiskIs DEF Logged
  <1>7. Types'
    <2>1. DOMAIN dirs' \subseteq Nat \ {NoSeg} /\ \A d \in DOMAIN dirs' : dirs'[d] \in Segment
      BY <1>2 DEF IInv, Types, TypeOK
    <2> QED
      BY <1>1, <1>6, <2>1 DEF IInv, Types, TypeOK, PC
  <1>8. Phases'
    BY <1>1, <1>3 DEF Phases
  <1>9. Mirror'
    <2>1. \A i \in DOMAIN segIds : dirs'[segIds[i]] = view.immutables[i]
      BY <1>4, <1>5, DiskFacts
    <2> QED
      BY <1>1, <1>3, <1>4, <1>5, <2>1 DEF IInv, Mirror
  <1>10. Published'
    BY <1>1, <1>3 DEF Published
  <1>11. Views'
    BY <1>1, <1>6 DEF IInv, Views
  <1>12. Lsns'
    BY <1>1, <1>6 DEF IInv, Lsns, LsnsIncrease
  <1>13. Kept'
    BY <1>1, <1>6 DEF IInv, Kept
  <1>14. OnTrack'
    BY <1>1 DEF IInv, OnTrack, Shown, Rest
  <1>15. Covered'
    BY <1>1, <1>6 DEF IInv, Covered
  <1> QED
    BY <1>7, <1>8, <1>9, <1>10, <1>11, <1>12, <1>13, <1>14, <1>15 DEF IInv

(* The first of the records that are left to replay. *)
LEMMA HeadFacts ==
    ASSUME IInv, records # <<>>
    PROVE  /\ Head(records) \in LogRecord /\ Head(records).op \in Op
           /\ Tail(records) \in Seq(LogRecord)
           /\ Head(records) \in ToSet(records)
           /\ ToSet(Tail(records)) \subseteq ToSet(records)
           /\ \E n \in DOMAIN Logged : Logged[n] = Head(records)
  <1>1. records \in Seq(LogRecord)
    BY DEF IInv, Types
  <1>2. /\ Head(records) = records[1] /\ 1 \in DOMAIN records /\ Tail(records) \in Seq(LogRecord)
        /\ Head(records) \in LogRecord
    BY <1>1
  <1>3. /\ DOMAIN Tail(records) = 1..(Len(records) - 1) /\ DOMAIN records = 1..Len(records)
        /\ Len(records) \in Nat
        /\ \A i \in 1..(Len(records) - 1) : Tail(records)[i] = records[i + 1]
    BY <1>1
  <1>4. ToSet(Tail(records)) \subseteq ToSet(records)
    BY <1>3 DEF ToSet
  <1>5. Head(records) \in ToSet(records)
    BY <1>2 DEF ToSet
  <1>6. Head(records) \in ToSet(Logged)
    BY <1>5 DEF IInv, Covered
  <1>7. \E n \in DOMAIN Logged : Logged[n] = Head(records)
    BY <1>6 DEF ToSet
  <1> QED
    BY <1>2, <1>4, <1>5, <1>7 DEF LogRecord

LEMMA ReplaySkipKeeps ==
    ASSUME IInv, ReplaySkip
    PROVE  IInv'
  <1>1. /\ pc = "replay" /\ records # <<>> /\ records' = Tail(records)
        /\ ChangesNothing(Head(records))
        /\ UNCHANGED <<manifest, walFile, dirs, view, segIds, nextSegId, nextLsn, pc, op, todo,
                       fresh, old, promised, reused>>
    BY DEF ReplaySkip, history
  <1>2. /\ Head(records) \in LogRecord /\ records' \in Seq(LogRecord)
        /\ ToSet(records') \subseteq ToSet(records)
    BY <1>1, HeadFacts
  <1>3. Disk' = Disk /\ Logged' = Logged
    BY <1>1 DEF Disk, OnDisk, Logged
  <1>4. Replay(LiveStore(view), Head(records), manifest.floor) = LiveStore(view)
    BY <1>1 DEF ChangesNothing, Replay, Effect, Create
  <1>5. Types'
    BY <1>1, <1>2, <1>3 DEF IInv, Types, TypeOK
  <1>6. Phases'
    BY <1>1 DEF IInv, Phases
  <1>7. Mirror'
    BY <1>1 DEF IInv, Mirror
  <1>8. Published'
    BY <1>1, <1>3 DEF IInv, Published
  <1>9. Views'
    BY <1>1, <1>3 DEF IInv, Views
  <1>10. Lsns'
    BY <1>1, <1>3 DEF IInv, Lsns, LsnsIncrease
  <1>11. Kept'
    BY <1>1, <1>3 DEF IInv, Kept
  <1>12. OnTrack'
    <2> SUFFICES ASSUME ~reused PROVE OnTrack'
      BY <1>1 DEF OnTrack
    <2>1. RecoversTo(LiveStore(view), records, manifest.floor, promised)
      BY <1>1 DEF IInv, OnTrack, Shown, Rest
    <2>2. records \in Seq(LogRecord) /\ LiveStore(view) \in Rows
      BY DiskFacts DEF IInv, Types
    <2>3. RecoversTo(LiveStore(view), Tail(records), manifest.floor, promised)
      BY <1>1, <1>4, <2>1, <2>2, RecoversWithTail
    <2> QED
      BY <1>1, <2>3 DEF OnTrack, Shown, Rest
  <1>13. Covered'
    BY <1>1, <1>2, <1>3 DEF IInv, Covered
  <1> QED
    BY <1>5, <1>6, <1>7, <1>8, <1>9, <1>10, <1>11, <1>12, <1>13 DEF IInv

LEMMA ReplayRecordKeeps ==
    ASSUME IInv, ReplayRecord
    PROVE  IInv'
  <1>1. /\ pc = "replay" /\ pc' = "apply" /\ records # <<>>
        /\ ~Skips(Head(records), manifest.floor) /\ Head(records).op # Create
        /\ op' = Head(records).op
        /\ todo' = IF op'.kind = "upsert" THEN BatchIds(op'.batch) ELSE {}
        /\ UNCHANGED <<manifest, walFile, dirs, view, segIds, nextSegId, nextLsn, fresh, old,
                       records, promised, reused>>
    BY DEF ReplayRecord, Begin, ChangesNothing, history
  <1>2. /\ Head(records) \in LogRecord /\ op' \in Op
        /\ \E n \in DOMAIN Logged : Logged[n] = Head(records)
    BY <1>1, HeadFacts
  <1>3. op' \in ClientOp
    BY <1>1, <1>2 DEF Op, Create
  <1>4. todo' \subseteq Id
    BY <1>1 DEF BatchIds
  <1>5. fresh = NoSeg /\ old = {} /\ manifest.segments = segIds
    BY <1>1 DEF IInv, Phases, Published
  <1>6. Disk' = Disk /\ Logged' = Logged
    BY <1>1 DEF Disk, OnDisk, Logged
  <1>7. Types'
    BY <1>1, <1>2, <1>4, <1>6 DEF IInv, Types, TypeOK, PC
  <1>8. Phases'
    BY <1>1, <1>3, <1>5 DEF Phases
  <1>9. Mirror'
    BY <1>1 DEF IInv, Mirror
  <1>10. Published'
    BY <1>1, <1>5 DEF Published
  <1>11. Views'
    <2>1. op'.kind = "upsert" => BatchIds(op'.batch) \ todo' = {}
      BY <1>1
    <2> QED
      BY <1>1, <1>6, <2>1 DEF IInv, Views
  <1>12. Lsns'
    BY <1>1, <1>6 DEF IInv, Lsns, LsnsIncrease
  <1>13. Kept'
    BY <1>1, <1>6 DEF IInv, Kept
  <1>14. OnTrack'
    <2> SUFFICES ASSUME ~reused PROVE OnTrack'
      BY <1>1 DEF OnTrack
    <2>1. RecoversTo(LiveStore(view), records, manifest.floor, promised)
      BY <1>1 DEF IInv, OnTrack, Shown, Rest
    <2>2. records \in Seq(LogRecord) /\ LiveStore(view) \in Rows
      BY DiskFacts DEF IInv, Types
    <2>3. Replay(LiveStore(view), Head(records), manifest.floor) = Effect(LiveStore(view), op')
      BY <1>1 DEF Replay
    <2>4. RecoversTo(Effect(LiveStore(view), op'), Tail(records), manifest.floor, promised)
      BY <1>1, <2>1, <2>2, <2>3, RecoversWithTail
    <2>5. Shown' = Effect(LiveStore(view), op') /\ Rest' = Tail(records)
      BY <1>1 DEF Shown, Rest
    <2> QED
      BY <1>1, <2>4, <2>5 DEF OnTrack
  <1>15. Covered'
    <2>1. \E n \in DOMAIN Logged : ~Skips(Logged[n], manifest.floor) /\ Logged[n].op = op'
      BY <1>1, <1>2
    <2> QED
      BY <1>1, <1>6, <2>1 DEF IInv, Covered
  <1> QED
    BY <1>7, <1>8, <1>9, <1>10, <1>11, <1>12, <1>13, <1>14, <1>15 DEF IInv

LEMMA ReplayEndKeeps ==
    ASSUME IInv, ReplayEnd
    PROVE  IInv'
  <1>1. /\ pc = "replay" /\ pc' = "ready" /\ records = <<>>
        /\ UNCHANGED <<manifest, walFile, dirs, view, segIds, nextSegId, nextLsn, op, todo, fresh,
                       old, records, promised, reused>>
    BY DEF ReplayEnd, memory, history
  <1>2. Disk' = Disk /\ Logged' = Logged
    BY <1>1 DEF Disk, OnDisk, Logged
  <1>3. Types'
    BY <1>1, <1>2 DEF IInv, Types, TypeOK, PC
  <1>4. Phases'
    BY <1>1 DEF IInv, Phases
  <1>5. Mirror'
    BY <1>1 DEF IInv, Mirror
  <1>6. Published'
    BY <1>1 DEF IInv, Published
  <1>7. Views'
    BY <1>1, <1>2 DEF IInv, Views
  <1>8. Lsns'
    BY <1>1, <1>2 DEF IInv, Lsns, LsnsIncrease
  <1>9. Kept'
    BY <1>1, <1>2 DEF IInv, Kept
  <1>10. OnTrack'
    BY <1>1 DEF IInv, OnTrack, Shown, Rest
  <1>11. Covered'
    BY <1>1, <1>2 DEF IInv, Covered
  <1> QED
    BY <1>3, <1>4, <1>5, <1>6, <1>7, <1>8, <1>9, <1>10, <1>11 DEF IInv

LEMMA StutterKeeps ==
    ASSUME IInv, UNCHANGED vars
    PROVE  IInv'
  <1>1. UNCHANGED <<manifest, walFile, dirs, view, segIds, nextSegId, nextLsn, pc, op, todo, fresh,
                    old, records, promised, reused>>
    BY DEF vars, memory, history
  <1>2. Disk' = Disk /\ Logged' = Logged /\ Shown' = Shown /\ Rest' = Rest
    BY <1>1 DEF Disk, OnDisk, Logged, Shown, Rest
  <1>3. Types' /\ Phases' /\ Mirror' /\ Published'
    <2>1. Types'
      BY <1>1, <1>2 DEF IInv, Types, TypeOK
    <2>2. Phases'
      BY <1>1 DEF IInv, Phases
    <2>3. Mirror'
      BY <1>1 DEF IInv, Mirror
    <2>4. Published'
      BY <1>1, <1>2 DEF IInv, Published
    <2> QED
      BY <2>1, <2>2, <2>3, <2>4
  <1>4. Views' /\ Kept' /\ OnTrack'
    BY <1>1, <1>2 DEF IInv, Views, Kept, OnTrack
  <1>5. Lsns' /\ Covered'
    BY <1>1, <1>2 DEF IInv, Lsns, LsnsIncrease, Covered
  <1> QED
    BY <1>3, <1>4, <1>5 DEF IInv

LEMMA NextKeeps == IInv /\ [Next]_vars => IInv'
  <1> SUFFICES ASSUME IInv, [Next]_vars PROVE IInv'
    OBVIOUS
  <1>1. ASSUME NEW o \in Ops, Log(o) PROVE IInv'
    BY <1>1, LogKeeps
  <1>2. CASE FlushWrite
    BY <1>2, FlushWriteKeeps
  <1>3. CASE CompactWrite
    BY <1>3, CompactWriteKeeps
  <1>4. CASE Step
    <2>1. ASSUME NEW id \in Id, UpsertOne(id) PROVE IInv'
      BY <2>1, UpsertOneKeeps
    <2>2. ASSUME NEW i \in DOMAIN segIds, EditSegment(i) PROVE IInv'
      BY <2>2, EditSegmentKeeps
    <2>3. ASSUME NEW id \in old, Clean(id) PROVE IInv'
      BY <2>3, CleanKeeps
    <2>4. CASE EditsDone
      BY <2>4, EditsDoneKeeps
    <2>5. CASE RebuildSkip \/ RebuildWrite \/ RebuildPublish
      BY <2>5, RebuildSkipKeeps, RebuildWriteKeeps, RebuildPublishKeeps
    <2>6. CASE FlushPublish \/ FlushReset \/ FlushSwap
      BY <2>6, FlushPublishKeeps, FlushResetKeeps, FlushSwapKeeps
    <2>7. CASE CompactPublish
      BY <2>7, CompactPublishKeeps
    <2>8. CASE Open \/ GcOrphans
      BY <2>8, OpenKeeps, GcOrphansKeeps
    <2>9. CASE ReplaySkip \/ ReplayRecord \/ ReplayEnd
      BY <2>9, ReplaySkipKeeps, ReplayRecordKeeps, ReplayEndKeeps
    <2> QED
      BY <1>4, <2>1, <2>2, <2>3, <2>4, <2>5, <2>6, <2>7, <2>8, <2>9 DEF Step
  <1>5. CASE Crash \/ CrashInAppend
    BY <1>5, CrashKeeps
  <1>6. CASE Read \/ UNCHANGED vars
    BY <1>6, StutterKeeps DEF Read
  <1> QED
    BY <1>1, <1>2, <1>3, <1>4, <1>5, <1>6 DEF Next

-----------------------------------------------------------------------------
(* The theorems. *)

(* Every reachable state, the ones a crash leaves included, satisfies the  *)
(* inductive invariant.                                                    *)
THEOREM WritePathInvariant == Spec => []IInv
  <1>1. Init => IInv
    BY InitHolds
  <1>2. IInv /\ [Next]_vars => IInv'
    BY NextKeeps
  <1> QED
    BY <1>1, <1>2, PTL DEF Spec

(* Every variable of the write path stays in its type. *)
THEOREM WritePathTypes == Spec => []TypeOK
  <1>1. IInv => TypeOK
    BY DEF IInv, Types
  <1> QED
    BY <1>1, WritePathInvariant, PTL

(* No crash, at any step of a flush, a compaction or a rebuild, leaves a   *)
(* manifest that names a missing directory (open of engine.rs never fails  *)
(* on one), and a segment is never written over a directory that exists.   *)
THEOREM ManifestNamesExistingSegments == Spec => []SegmentsAreThere
  <1>1. IInv => SegmentsAreThere
    BY DEF IInv, Mirror, SegmentsAreThere
  <1> QED
    BY <1>1, WritePathInvariant, PTL

(* The manifest lists a segment once: what rebuild_segment_locked drops    *)
(* with retain is one entry.                                               *)
THEOREM SegmentsAreListedOnce == Spec => []Distinct(manifest.segments)
  <1>1. IInv => Distinct(manifest.segments)
    BY DEF IInv, Mirror
  <1> QED
    BY <1>1, WritePathInvariant, PTL

(* Between calls the manifest and the directories are those of the         *)
(* segments in memory: every flush, compaction, rebuild and recovery has   *)
(* written all it changed and removed all it replaced.                     *)
THEOREM MemoryIsMirrored == Spec => []DiskMirrorsMemory
  <1>1. IInv => DiskMirrorsMemory
    <2> SUFFICES ASSUME IInv, pc = "ready" PROVE DiskMirrorsMemory
      BY DEF DiskMirrorsMemory
    <2>1. fresh = NoSeg /\ old = {} /\ manifest.segments = segIds
      BY DEF IInv, Phases, Published
    <2>2. /\ DOMAIN dirs = ToSet(segIds)
          /\ \A i \in DOMAIN segIds : dirs[segIds[i]] = view.immutables[i]
      BY <2>1 DEF IInv, Mirror
    <2> QED
      BY <2>1, <2>2 DEF DiskMirrorsMemory
  <1> QED
    BY <1>1, WritePathInvariant, PTL

(* The views that a replay over partly written segments goes through hold  *)
(* one live row per id at most.                                            *)
THEOREM RecoveryKeepsViewsWellFormed == Spec => []RecoveredViewsAreWellFormed
  <1>1. IInv => RecoveredViewsAreWellFormed
    BY DEF IInv, Views, RecoveredViewsAreWellFormed
  <1> QED
    BY <1>1, WritePathInvariant, PTL

(* Wal::append and Wal::open never put an LSN behind one that is not       *)
(* smaller, a reset of the log and a torn frame included.                  *)
THEOREM LogIsOrdered == Spec => []LsnsIncrease
  <1>1. IInv => LsnsIncrease
    BY DEF IInv, Lsns
  <1> QED
    BY <1>1, WritePathInvariant, PTL

(* What open would recover, were the process to die now, is what the       *)
(* logged operations made, at every step of every call and of recovery     *)
(* itself, for any operations and any number of crashes: unless an append  *)
(* has been given an LSN at or below last_flushed_lsn.                     *)
THEOREM NothingLoggedIsLost == Spec => []DurableUnlessLsnReused
  <1>1. IInv => DurableUnlessLsnReused
    <2> SUFFICES ASSUME IInv, ~reused PROVE Recovered = promised
      BY DEF DurableUnlessLsnReused, Durable
    <2>1. RecoversTo(LiveStore(Disk), Logged, manifest.floor, promised)
      BY DEF IInv, Kept
    <2>2. Disk \in View /\ WellFormed(Disk) /\ Logged \in Seq(LogRecord)
      BY DiskFacts DEF IInv, Types
    <2> QED
      BY <2>1, <2>2, RecoveredIs
  <1> QED
    BY <1>1, WritePathInvariant, PTL

(* Between calls, and after a recovery from a crash at any step, the       *)
(* collection shows what the logged operations made, with the same         *)
(* exception.                                                              *)
THEOREM CollectionShowsTheLog == Spec => []ShowsWhatWasLogged
  <1>1. IInv => ShowsWhatWasLogged
    <2> SUFFICES ASSUME IInv, pc = "ready", ~reused PROVE LiveStore(view) = promised
      BY DEF ShowsWhatWasLogged
    <2>1. Shown = LiveStore(view) /\ Rest = <<>>
      BY DEF IInv, Phases, Shown, Rest
    <2>2. RecoversTo(LiveStore(view), <<>>, manifest.floor, promised)
      BY <2>1 DEF IInv, OnTrack
    <2> QED
      BY <2>2, DiskFacts, RecoversFromNothing
  <1> QED
    BY <1>1, WritePathInvariant, PTL
=============================================================================
