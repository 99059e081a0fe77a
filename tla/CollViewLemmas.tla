--------------------------- MODULE CollViewLemmas ---------------------------
(***************************************************************************)
(* What the operators of Segments and CollView do, for every set of ids    *)
(* and rows and every view: their types, that at most one row per id is    *)
(* live before and after, and what they change of the rows a lookup finds. *)
(* The proofs about the modules that use these operators rest on them.     *)
(***************************************************************************)
EXTENDS CollView, SequencesExt, SequenceTheorems, FiniteSetTheorems, TLAPS

(***************************************************************************)
(* Naturals.  The prover has no induction over an arbitrary predicate; the *)
(* set of the numbers that have the property serves as well.               *)
(***************************************************************************)

(* The intervals 0..x are well-founded by inclusion, hence the numbers. *)
LEMMA LeastExists ==
    ASSUME NEW T \in SUBSET Nat, T # {}
    PROVE  \E x \in T : \A y \in T : x <= y
  <1> DEFINE U == {0..x : x \in T}
  <1>1. U \in SUBSET FiniteSubsetsOf(Nat)
    <2>1. \A x \in T : IsFiniteSet(0..x) /\ 0..x \in SUBSET Nat
      BY FS_Interval
    <2> QED
      BY <2>1 DEF FiniteSubsetsOf
  <1>2. IsWellFoundedOn(StrictSubsetOrdering(Nat), FiniteSubsetsOf(Nat))
    BY FS_StrictSubsetOrderingWellFounded
  <1>3. U # {}
    OBVIOUS
  <1> HIDE DEF U
  <1>4. \E a \in U : \A b \in U : ~(<<b, a>> \in StrictSubsetOrdering(Nat))
    BY <1>1, <1>2, <1>3, WFMin, Zenon
  <1>5. PICK a \in U : \A b \in U : ~(<<b, a>> \in StrictSubsetOrdering(Nat))
    BY <1>4
  <1>6. PICK x \in T : a = 0..x
    BY DEF U
  <1>7. ASSUME NEW y \in T, y < x PROVE FALSE
    <2>1. 0..y \in U
      BY DEF U
    <2>2. ~(<<0..y, 0..x>> \in StrictSubsetOrdering(Nat))
      BY <2>1, <1>5, <1>6
    <2>3. 0..y \in SUBSET Nat /\ 0..x \in SUBSET Nat
      OBVIOUS
    <2>4. x \in 0..x /\ x \notin 0..y /\ 0..y \subseteq 0..x
      BY <1>7
    <2> QED
      BY <2>2, <2>3, <2>4 DEF StrictSubsetOrdering
  <1> QED
    BY <1>7

LEMMA InductionOnSet ==
    ASSUME NEW S \in SUBSET Nat, 0 \in S, \A n \in S : n + 1 \in S
    PROVE  S = Nat
  <1>1. SUFFICES ASSUME Nat \ S # {} PROVE FALSE
    OBVIOUS
  <1>2. PICK x \in Nat \ S : \A y \in Nat \ S : x <= y
    BY <1>1, LeastExists
  <1>3. x - 1 \in S
    BY <1>2
  <1> QED
    BY <1>2, <1>3

(* A loop is understood when its state after each iteration is. *)
LEMMA LoopInduction ==
    ASSUME NEW n \in Nat, NEW S, 0 \in S, \A k \in 0..(n - 1) : k \in S => k + 1 \in S
    PROVE  \A k \in 0..n : k \in S
  <1> DEFINE N == {k \in Nat : k <= n => k \in S}
  <1>1. N \in SUBSET Nat /\ 0 \in N
    OBVIOUS
  <1>2. \A k \in N : k + 1 \in N
    OBVIOUS
  <1>3. \A k \in N : k <= n => k \in S
    OBVIOUS
  <1> HIDE DEF N
  <1>4. N = Nat
    BY <1>1, <1>2, InductionOnSet
  <1> QED
    BY <1>3, <1>4

(* What a recursive function on 0..n goes through: each step makes one     *)
(* value out of the one before.                                            *)
AreSteps(step, n, T) == \A k \in 1..n : \A t \in T : step[k][t] \in T

IsRun(c, step, n, a, T) ==
    c \in [0..n -> T] /\ c[0] = a /\ \A k \in 1..n : c[k] = step[k][c[k - 1]]

LEMMA StepsExist ==
    ASSUME NEW T, NEW n \in Nat, NEW a \in T, NEW step, AreSteps(step, n, T)
    PROVE  \E c : IsRun(c, step, n, a, T)
  <1> DEFINE Part(m) == \E c \in [0..m -> T] : c[0] = a /\ \A k \in 1..m : c[k] = step[k][c[k - 1]]
             S == {m \in 0..n : Part(m)}
  <1>1. 0 \in S
    <2>1. [k \in 0..0 |-> a] \in [0..0 -> T]
      OBVIOUS
    <2>2. Part(0)
      <3> WITNESS [k \in 0..0 |-> a] \in [0..0 -> T]
      <3> QED
        OBVIOUS
    <2> QED
      BY <2>2
  <1>2. ASSUME NEW m \in 0..(n - 1), m \in S PROVE m + 1 \in S
    <2>1. PICK c \in [0..m -> T] : c[0] = a /\ \A k \in 1..m : c[k] = step[k][c[k - 1]]
      BY <1>2
    <2>2. m \in Nat /\ m + 1 \in 1..n /\ m + 1 \in 0..n /\ c[m] \in T
      OBVIOUS
    <2>3. step[m + 1][c[m]] \in T
      BY <2>2 DEF AreSteps
    <2> DEFINE d == [k \in 0..(m + 1) |-> IF k <= m THEN c[k] ELSE step[m + 1][c[m]]]
    <2>4. d \in [0..(m + 1) -> T] /\ d[0] = a
      BY <2>1, <2>2, <2>3
    <2>5. ASSUME NEW k \in 1..(m + 1) PROVE d[k] = step[k][d[k - 1]]
      <3>1. CASE k = m + 1
        <4>1. d[k] = step[m + 1][c[m]] /\ d[k - 1] = c[m]
          BY <2>2, <3>1
        <4> QED
          BY <3>1, <4>1
      <3>2. CASE k # m + 1
        <4>1. k \in 1..m /\ d[k] = c[k] /\ d[k - 1] = c[k - 1]
          BY <2>2, <3>2
        <4> QED
          BY <2>1, <4>1
      <3> QED
        BY <3>1, <3>2
    <2> HIDE DEF d
    <2>6. Part(m + 1)
      BY <2>4, <2>5
    <2> QED
      BY <2>2, <2>6
  <1>3. n \in S => Part(n)
    OBVIOUS
  <1> HIDE DEF S
  <1>4. \A m \in 0..n : m \in S
    BY <1>1, <1>2, LoopInduction
  <1>5. n \in 0..n
    OBVIOUS
  <1> QED
    BY <1>3, <1>4, <1>5 DEF IsRun

LEMMA GreatestExists ==
    ASSUME NEW T \in SUBSET Nat, T # {}, NEW n \in Nat, \A t \in T : t <= n
    PROVE  \E m \in T : \A t \in T : t <= m
  <1> DEFINE U == {d \in Nat : \E t \in T : d = n - t}
  <1>1. \A t \in T : t \in Nat /\ n - t \in U
    OBVIOUS
  <1>2. U # {} /\ U \in SUBSET Nat
    BY <1>1
  <1>3. \A d \in U : \E t \in T : d = n - t
    OBVIOUS
  <1> HIDE DEF U
  <1>4. PICK d \in U : \A e \in U : d <= e
    BY <1>2, LeastExists
  <1>5. PICK m \in T : d = n - m
    BY <1>3
  <1>6. \A t \in T : n - m <= n - t
    BY <1>1, <1>4, <1>5
  <1>7. \A t \in T : t <= m
    BY <1>1, <1>6
  <1> QED
    BY <1>7

LEMMA MaxIsGreatest ==
    ASSUME NEW T \in SUBSET Nat, T # {}, NEW n \in Nat, \A t \in T : t <= n
    PROVE  Max(T) \in T /\ \A t \in T : t <= Max(T)
  <1>1. PICK m \in T : \A t \in T : t <= m
    BY GreatestExists
  <1>2. \A x, y \in T : (x >= y) <=> (y <= x)
    OBVIOUS
  <1>3. \E x \in T : \A y \in T : x >= y
    BY <1>1, <1>2
  <1>4. Max(T) \in T /\ \A y \in T : Max(T) >= y
    BY <1>3 DEF Max
  <1> QED
    BY <1>2, <1>4

LEMMA MaxIs ==
    ASSUME NEW T \in SUBSET Nat, NEW n \in T, \A t \in T : t <= n
    PROVE  Max(T) = n
  <1>1. n \in Nat /\ T # {}
    OBVIOUS
  <1>2. Max(T) \in T /\ \A t \in T : t <= Max(T)
    BY <1>1, MaxIsGreatest
  <1>3. Max(T) \in Nat /\ n <= Max(T) /\ Max(T) <= n
    BY <1>2
  <1> QED
    BY <1>1, <1>3

LEMMA MinIsLeast ==
    ASSUME NEW T \in SUBSET Nat, T # {}
    PROVE  Min(T) \in T /\ \A t \in T : Min(T) <= t
  <1>1. \E x \in T : \A y \in T : x <= y
    BY LeastExists
  <1> QED
    BY <1>1 DEF Min

-----------------------------------------------------------------------------
(* Sequences of numbers. *)

LEMMA SeqIsBounded ==
    ASSUME NEW s \in Seq(Nat)
    PROVE  \E n \in Nat : \A i \in DOMAIN s : s[i] <= n
  <1> DEFINE S == {k \in Nat : k <= Len(s) => \E n \in Nat : \A i \in 1..k : s[i] <= n}
  <1>1. 0 \in S
    OBVIOUS
  <1>2. ASSUME NEW k \in S PROVE k + 1 \in S
    <2>1. SUFFICES ASSUME k + 1 <= Len(s)
                   PROVE  \E n \in Nat : \A i \in 1..(k + 1) : s[i] <= n
      OBVIOUS
    <2>2. PICK n \in Nat : \A i \in 1..k : s[i] <= n
      BY <2>1
    <2>3. s[k + 1] \in Nat /\ \A i \in 1..k : s[i] \in Nat
      BY <2>1
    <2>4. n + s[k + 1] \in Nat /\ \A i \in 1..(k + 1) : s[i] <= n + s[k + 1]
      <3>1. k \in Nat /\ \A i \in 1..(k + 1) : i \in 1..k \/ i = k + 1
        OBVIOUS
      <3>2. ASSUME NEW i \in 1..k PROVE s[i] <= n + s[k + 1]
        <4>1. s[i] <= n /\ s[i] \in Nat
          BY <2>2, <2>3
        <4> QED
          BY <2>3, <4>1
      <3>3. s[k + 1] <= n + s[k + 1]
        BY <2>3
      <3> QED
        BY <2>3, <3>1, <3>2, <3>3
    <2> QED
      BY <2>4
  <1>3. S \in SUBSET Nat
    OBVIOUS
  <1>4. ASSUME Len(s) \in S PROVE \E n \in Nat : \A i \in DOMAIN s : s[i] <= n
    <2>1. Len(s) \in Nat /\ Len(s) <= Len(s)
      OBVIOUS
    <2>2. PICK n \in Nat : \A i \in 1..Len(s) : s[i] <= n
      BY <1>4, <2>1
    <2>3. \A i \in DOMAIN s : s[i] <= n
      BY <2>2
    <2> QED
      BY <2>3
  <1>5. Len(s) \in Nat
    OBVIOUS
  <1> HIDE DEF S
  <1>6. \A k \in S : k + 1 \in S
    BY <1>2
  <1>7. S = Nat
    BY <1>1, <1>3, <1>6, InductionOnSet
  <1> QED
    BY <1>4, <1>5, <1>7

LEMMA MaxOfSeq ==
    ASSUME NEW s \in Seq(Nat)
    PROVE  /\ Max({0} \cup ToSet(s)) \in Nat
           /\ \A i \in DOMAIN s : s[i] <= Max({0} \cup ToSet(s))
  <1>1. PICK n \in Nat : \A i \in DOMAIN s : s[i] <= n
    BY SeqIsBounded
  <1> DEFINE T == {0} \cup ToSet(s)
  <1>2. T \in SUBSET Nat /\ T # {} /\ (\A t \in T : t <= n) /\ (\A i \in DOMAIN s : s[i] \in T)
    BY <1>1 DEF ToSet
  <1> HIDE DEF T
  <1>3. Max(T) \in T /\ \A t \in T : t <= Max(T)
    BY <1>2, MaxIsGreatest
  <1> QED
    BY <1>2, <1>3 DEF T

-----------------------------------------------------------------------------
(* What the calls of PointStore make of a map from ids to rows. *)
AfterUpsert(s, batch) == [id \in Id |-> IF batch[id] # NoRow THEN batch[id] ELSE s[id]]
AfterDelete(s, ids) == [id \in Id |-> IF id \in ids THEN NoRow ELSE s[id]]
AfterSetPayload(s, ids, payload) ==
    [id \in Id |-> IF id \in ids /\ s[id] # NoRow
                     THEN [s[id] EXCEPT !.payload = payload] ELSE s[id]]

-----------------------------------------------------------------------------
(* Types: each critical section of the view yields a view. *)

LEMMA RebuildsAreSegments ==
    ASSUME NEW m \in Mutable
    PROVE  SegmentOf(m) \in Segment
  BY DEF Mutable, Segment, SegmentOf

LEMMA EmptyMutableType == EmptyMutable \in Mutable
  BY DEF EmptyMutable, Mutable, Rows, OptRow

LEMMA MutableUpsertType ==
    ASSUME NEW m \in Mutable, NEW batch \in Batch
    PROVE  MutableUpsert(m, batch) \in Mutable
  BY DEF Mutable, MutableUpsert, Batch, Rows, BatchIds

LEMMA MutableDeleteType ==
    ASSUME NEW m \in Mutable, NEW ids \in SUBSET Id
    PROVE  MutableDelete(m, ids) \in Mutable
  BY DEF Mutable, MutableDelete

LEMMA MutableSetPayloadType ==
    ASSUME NEW m \in Mutable, NEW ids \in SUBSET Id, NEW payload \in OptPayload
    PROVE  MutableSetPayload(m, ids, payload) \in Mutable
  <1>1. \A id \in Id : m.rows[id] # NoRow => [m.rows[id] EXCEPT !.payload = payload] \in Row
    BY DEF Mutable, Rows, OptRow, Row
  <1> QED
    BY <1>1 DEF Mutable, MutableSetPayload, Rows, OptRow, Alive

LEMMA TombstoneManyType ==
    ASSUME NEW seg \in Segment, NEW ids \in SUBSET Id
    PROVE  TombstoneMany(seg, ids) \in Segment
  BY DEF Segment, TombstoneMany

LEMMA SetOverlayBatchType ==
    ASSUME NEW seg \in Segment, NEW ids \in SUBSET Id, NEW payload \in OptPayload
    PROVE  SetOverlayBatch(seg, ids, payload) \in Segment
  BY DEF Segment, SetOverlayBatch

LEMMA PointOfType ==
    ASSUME NEW seg \in Segment, NEW id \in Id, seg.rows[id] # NoRow
    PROVE  PointOf(seg, id) \in Row
  <1>1. seg.rows[id] \in Row
    BY DEF Segment, Rows, OptRow
  <1>2. seg.overlay[id] \in OptPayload \cup {NoOverlay}
    BY DEF Segment
  <1> QED
    BY <1>1, <1>2 DEF PointOf, Row

LEMMA LiveRowsType ==
    ASSUME NEW seg \in Segment
    PROVE  LiveRows(seg) \in Rows
  BY PointOfType DEF LiveRows, Rows, OptRow, Alive

LEMMA HolderIsPosition ==
    ASSUME NEW v \in View, NEW id
    PROVE  Holders(v, id) \subseteq 1..Len(v.immutables)
  BY DEF Holders, View

LEMMA MaxOfSingleton ==
    ASSUME NEW S, NEW i \in Int, S = {i}
    PROVE  Max(S) = i
  BY DEF Max

LEMMA EmptyViewType == EmptyView \in View
  BY EmptyMutableType DEF EmptyView, View

(* Editing the segments of a list one by one leaves a list of segments. *)
LEMMA EditedSegments ==
    ASSUME NEW v \in View, NEW f, DOMAIN f = DOMAIN v.immutables,
           f = [i \in DOMAIN v.immutables |-> f[i]],
           \A i \in DOMAIN v.immutables : f[i] \in Segment
    PROVE  f \in Seq(Segment)
  <1>1. DOMAIN v.immutables = 1..Len(v.immutables) /\ Len(v.immutables) \in Nat
    BY DEF View
  <1>2. f \in [1..Len(v.immutables) -> Segment]
    BY <1>1
  <1> QED
    BY <1>1, <1>2

LEMMA ApplyUpsertType ==
    ASSUME NEW v \in View, NEW batch \in Batch
    PROVE  ApplyUpsert(v, batch) \in View
  <1> DEFINE overridden == BatchIds(batch) \ RowIds(v.mutable)
             segs == [i \in DOMAIN v.immutables |-> TombstoneMany(v.immutables[i], overridden)]
  <1>1. overridden \in SUBSET Id
    BY DEF BatchIds
  <1>2. \A i \in DOMAIN v.immutables : v.immutables[i] \in Segment
    BY DEF View
  <1>3. \A i \in DOMAIN v.immutables : TombstoneMany(v.immutables[i], overridden) \in Segment
    BY <1>1, <1>2, TombstoneManyType
  <1>4. segs \in Seq(Segment)
    BY <1>3, EditedSegments
  <1> QED
    BY <1>4, MutableUpsertType DEF View, ApplyUpsert

LEMMA ApplyDeleteType ==
    ASSUME NEW v \in View, NEW ids \in SUBSET Id
    PROVE  ApplyDelete(v, ids) \in View
  <1> DEFINE elsewhere == {id \in ids : ~Alive(v.mutable, id)}
             OldestIn(i) == {id \in elsewhere : i \in Holders(v, id) /\ i = Min(Holders(v, id))}
             segs == [i \in DOMAIN v.immutables |-> TombstoneMany(v.immutables[i], OldestIn(i))]
  <1>1. \A i : OldestIn(i) \in SUBSET Id
    OBVIOUS
  <1>2. \A i \in DOMAIN v.immutables : v.immutables[i] \in Segment
    BY DEF View
  <1>3. \A i \in DOMAIN v.immutables : TombstoneMany(v.immutables[i], OldestIn(i)) \in Segment
    BY <1>1, <1>2, TombstoneManyType
  <1>4. segs \in Seq(Segment)
    BY <1>3, EditedSegments
  <1> QED
    BY <1>4, MutableDeleteType DEF View, ApplyDelete

LEMMA ApplyPayloadType ==
    ASSUME NEW v \in View, NEW ids \in SUBSET Id, NEW payload \in OptPayload
    PROVE  ApplyPayload(v, ids, payload) \in View
  <1> DEFINE elsewhere == {id \in ids : ~Alive(v.mutable, id)}
             OldestIn(i) == {id \in elsewhere : i \in Holders(v, id) /\ i = Min(Holders(v, id))}
             segs == [i \in DOMAIN v.immutables |->
                        SetOverlayBatch(v.immutables[i], OldestIn(i), payload)]
  <1>1. \A i : OldestIn(i) \in SUBSET Id
    OBVIOUS
  <1>2. \A i \in DOMAIN v.immutables : v.immutables[i] \in Segment
    BY DEF View
  <1>3. \A i \in DOMAIN v.immutables : SetOverlayBatch(v.immutables[i], OldestIn(i), payload) \in Segment
    BY <1>1, <1>2, SetOverlayBatchType
  <1>4. segs \in Seq(Segment)
    BY <1>3, EditedSegments
  <1> QED
    BY <1>4, MutableSetPayloadType DEF View, ApplyPayload

LEMMA ApplyFlushType ==
    ASSUME NEW v \in View, NEW seg \in Segment
    PROVE  ApplyFlush(v, seg) \in View
  BY EmptyMutableType DEF ApplyFlush, View

-----------------------------------------------------------------------------
(* Lookups in a well-formed view. *)

LEMMA HolderFacts ==
    ASSUME NEW v \in View, NEW id \in Id, NEW i \in Holders(v, id)
    PROVE  /\ i \in DOMAIN v.immutables
           /\ i \in 1..Len(v.immutables)
           /\ v.immutables[i] \in Segment
           /\ Alive(v.immutables[i], id)
  BY DEF Holders, View

LEMMA OnlyHolder ==
    ASSUME NEW v \in View, WellFormed(v), NEW id \in Id, NEW i \in Holders(v, id)
    PROVE  /\ Holders(v, id) = {i}
           /\ Max(Holders(v, id)) = i
           /\ Min(Holders(v, id)) = i
           /\ id \notin RowIds(v.mutable)
           /\ ~Alive(v.mutable, id)
           /\ LookupPoint(v, id) = PointOf(v.immutables[i], id)
  <1>1. id \notin RowIds(v.mutable) /\ ~Alive(v.mutable, id)
    BY DEF WellFormed, RowIds, Alive
  <1>2. Holders(v, id) = {i}
    BY DEF WellFormed
  <1>3. i \in Int
    BY HolderFacts
  <1>4. Max(Holders(v, id)) = i /\ Min(Holders(v, id)) = i
    BY <1>2, <1>3 DEF Max, Min
  <1> QED
    BY <1>1, <1>2, <1>4 DEF LookupPoint

LEMMA LookupType ==
    ASSUME NEW v \in View, WellFormed(v)
    PROVE  LiveStore(v) \in Rows
  <1>1. \A id \in Id : LookupPoint(v, id) \in OptRow
    <2> TAKE id \in Id
    <2>1. CASE Alive(v.mutable, id)
      BY <2>1 DEF LookupPoint, View, Mutable, Rows
    <2>2. CASE ~Alive(v.mutable, id) /\ Holders(v, id) = {}
      BY <2>2 DEF LookupPoint, OptRow
    <2>3. ASSUME NEW i \in Holders(v, id) PROVE LookupPoint(v, id) \in OptRow
      BY <2>3, OnlyHolder, HolderFacts, PointOfType DEF Alive, OptRow
    <2> QED
      BY <2>1, <2>2, <2>3
  <1> QED
    BY <1>1 DEF LiveStore, Rows

-----------------------------------------------------------------------------
(* What each critical section does to lookups: upsert. *)

LEMMA TombstoneEffect ==
    ASSUME NEW seg \in Segment, NEW ids \in SUBSET Id, NEW id \in Id
    PROVE  /\ Alive(TombstoneMany(seg, ids), id) <=> Alive(seg, id) /\ id \notin ids
           /\ PointOf(TombstoneMany(seg, ids), id) = PointOf(seg, id)
  BY DEF TombstoneMany, Alive, PointOf, Segment

LEMMA UpsertEffect ==
    ASSUME NEW v \in View, WellFormed(v), NEW batch \in Batch
    PROVE  /\ WellFormed(ApplyUpsert(v, batch))
           /\ LiveStore(ApplyUpsert(v, batch)) = AfterUpsert(LiveStore(v), batch)
  <1> DEFINE w == ApplyUpsert(v, batch)
             overridden == BatchIds(batch) \ RowIds(v.mutable)
  <1>1. w \in View
    BY ApplyUpsertType
  <1>2. overridden \in SUBSET Id
    BY DEF BatchIds
  <1>3. /\ w.mutable = MutableUpsert(v.mutable, batch)
        /\ w.immutables = [i \in DOMAIN v.immutables |-> TombstoneMany(v.immutables[i], overridden)]
    BY DEF ApplyUpsert
  <1>4. \A i \in DOMAIN v.immutables : v.immutables[i] \in Segment
    BY DEF View
  <1>5. \A id \in Id : Holders(w, id) = IF id \in overridden THEN {} ELSE Holders(v, id)
    BY <1>2, <1>3, <1>4, TombstoneEffect DEF Holders
  <1>6. \A id \in Id, i \in DOMAIN v.immutables : PointOf(w.immutables[i], id) = PointOf(v.immutables[i], id)
    BY <1>2, <1>3, <1>4, TombstoneEffect
  <1>7. \A id \in Id :
          /\ id \in RowIds(w.mutable) <=> id \in RowIds(v.mutable) \/ id \in BatchIds(batch)
          /\ id \in BatchIds(batch) => Alive(w.mutable, id) /\ w.mutable.rows[id] = batch[id]
          /\ id \notin BatchIds(batch) =>
               /\ Alive(w.mutable, id) <=> Alive(v.mutable, id)
               /\ w.mutable.rows[id] = v.mutable.rows[id]
    BY <1>3 DEF MutableUpsert, RowIds, BatchIds, Alive, View, Mutable, Rows, Batch
  <1> HIDE DEF w, overridden
  <1>8. WellFormed(w)
    BY <1>5, <1>7 DEF WellFormed, overridden
  <1>9. \A id \in Id : LookupPoint(w, id) = IF batch[id] # NoRow THEN batch[id] ELSE LookupPoint(v, id)
    <2> TAKE id \in Id
    <2>1. CASE id \in BatchIds(batch)
      BY <1>7, <2>1 DEF LookupPoint, BatchIds
    <2>2. CASE id \notin BatchIds(batch) /\ Alive(v.mutable, id)
      BY <1>7, <2>2 DEF LookupPoint, BatchIds
    <2>3. CASE id \notin BatchIds(batch) /\ ~Alive(v.mutable, id)
      <3>1. Holders(w, id) = Holders(v, id) /\ ~Alive(w.mutable, id) /\ batch[id] = NoRow
        BY <1>5, <1>7, <2>3 DEF BatchIds, overridden
      <3>2. CASE Holders(v, id) = {}
        BY <2>3, <3>1, <3>2 DEF LookupPoint
      <3>3. ASSUME NEW i \in Holders(v, id) PROVE LookupPoint(w, id) = LookupPoint(v, id)
        BY <1>1, <1>6, <1>8, <3>1, OnlyHolder, HolderFacts
      <3> QED
        BY <3>1, <3>2, <3>3
    <2> QED
      BY <2>1, <2>2, <2>3
  <1> QED
    BY <1>8, <1>9 DEF w, LiveStore, AfterUpsert

-----------------------------------------------------------------------------
(* Delete. *)

LEMMA DeleteEffect ==
    ASSUME NEW v \in View, WellFormed(v), NEW ids \in SUBSET Id
    PROVE  /\ WellFormed(ApplyDelete(v, ids))
           /\ LiveStore(ApplyDelete(v, ids)) = AfterDelete(LiveStore(v), ids)
  <1> DEFINE w == ApplyDelete(v, ids)
             elsewhere == {id \in ids : ~Alive(v.mutable, id)}
             OldestIn(i) == {id \in elsewhere : i \in Holders(v, id) /\ i = Min(Holders(v, id))}
  <1>1. w \in View
    BY ApplyDeleteType
  <1>2. \A i : OldestIn(i) \in SUBSET Id
    OBVIOUS
  <1>3. /\ w.mutable = MutableDelete(v.mutable, ids)
        /\ w.immutables = [i \in DOMAIN v.immutables |-> TombstoneMany(v.immutables[i], OldestIn(i))]
    BY DEF ApplyDelete
  <1>4. \A i \in DOMAIN v.immutables : v.immutables[i] \in Segment
    BY DEF View
  <1>5. \A id \in Id : \A i \in Holders(v, id) : id \in OldestIn(i) <=> id \in ids
    BY OnlyHolder
  <1>6. \A id \in Id : Holders(w, id) = IF id \in ids THEN {} ELSE Holders(v, id)
    <2> TAKE id \in Id
    <2> HIDE DEF OldestIn
    <2>1. Holders(w, id) = {i \in Holders(v, id) : id \notin OldestIn(i)}
      BY <1>2, <1>3, <1>4, TombstoneEffect DEF Holders
    <2> QED
      BY <1>5, <2>1
  <1>7. \A id \in Id, i \in DOMAIN v.immutables : PointOf(w.immutables[i], id) = PointOf(v.immutables[i], id)
    <2> HIDE DEF OldestIn
    <2> QED
      BY <1>2, <1>3, <1>4, TombstoneEffect
  <1>8. \A id \in Id :
          /\ id \in RowIds(w.mutable) <=> id \in RowIds(v.mutable)
          /\ Alive(w.mutable, id) <=> Alive(v.mutable, id) /\ id \notin ids
          /\ w.mutable.rows[id] = v.mutable.rows[id]
    BY <1>3 DEF MutableDelete, RowIds, Alive, View, Mutable, Rows
  <1> HIDE DEF w, OldestIn
  <1>9. WellFormed(w)
    BY <1>6, <1>8 DEF WellFormed
  <1>10. \A id \in Id : LookupPoint(w, id) = IF id \in ids THEN NoRow ELSE LookupPoint(v, id)
    <2> TAKE id \in Id
    <2>1. CASE id \in ids
      BY <1>6, <1>8, <2>1 DEF LookupPoint
    <2>2. CASE id \notin ids /\ Holders(v, id) = {}
      BY <1>6, <1>8, <2>2 DEF LookupPoint
    <2>3. ASSUME id \notin ids, NEW i \in Holders(v, id)
          PROVE  LookupPoint(w, id) = LookupPoint(v, id)
      BY <1>1, <1>6, <1>7, <1>9, <2>3, OnlyHolder, HolderFacts
    <2> QED
      BY <2>1, <2>2, <2>3
  <1> QED
    BY <1>9, <1>10 DEF w, LiveStore, AfterDelete

-----------------------------------------------------------------------------
(* Payload updates. *)

LEMMA OverlayEffect ==
    ASSUME NEW seg \in Segment, NEW ids \in SUBSET Id, NEW payload \in OptPayload, NEW id \in Id
    PROVE  /\ Alive(SetOverlayBatch(seg, ids, payload), id) <=> Alive(seg, id)
           /\ Alive(seg, id) /\ id \in ids =>
                PointOf(SetOverlayBatch(seg, ids, payload), id) = [PointOf(seg, id) EXCEPT !.payload = payload]
           /\ id \notin ids => PointOf(SetOverlayBatch(seg, ids, payload), id) = PointOf(seg, id)
  <1>1. Alive(seg, id) => seg.rows[id] \in Row
    BY DEF Alive, Segment, Rows, OptRow
  <1>2. payload # NoOverlay
    BY NoOverlayAssumption
  <1>3. DOMAIN seg.overlay = Id
    BY DEF Segment
  <1>4. /\ SetOverlayBatch(seg, ids, payload).rows = seg.rows
        /\ SetOverlayBatch(seg, ids, payload).deleted = seg.deleted
        /\ SetOverlayBatch(seg, ids, payload).overlay[id]
             = IF id \in ids /\ Alive(seg, id) THEN payload ELSE seg.overlay[id]
    BY DEF SetOverlayBatch, Segment
  <1>5. ASSUME Alive(seg, id), id \in ids
        PROVE  PointOf(SetOverlayBatch(seg, ids, payload), id) = [PointOf(seg, id) EXCEPT !.payload = payload]
    BY <1>1, <1>2, <1>4, <1>5 DEF PointOf, Row
  <1> QED
    BY <1>4, <1>5 DEF Alive, PointOf

LEMMA PayloadEffect ==
    ASSUME NEW v \in View, WellFormed(v), NEW ids \in SUBSET Id, NEW payload \in OptPayload
    PROVE  /\ WellFormed(ApplyPayload(v, ids, payload))
           /\ LiveStore(ApplyPayload(v, ids, payload)) = AfterSetPayload(LiveStore(v), ids, payload)
  <1> DEFINE w == ApplyPayload(v, ids, payload)
             elsewhere == {id \in ids : ~Alive(v.mutable, id)}
             OldestIn(i) == {id \in elsewhere : i \in Holders(v, id) /\ i = Min(Holders(v, id))}
  <1>1. w \in View
    BY ApplyPayloadType
  <1>2. \A i : OldestIn(i) \in SUBSET Id
    OBVIOUS
  <1>3. /\ w.mutable = MutableSetPayload(v.mutable, ids, payload)
        /\ w.immutables = [i \in DOMAIN v.immutables |->
                             SetOverlayBatch(v.immutables[i], OldestIn(i), payload)]
    BY DEF ApplyPayload
  <1>4. \A i \in DOMAIN v.immutables : v.immutables[i] \in Segment
    BY DEF View
  <1>5. \A id \in Id : \A i \in Holders(v, id) : id \in OldestIn(i) <=> id \in ids
    BY OnlyHolder
  <1> HIDE DEF OldestIn
  <1>5a. /\ DOMAIN w.immutables = DOMAIN v.immutables
        /\ \A i \in DOMAIN v.immutables :
             w.immutables[i] = SetOverlayBatch(v.immutables[i], OldestIn(i), payload)
    BY <1>3
  <1>5b. \A id \in Id, i \in DOMAIN v.immutables :
          /\ Alive(w.immutables[i], id) <=> Alive(v.immutables[i], id)
          /\ Alive(v.immutables[i], id) /\ id \in OldestIn(i) =>
               PointOf(w.immutables[i], id) = [PointOf(v.immutables[i], id) EXCEPT !.payload = payload]
          /\ id \notin OldestIn(i) => PointOf(w.immutables[i], id) = PointOf(v.immutables[i], id)
    <2> TAKE id \in Id, i \in DOMAIN v.immutables
    <2> DEFINE seg == v.immutables[i]
    <2>1. seg \in Segment /\ OldestIn(i) \in SUBSET Id
      BY <1>2, <1>4
    <2>2. w.immutables[i] = SetOverlayBatch(seg, OldestIn(i), payload)
      BY <1>5a
    <2> HIDE DEF w, seg
    <2>3. /\ Alive(SetOverlayBatch(seg, OldestIn(i), payload), id) <=> Alive(seg, id)
          /\ Alive(seg, id) /\ id \in OldestIn(i) =>
               PointOf(SetOverlayBatch(seg, OldestIn(i), payload), id)
                 = [PointOf(seg, id) EXCEPT !.payload = payload]
          /\ id \notin OldestIn(i) =>
               PointOf(SetOverlayBatch(seg, OldestIn(i), payload), id) = PointOf(seg, id)
      BY <2>1, OverlayEffect
    <2> QED
      BY <2>2, <2>3 DEF seg
  <1>6. \A id \in Id : Holders(w, id) = Holders(v, id)
    <2> HIDE DEF w
    <2> QED
      BY <1>5a, <1>5b DEF Holders
  <1>7. ASSUME NEW id \in Id, NEW i \in Holders(v, id)
        PROVE  PointOf(w.immutables[i], id) = IF id \in ids
                 THEN [PointOf(v.immutables[i], id) EXCEPT !.payload = payload]
                 ELSE PointOf(v.immutables[i], id)
    <2>1. i \in DOMAIN v.immutables /\ v.immutables[i] \in Segment /\ Alive(v.immutables[i], id)
      BY HolderFacts
    <2> QED
      BY <1>5, <1>5b, <2>1
  <1>8. \A id \in Id :
          /\ id \in RowIds(v.mutable) => v.mutable.rows[id] \in Row
          /\ Alive(v.mutable, id) => id \in RowIds(v.mutable)
          /\ w.mutable.rows[id] = IF id \in ids /\ Alive(v.mutable, id)
                                    THEN [v.mutable.rows[id] EXCEPT !.payload = payload]
                                    ELSE v.mutable.rows[id]
          /\ w.mutable.deleted = v.mutable.deleted
    BY <1>3 DEF MutableSetPayload, RowIds, Alive, View, Mutable, Rows, OptRow
  <1>9. \A id \in Id :
          /\ id \in RowIds(w.mutable) <=> id \in RowIds(v.mutable)
          /\ Alive(w.mutable, id) <=> Alive(v.mutable, id)
    <2>1. \A row \in Row : [row EXCEPT !.payload = payload] \in Row
      BY DEF Row
    <2> QED
      BY <1>8, <2>1, NoRowAssumption DEF RowIds, Alive
  <1> HIDE DEF w
  <1>10. WellFormed(w)
    BY <1>6, <1>9 DEF WellFormed
  <1>11. \A id \in Id : LookupPoint(w, id) = IF id \in ids /\ LookupPoint(v, id) # NoRow
                           THEN [LookupPoint(v, id) EXCEPT !.payload = payload]
                           ELSE LookupPoint(v, id)
    <2> TAKE id \in Id
    <2>1. CASE Alive(v.mutable, id)
      BY <1>8, <1>9, <2>1 DEF LookupPoint, Alive
    <2>2. CASE ~Alive(v.mutable, id) /\ Holders(v, id) = {}
      BY <1>6, <1>9, <2>2 DEF LookupPoint
    <2>3. ASSUME NEW i \in Holders(v, id)
          PROVE  LookupPoint(w, id) = IF id \in ids /\ LookupPoint(v, id) # NoRow
                   THEN [LookupPoint(v, id) EXCEPT !.payload = payload]
                   ELSE LookupPoint(v, id)
      <3>1. LookupPoint(v, id) = PointOf(v.immutables[i], id)
        BY OnlyHolder
      <3>2. LookupPoint(w, id) = PointOf(w.immutables[i], id)
        BY <1>1, <1>6, <1>10, OnlyHolder
      <3>3. LookupPoint(v, id) # NoRow
        BY <3>1, HolderFacts, PointOfType, NoRowAssumption DEF Alive
      <3> QED
        BY <1>7, <3>1, <3>2, <3>3
    <2> QED
      BY <2>1, <2>2, <2>3
  <1> QED
    BY <1>10, <1>11 DEF w, LiveStore, AfterSetPayload

-----------------------------------------------------------------------------
(* Flush, compact and rebuild move rows between segments and change no     *)
(* lookup.                                                                 *)

LEMMA WrittenSegment ==
    ASSUME NEW m \in Mutable, NEW id \in Id
    PROVE  /\ SegmentOf(m) \in Segment
           /\ Alive(SegmentOf(m), id) <=> Alive(m, id)
           /\ PointOf(SegmentOf(m), id) = m.rows[id]
  BY DEF SegmentOf, Mutable, Segment, Alive, PointOf

LEMMA EmptyMutableFacts ==
    ASSUME NEW id \in Id
    PROVE  /\ RowIds(EmptyMutable) = {}
           /\ ~Alive(EmptyMutable, id)
  BY DEF EmptyMutable, RowIds, Alive

LEMMA FlushEffect ==
    ASSUME NEW v \in View, WellFormed(v)
    PROVE  /\ ApplyFlush(v, SegmentOf(v.mutable)) \in View
           /\ WellFormed(ApplyFlush(v, SegmentOf(v.mutable)))
           /\ LiveStore(ApplyFlush(v, SegmentOf(v.mutable))) = LiveStore(v)
  <1> DEFINE w == ApplyFlush(v, SegmentOf(v.mutable))
             n == Len(v.immutables)
  <1>1. v.mutable \in Mutable /\ v.immutables \in Seq(Segment) /\ n \in Nat
    BY DEF View
  <1>2. w \in View
    BY <1>1, WrittenSegment, RebuildsAreSegments, ApplyFlushType
  <1>3. /\ w.mutable = EmptyMutable
        /\ DOMAIN w.immutables = 1..(n + 1)
        /\ DOMAIN v.immutables = 1..n
        /\ \A i \in 1..n : w.immutables[i] = v.immutables[i]
        /\ w.immutables[n + 1] = SegmentOf(v.mutable)
    BY <1>1, RebuildsAreSegments DEF ApplyFlush
  <1> HIDE DEF w, n
  <1>4. \A id \in Id : Holders(w, id) = IF Alive(v.mutable, id) THEN {n + 1} ELSE Holders(v, id)
    <2> TAKE id \in Id
    <2>1. \A i \in 1..n : Alive(w.immutables[i], id) <=> Alive(v.immutables[i], id)
      BY <1>3
    <2>2. Alive(w.immutables[n + 1], id) <=> Alive(v.mutable, id)
      BY <1>1, <1>3, WrittenSegment
    <2>3. Alive(v.mutable, id) => Holders(v, id) = {}
      BY DEF WellFormed, RowIds, Alive
    <2>4. 1..(n + 1) = (1..n) \cup {n + 1} /\ n + 1 \notin 1..n
      BY <1>1
    <2>5. Holders(w, id) = Holders(v, id) \cup (IF Alive(v.mutable, id) THEN {n + 1} ELSE {})
      BY <1>3, <2>1, <2>2, <2>4 DEF Holders
    <2> QED
      BY <2>3, <2>5
  <1>5. WellFormed(w)
    BY <1>3, <1>4, EmptyMutableFacts DEF WellFormed
  <1>6. \A id \in Id : LookupPoint(w, id) = LookupPoint(v, id)
    <2> TAKE id \in Id
    <2>0. ~Alive(w.mutable, id)
      BY <1>3, EmptyMutableFacts
    <2>1. CASE Alive(v.mutable, id)
      <3>1. LookupPoint(w, id) = PointOf(w.immutables[n + 1], id)
        BY <1>2, <1>4, <1>5, <2>1, OnlyHolder
      <3> QED
        BY <1>1, <1>3, <2>1, <3>1, WrittenSegment DEF LookupPoint
    <2>2. CASE ~Alive(v.mutable, id) /\ Holders(v, id) = {}
      BY <1>4, <2>0, <2>2 DEF LookupPoint
    <2>3. ASSUME NEW i \in Holders(v, id) PROVE LookupPoint(w, id) = LookupPoint(v, id)
      <3>1. i \in 1..n /\ ~Alive(v.mutable, id)
        BY <1>3, OnlyHolder, HolderFacts
      <3>2. LookupPoint(w, id) = PointOf(w.immutables[i], id)
        BY <1>2, <1>4, <1>5, <3>1, OnlyHolder
      <3> QED
        BY <1>3, <3>1, <3>2, OnlyHolder
    <2> QED
      BY <2>1, <2>2, <2>3
  <1> QED
    BY <1>2, <1>5, <1>6 DEF w, LiveStore

LEMMA MergeIsLiveStore ==
    ASSUME NEW v \in View, WellFormed(v)
    PROVE  /\ Merged(v).rows = LiveStore(v)
           /\ Merged(v).deleted = {}
           /\ Merged(v) \in Mutable
           /\ \A id \in Id : Alive(Merged(v), id) <=> LookupPoint(v, id) # NoRow
  <1>1. \A id \in Id : Merged(v).rows[id] = LookupPoint(v, id)
    <2> TAKE id \in Id
    <2>1. CASE Alive(v.mutable, id)
      BY <2>1 DEF Merged, LookupPoint
    <2>2. CASE ~Alive(v.mutable, id) /\ Holders(v, id) = {}
      BY <2>2 DEF Merged, LookupPoint
    <2>3. ASSUME NEW i \in Holders(v, id) PROVE Merged(v).rows[id] = LookupPoint(v, id)
      <3>1. Max(Holders(v, id)) = i /\ ~Alive(v.mutable, id) /\ Alive(v.immutables[i], id)
        BY OnlyHolder, HolderFacts
      <3>2. Merged(v).rows[id] = LiveRows(v.immutables[i])[id]
        BY <3>1 DEF Merged
      <3> QED
        BY <3>1, <3>2, OnlyHolder DEF LiveRows
    <2> QED
      BY <2>1, <2>2, <2>3
  <1>2. Merged(v).rows = [id \in Id |-> Merged(v).rows[id]] /\ Merged(v).deleted = {}
    BY DEF Merged
  <1>3. Merged(v).rows = LiveStore(v)
    BY <1>1, <1>2 DEF LiveStore
  <1>4. Merged(v) \in Mutable
    BY <1>2, <1>3, LookupType DEF Merged, Mutable
  <1> QED
    BY <1>1, <1>2, <1>3, <1>4 DEF Alive

LEMMA CompactEffect ==
    ASSUME NEW v \in View, WellFormed(v)
    PROVE  /\ ApplyCompact(v) \in View
           /\ WellFormed(ApplyCompact(v))
           /\ LiveStore(ApplyCompact(v)) = LiveStore(v)
  <1> DEFINE w == ApplyCompact(v)
  <1>1. w.mutable = EmptyMutable
    BY DEF ApplyCompact
  <1>2. \A id \in Id : RowIds(w.mutable) = {} /\ ~Alive(w.mutable, id)
    BY <1>1, EmptyMutableFacts
  <1>3. CASE IsEmpty(Merged(v))
    <2>1. w.immutables = <<>>
      BY <1>3 DEF ApplyCompact
    <2>2. w \in View
      BY <1>3, <2>1, EmptyMutableType DEF ApplyCompact, View
    <2>3. \A id \in Id : Holders(w, id) = {}
      BY <2>1 DEF Holders
    <2>4. \A id \in Id : LookupPoint(v, id) = NoRow
      <3>1. \A id \in Id : Merged(v).rows[id] = NoRow
        BY <1>3 DEF IsEmpty, RowIds
      <3>2. \A id \in Id : Merged(v).rows[id] = LookupPoint(v, id)
        BY MergeIsLiveStore DEF LiveStore
      <3> QED
        BY <3>1, <3>2
    <2> HIDE DEF w
    <2>5. \A id \in Id : LookupPoint(w, id) = NoRow
      BY <1>2, <2>3 DEF LookupPoint
    <2>6. WellFormed(w)
      BY <1>2, <2>3 DEF WellFormed
    <2> QED
      BY <2>2, <2>4, <2>5, <2>6 DEF w, LiveStore
  <1>4. CASE ~IsEmpty(Merged(v))
    <2>1. w.immutables = <<SegmentOf(Merged(v))>>
      BY <1>4 DEF ApplyCompact
    <2>2. SegmentOf(Merged(v)) \in Segment
      BY MergeIsLiveStore, RebuildsAreSegments
    <2>3. w \in View
      BY <1>4, <2>1, <2>2, EmptyMutableType DEF ApplyCompact, View
    <2>4. \A id \in Id : Holders(w, id) = IF LookupPoint(v, id) # NoRow THEN {1} ELSE {}
      <3>1. \A id \in Id : Alive(SegmentOf(Merged(v)), id) <=> LookupPoint(v, id) # NoRow
        BY MergeIsLiveStore, WrittenSegment
      <3>2. DOMAIN w.immutables = {1} /\ w.immutables[1] = SegmentOf(Merged(v))
        BY <2>1
      <3> HIDE DEF w
      <3> QED
        BY <3>1, <3>2 DEF Holders
    <2>5. \A id \in Id : PointOf(w.immutables[1], id) = LookupPoint(v, id)
      <3>1. \A id \in Id : PointOf(SegmentOf(Merged(v)), id) = Merged(v).rows[id]
        BY MergeIsLiveStore, WrittenSegment
      <3>2. w.immutables[1] = SegmentOf(Merged(v))
        BY <2>1
      <3> HIDE DEF w
      <3> QED
        BY <3>1, <3>2, MergeIsLiveStore DEF LiveStore
    <2> HIDE DEF w
    <2>6. WellFormed(w)
      BY <1>2, <2>4 DEF WellFormed
    <2>7. \A id \in Id : LookupPoint(w, id) = LookupPoint(v, id)
      <3> TAKE id \in Id
      <3>1. CASE LookupPoint(v, id) = NoRow
        BY <1>2, <2>4, <3>1 DEF LookupPoint
      <3>2. CASE LookupPoint(v, id) # NoRow
        BY <2>3, <2>4, <2>5, <2>6, <3>2, OnlyHolder
      <3> QED
        BY <3>1, <3>2
    <2> QED
      BY <2>3, <2>6, <2>7 DEF w, LiveStore
  <1> QED
    BY <1>3, <1>4

LEMMA RemovedPosition ==
    ASSUME NEW S, NEW s \in Seq(S), NEW k \in 1..Len(s)
    PROVE  /\ RemovePosition(s, k) \in Seq(S)
           /\ DOMAIN RemovePosition(s, k) = 1..(Len(s) - 1)
           /\ \A j \in 1..(Len(s) - 1) :
                RemovePosition(s, k)[j] = IF j < k THEN s[j] ELSE s[j + 1]
  <1> DEFINE front == SubSeq(s, 1, k - 1)
             back == SubSeq(s, k + 1, Len(s))
  <1>1. Len(s) \in Nat /\ \A i \in 1..Len(s) : s[i] \in S
    BY LenProperties, ElementOfSeq
  <1>2. /\ front \in Seq(S)
        /\ Len(front) = k - 1
        /\ \A i \in 1..(k - 1) : front[i] = s[i]
    <2>1. \A i \in 1..(k - 1) : s[i] \in S
      BY <1>1
    <2> QED
      BY <1>1, <2>1, SubSeqProperties
  <1>3. /\ back \in Seq(S)
        /\ Len(back) = Len(s) - k
        /\ \A i \in 1..(Len(s) - k) : back[i] = s[k + i]
    <2>1. \A i \in (k + 1)..Len(s) : s[i] \in S
      BY <1>1
    <2>2. /\ back \in Seq(S)
          /\ Len(back) = IF k + 1 <= Len(s) THEN Len(s) - (k + 1) + 1 ELSE 0
          /\ \A i \in 1..(Len(s) - (k + 1) + 1) : back[i] = s[k + 1 + i - 1]
      BY <1>1, <2>1, SubSeqProperties
    <2> HIDE DEF back
    <2> QED
      BY <1>1, <2>2
  <1>4. RemovePosition(s, k) = front \o back
    BY DEF RemovePosition
  <1> HIDE DEF front, back
  <1>5. /\ RemovePosition(s, k) \in Seq(S)
        /\ Len(RemovePosition(s, k)) = Len(s) - 1
        /\ \A i \in 1..(Len(s) - 1) :
             RemovePosition(s, k)[i] = IF i <= k - 1 THEN front[i] ELSE back[i - (k - 1)]
    <2>1. /\ front \o back \in Seq(S)
          /\ Len(front \o back) = Len(front) + Len(back)
          /\ \A i \in 1..(Len(front) + Len(back)) :
               (front \o back)[i] = IF i <= Len(front) THEN front[i] ELSE back[i - Len(front)]
      BY <1>2, <1>3, ConcatProperties
    <2>2. Len(front) + Len(back) = Len(s) - 1 /\ Len(front) = k - 1
      BY <1>1, <1>2, <1>3
    <2> QED
      BY <1>4, <2>1, <2>2
  <1>6. DOMAIN RemovePosition(s, k) = 1..(Len(s) - 1)
    BY <1>5, LenProperties
  <1>7. \A i \in 1..(Len(s) - 1) : RemovePosition(s, k)[i] = IF i < k THEN s[i] ELSE s[i + 1]
    <2> TAKE i \in 1..(Len(s) - 1)
    <2>1. CASE i < k
      BY <1>1, <1>2, <1>5, <2>1
    <2>2. CASE ~(i < k)
      <3>1. i - (k - 1) \in 1..(Len(s) - k) /\ k + (i - (k - 1)) = i + 1 /\ ~(i <= k - 1)
        BY <1>1, <2>2
      <3>2. back[i - (k - 1)] = s[i + 1]
        BY <1>3, <3>1
      <3> QED
        BY <1>5, <2>2, <3>1, <3>2
    <2> QED
      BY <2>1, <2>2
  <1> QED
    BY <1>5, <1>6, <1>7

LEMMA RebuiltFacts ==
    ASSUME NEW seg \in Segment
    PROVE  /\ Rebuilt(seg) \in Mutable
           /\ SegmentOf(Rebuilt(seg)) \in Segment
           /\ \A id \in Id : Alive(SegmentOf(Rebuilt(seg)), id) <=> Alive(seg, id)
           /\ \A id \in Id : Alive(seg, id) => PointOf(SegmentOf(Rebuilt(seg)), id) = PointOf(seg, id)
           /\ IsEmpty(Rebuilt(seg)) <=> \A id \in Id : ~Alive(seg, id)
  <1>1. Rebuilt(seg) \in Mutable
    BY LiveRowsType DEF Rebuilt, Mutable
  <1>2. \A id \in Id : Rebuilt(seg).rows[id] = IF Alive(seg, id) THEN PointOf(seg, id) ELSE NoRow
    BY DEF Rebuilt, LiveRows
  <1>3. \A id \in Id : Alive(seg, id) => PointOf(seg, id) # NoRow
    BY PointOfType, NoRowAssumption DEF Alive
  <1>4. \A id \in Id : Alive(Rebuilt(seg), id) <=> Alive(seg, id)
    <2>1. Rebuilt(seg).deleted = {}
      BY DEF Rebuilt
    <2>2. \A id \in Id : Alive(Rebuilt(seg), id) <=> Rebuilt(seg).rows[id] # NoRow
      BY <2>1 DEF Alive
    <2> QED
      BY <1>2, <1>3, <2>2
  <1>5. IsEmpty(Rebuilt(seg)) <=> \A id \in Id : ~Alive(seg, id)
    BY <1>2, <1>3 DEF IsEmpty, RowIds
  <1>6. \A id \in Id : /\ Alive(SegmentOf(Rebuilt(seg)), id) <=> Alive(Rebuilt(seg), id)
                      /\ PointOf(SegmentOf(Rebuilt(seg)), id) = Rebuilt(seg).rows[id]
    BY <1>1, WrittenSegment
  <1>7. SegmentOf(Rebuilt(seg)) \in Segment
    BY <1>1, RebuildsAreSegments
  <1>8. \A id \in Id : Alive(seg, id) => PointOf(SegmentOf(Rebuilt(seg)), id) = PointOf(seg, id)
    BY <1>2, <1>6
  <1>9. \A id \in Id : Alive(SegmentOf(Rebuilt(seg)), id) <=> Alive(seg, id)
    BY <1>4, <1>6
  <1> QED
    BY <1>1, <1>5, <1>7, <1>8, <1>9

(* The m segments of w are segments of v, segment j being the one at k[j], *)
(* with the same live rows; every segment of v with a live row is there.   *)
Moved(v, w, m, k) ==
    /\ w.mutable = v.mutable
    /\ DOMAIN w.immutables = 1..m
    /\ k \in [1..m -> DOMAIN v.immutables]
    /\ \A i, j \in 1..m : k[i] = k[j] => i = j
    /\ \A j \in 1..m, id \in Id :
         /\ Alive(w.immutables[j], id) <=> Alive(v.immutables[k[j]], id)
         /\ Alive(w.immutables[j], id) =>
              PointOf(w.immutables[j], id) = PointOf(v.immutables[k[j]], id)
    /\ \A id \in Id : \A i \in Holders(v, id) : \E j \in 1..m : k[j] = i

LEMMA MovedSegments ==
    ASSUME NEW v \in View, WellFormed(v), NEW w \in View, NEW m, NEW k, Moved(v, w, m, k)
    PROVE  WellFormed(w) /\ LiveStore(w) = LiveStore(v)
  <1> USE DEF Moved
  <1>1. \A id \in Id : \A j \in 1..m : j \in Holders(w, id) <=> k[j] \in Holders(v, id)
    BY DEF Holders
  <1>2. WellFormed(w)
    BY <1>1 DEF WellFormed, Holders
  <1>3. \A id \in Id : LookupPoint(w, id) = LookupPoint(v, id)
    <2> TAKE id \in Id
    <2>1. CASE Alive(v.mutable, id)
      BY <2>1 DEF LookupPoint
    <2>2. CASE ~Alive(v.mutable, id) /\ Holders(v, id) = {}
      <3>1. Holders(w, id) = {}
        BY <1>1, <2>2 DEF Holders
      <3> QED
        BY <2>2, <3>1 DEF LookupPoint
    <2>3. ASSUME NEW i \in Holders(v, id) PROVE LookupPoint(w, id) = LookupPoint(v, id)
      <3>1. PICK j \in 1..m : k[j] = i
        OBVIOUS
      <3>2. j \in Holders(w, id)
        BY <1>1, <3>1
      <3>3. LookupPoint(w, id) = PointOf(w.immutables[j], id)
        BY <1>2, <3>2, OnlyHolder
      <3>4. Alive(w.immutables[j], id)
        BY <3>2, HolderFacts
      <3> QED
        BY <3>1, <3>3, <3>4, OnlyHolder
    <2> QED
      BY <2>1, <2>2, <2>3
  <1> QED
    BY <1>2, <1>3 DEF LiveStore

LEMMA RebuildEffect ==
    ASSUME NEW v \in View, WellFormed(v), NEW si
    PROVE  /\ ApplyRebuild(v, si) \in View
           /\ WellFormed(ApplyRebuild(v, si))
           /\ LiveStore(ApplyRebuild(v, si)) = LiveStore(v)
           /\ ApplyRebuild(v, si).mutable = v.mutable
  <1> DEFINE w == ApplyRebuild(v, si)
             n == Len(v.immutables)
             old == v.immutables[si]
  <1>1. /\ v.mutable \in Mutable
        /\ v.immutables \in Seq(Segment)
        /\ DOMAIN v.immutables = 1..n
        /\ n \in Nat
    BY DEF View
  <1>2. CASE si \notin DOMAIN v.immutables
    BY <1>2 DEF ApplyRebuild
  <1>3. CASE si \in DOMAIN v.immutables /\ IsEmpty(Rebuilt(old))
    <2> DEFINE k == [j \in 1..(n - 1) |-> IF j < si THEN j ELSE j + 1]
    <2>0. si \in 1..n /\ old \in Segment
      BY <1>1, <1>3
    <2>1. w = [v EXCEPT !.immutables = RemovePosition(v.immutables, si)]
      BY <1>3 DEF ApplyRebuild
    <2>2. w.mutable = v.mutable /\ w.immutables = RemovePosition(v.immutables, si)
      BY <2>1 DEF View
    <2>3. /\ w.immutables \in Seq(Segment)
          /\ DOMAIN w.immutables = 1..(n - 1)
          /\ \A j \in 1..(n - 1) : w.immutables[j] = v.immutables[k[j]]
      BY <1>1, <2>0, <2>2, RemovedPosition
    <2>4. w \in View
      BY <1>1, <2>1, <2>2, <2>3 DEF View
    <2>5. k \in [1..(n - 1) -> 1..n] /\ \A i, j \in 1..(n - 1) : k[i] = k[j] => i = j
      BY <1>1, <2>0
    <2>6. \A id \in Id : ~Alive(old, id)
      BY <1>3, <2>0, RebuiltFacts
    <2>7. \A id \in Id : \A i \in Holders(v, id) : \E j \in 1..(n - 1) : k[j] = i
      <3> TAKE id \in Id
      <3> TAKE i \in Holders(v, id)
      <3>1. i \in 1..n /\ i # si
        BY <1>1, <2>6, HolderFacts
      <3>2. CASE i < si
        <4>1. i \in 1..(n - 1) /\ k[i] = i
          BY <1>1, <2>0, <3>1, <3>2
        <4> QED
          BY <4>1
      <3>3. CASE i > si
        <4>1. i - 1 \in 1..(n - 1) /\ k[i - 1] = i
          BY <1>1, <2>0, <3>1, <3>3
        <4> QED
          BY <4>1
      <3>4. i < si \/ i > si
        BY <2>0, <3>1
      <3> HIDE DEF k
      <3> QED
        BY <3>2, <3>3, <3>4
    <2> HIDE DEF w, k, n
    <2>8. \A j \in 1..(n - 1), id \in Id :
            /\ Alive(w.immutables[j], id) <=> Alive(v.immutables[k[j]], id)
            /\ Alive(w.immutables[j], id) =>
                 PointOf(w.immutables[j], id) = PointOf(v.immutables[k[j]], id)
      BY <2>3
    <2>9. Moved(v, w, n - 1, k)
      BY <1>1, <2>2, <2>3, <2>5, <2>7, <2>8 DEF Moved
    <2>10. WellFormed(w) /\ LiveStore(w) = LiveStore(v)
      BY <2>4, <2>9, MovedSegments
    <2> QED
      BY <2>2, <2>4, <2>10 DEF w
  <1>4. CASE si \in DOMAIN v.immutables /\ ~IsEmpty(Rebuilt(old))
    <2> DEFINE k == [j \in 1..n |-> j]
    <2>0. si \in 1..n /\ old \in Segment
      BY <1>1, <1>4
    <2>1. w = [v EXCEPT !.immutables = [v.immutables EXCEPT ![si] = SegmentOf(Rebuilt(old))]]
      BY <1>4 DEF ApplyRebuild
    <2>2. w.mutable = v.mutable
          /\ w.immutables = [v.immutables EXCEPT ![si] = SegmentOf(Rebuilt(old))]
      BY <2>1 DEF View
    <2>3. /\ w.immutables \in Seq(Segment)
          /\ DOMAIN w.immutables = 1..n
          /\ \A j \in 1..n : w.immutables[j] = IF j = si THEN SegmentOf(Rebuilt(old)) ELSE v.immutables[j]
      BY <1>1, <2>0, <2>2, RebuiltFacts
    <2>4. w \in View
      BY <1>1, <2>1, <2>2, <2>3 DEF View
    <2>5. /\ k \in [1..n -> 1..n]
          /\ \A i, j \in 1..n : k[i] = k[j] => i = j
          /\ \A j \in 1..n : k[j] = j
      OBVIOUS
    <2> HIDE DEF w, k, n, old
    <2>6. \A j \in 1..n, id \in Id :
            /\ Alive(w.immutables[j], id) <=> Alive(v.immutables[k[j]], id)
            /\ Alive(w.immutables[j], id) =>
                 PointOf(w.immutables[j], id) = PointOf(v.immutables[k[j]], id)
      <3> TAKE j \in 1..n, id \in Id
      <3>1. CASE j = si
        BY <2>0, <2>3, <2>5, <3>1, RebuiltFacts DEF old
      <3>2. CASE j # si
        BY <2>3, <2>5, <3>2
      <3> QED
        BY <3>1, <3>2
    <2>7. \A id \in Id : \A i \in Holders(v, id) : \E j \in 1..n : k[j] = i
      BY <1>1, <2>5, HolderFacts
    <2>8. Moved(v, w, n, k)
      BY <1>1, <2>2, <2>3, <2>5, <2>6, <2>7 DEF Moved
    <2>9. WellFormed(w) /\ LiveStore(w) = LiveStore(v)
      BY <2>4, <2>8, MovedSegments
    <2> QED
      BY <2>2, <2>4, <2>9 DEF w
  <1> QED
    BY <1>2, <1>3, <1>4

-----------------------------------------------------------------------------
(* The view of a new collection. *)

LEMMA EmptyViewFacts ==
    /\ EmptyView \in View
    /\ WellFormed(EmptyView)
    /\ LiveStore(EmptyView) = [id \in Id |-> NoRow]
  <1>1. \A id \in Id : /\ Holders(EmptyView, id) = {}
                      /\ RowIds(EmptyView.mutable) = {}
                      /\ ~Alive(EmptyView.mutable, id)
    BY EmptyMutableFacts DEF EmptyView, Holders
  <1> QED
    BY <1>1, EmptyViewType DEF WellFormed, LiveStore, LookupPoint

-----------------------------------------------------------------------------
(* Lists of segment ids without repetition, and what the manifest and the  *)
(* view do to them.                                                        *)

Distinct(s) == \A i, j \in DOMAIN s : s[i] = s[j] => i = j

PositionIn(s, d) == SelectInSeq(s, LAMBDA x : x = d)

LEMMA PositionOf ==
    ASSUME NEW S, NEW s \in Seq(S), NEW d \in ToSet(s)
    PROVE  PositionIn(s, d) \in DOMAIN s /\ s[PositionIn(s, d)] = d
  <1> DEFINE I == {i \in 1..Len(s) : s[i] = d}
  <1>1. DOMAIN s = 1..Len(s) /\ Len(s) \in Nat
    OBVIOUS
  <1>2. I # {} /\ I \in SUBSET Nat
    BY <1>1 DEF ToSet
  <1>3. Min(I) \in I
    BY <1>2, MinIsLeast
  <1>4. PositionIn(s, d) = Min(I)
    BY <1>2 DEF PositionIn, SelectInSeq
  <1> QED
    BY <1>1, <1>3, <1>4

LEMMA RemovedFirst ==
    ASSUME NEW s \in Seq(Nat), Distinct(s), NEW k \in DOMAIN s
    PROVE  RemoveFirst(s, s[k]) = RemovePosition(s, k)
  <1>1. s[k] \in ToSet(s) /\ DOMAIN s = 1..Len(s)
    BY DEF ToSet
  <1>2. PositionIn(s, s[k]) = k
    BY <1>1, PositionOf DEF Distinct
  <1> QED
    BY <1>1, <1>2 DEF PositionIn, RemoveFirst, RemoveAt, RemovePosition

LEMMA DistinctWithout ==
    ASSUME NEW s \in Seq(Nat), Distinct(s), NEW k \in DOMAIN s
    PROVE  /\ Distinct(RemovePosition(s, k))
           /\ ToSet(RemovePosition(s, k)) = ToSet(s) \ {s[k]}
  <1> DEFINE r == RemovePosition(s, k)
             n == Len(s)
  <1>1. n \in Nat /\ DOMAIN s = 1..n /\ k \in 1..n
    OBVIOUS
  <1>2. DOMAIN r = 1..(n - 1) /\ \A j \in 1..(n - 1) : r[j] = IF j < k THEN s[j] ELSE s[j + 1]
    BY <1>1, RemovedPosition
  <1> HIDE DEF r, n
  <1> DEFINE from(i) == IF i < k THEN i ELSE i + 1
  <1>0. /\ \A i \in DOMAIN r : from(i) \in DOMAIN s /\ from(i) # k /\ r[i] = s[from(i)]
        /\ \A i, j \in DOMAIN r : from(i) = from(j) => i = j
    <2>1. \A i \in DOMAIN r : i \in Nat /\ i \in 1..(n - 1)
      BY <1>1, <1>2
    <2>2. \A i \in DOMAIN r : from(i) \in 1..n /\ from(i) # k
      BY <1>1, <2>1
    <2>3. \A i \in DOMAIN r : r[i] = s[from(i)]
      BY <1>2, <2>1
    <2>4. \A i, j \in DOMAIN r : from(i) = from(j) => i = j
      BY <1>1, <2>1
    <2> QED
      BY <1>1, <2>2, <2>3, <2>4
  <1> HIDE DEF from
  <1>3. ASSUME NEW i \in DOMAIN r, NEW j \in DOMAIN r, r[i] = r[j] PROVE i = j
    BY <1>0, <1>3 DEF Distinct
  <1>4. ASSUME NEW i \in DOMAIN r PROVE r[i] \in ToSet(s) \ {s[k]}
    BY <1>0 DEF Distinct, ToSet
  <1>5. ASSUME NEW d \in ToSet(s) \ {s[k]} PROVE d \in ToSet(r)
    <2>1. PICK i \in DOMAIN s : d = s[i] /\ i # k
      BY DEF ToSet
    <2>2. CASE i < k
      BY <1>1, <1>2, <2>1, <2>2 DEF ToSet
    <2>3. CASE i > k
      <3>1. i - 1 \in DOMAIN r /\ r[i - 1] = s[i]
        BY <1>1, <1>2, <2>3
      <3> QED
        BY <2>1, <3>1 DEF ToSet
    <2> QED
      BY <1>1, <2>1, <2>2, <2>3
  <1>6. Distinct(r)
    BY <1>3 DEF Distinct
  <1>7. \A d \in ToSet(r) : d \in ToSet(s) \ {s[k]}
    BY <1>4 DEF ToSet
  <1>8. ToSet(r) = ToSet(s) \ {s[k]}
    BY <1>5, <1>7
  <1> QED
    BY <1>6, <1>8 DEF r

LEMMA DistinctReplaced ==
    ASSUME NEW s \in Seq(Nat), Distinct(s), NEW k \in DOMAIN s, NEW d \in Nat, d \notin ToSet(s)
    PROVE  /\ Distinct(ReplaceAt(s, k, d))
           /\ ToSet(ReplaceAt(s, k, d)) = (ToSet(s) \ {s[k]}) \cup {d}
  <1> DEFINE r == ReplaceAt(s, k, d)
  <1>1. DOMAIN r = DOMAIN s /\ \A i \in DOMAIN s : r[i] = IF i = k THEN d ELSE s[i]
    BY DEF ReplaceAt
  <1> HIDE DEF r
  <1>2. \A i \in DOMAIN s : s[i] # d
    BY DEF ToSet
  <1>3. Distinct(r)
    BY <1>1, <1>2 DEF Distinct
  <1>4. ToSet(r) = (ToSet(s) \ {s[k]}) \cup {d}
    BY <1>1, <1>2 DEF Distinct, ToSet
  <1> QED
    BY <1>3, <1>4 DEF r

LEMMA DistinctAppended ==
    ASSUME NEW s \in Seq(Nat), Distinct(s), NEW d \in Nat, d \notin ToSet(s)
    PROVE  /\ Distinct(Append(s, d))
           /\ ToSet(Append(s, d)) = ToSet(s) \cup {d}
  <1> DEFINE r == Append(s, d)
             n == Len(s)
  <1>1. /\ n \in Nat /\ DOMAIN s = 1..n /\ DOMAIN r = 1..(n + 1)
        /\ \A i \in 1..n : r[i] = s[i]
        /\ r[n + 1] = d
    OBVIOUS
  <1> HIDE DEF r, n
  <1>2. \A i \in 1..n : s[i] # d
    BY <1>1 DEF ToSet
  <1>3. \A i \in DOMAIN r : i \in 1..n \/ i = n + 1
    BY <1>1
  <1>4. Distinct(r)
    BY <1>1, <1>2, <1>3 DEF Distinct
  <1>5. \A e \in ToSet(r) : e \in ToSet(s) \cup {d}
    BY <1>1, <1>3 DEF ToSet
  <1>6. \A e \in ToSet(s) \cup {d} : e \in ToSet(r)
    BY <1>1 DEF ToSet
  <1> QED
    BY <1>4, <1>5, <1>6 DEF r

(* The list of an entry after a rebuild: the new id in the place of the    *)
(* old one, at the end when the old one is not there; or no new id.        *)
Swapped(segs, oldId, new, gone) ==
    IF gone THEN RemoveFirst(segs, oldId)
    ELSE IF oldId \in ToSet(segs) THEN ReplaceAt(segs, PositionIn(segs, oldId), new)
    ELSE Append(segs, new)

LEMMA SwappedFacts ==
    ASSUME NEW segs \in Seq(Nat), Distinct(segs), NEW oldId \in Nat, NEW new \in Nat,
           new \notin ToSet(segs), NEW gone \in BOOLEAN
    PROVE  /\ Swapped(segs, oldId, new, gone) \in Seq(Nat)
           /\ Distinct(Swapped(segs, oldId, new, gone))
           /\ ToSet(Swapped(segs, oldId, new, gone))
                = (ToSet(segs) \ {oldId}) \cup IF gone THEN {} ELSE {new}
           /\ \A k \in DOMAIN segs : segs[k] = oldId =>
                Swapped(segs, oldId, new, gone)
                  = IF gone THEN RemovePosition(segs, k) ELSE ReplaceAt(segs, k, new)
  <1>1. CASE oldId \notin ToSet(segs)
    <2>1. RemoveFirst(segs, oldId) = segs
      BY <1>1 DEF RemoveFirst, ToSet
    <2>2. Append(segs, new) \in Seq(Nat) /\ Distinct(Append(segs, new))
          /\ ToSet(Append(segs, new)) = ToSet(segs) \cup {new}
      BY DistinctAppended
    <2>3. \A k \in DOMAIN segs : segs[k] # oldId
      BY <1>1 DEF ToSet
    <2> QED
      BY <1>1, <2>1, <2>2, <2>3 DEF Swapped
  <1>2. CASE oldId \in ToSet(segs)
    <2>1. PICK k \in DOMAIN segs : k = PositionIn(segs, oldId) /\ segs[k] = oldId
      BY <1>2, PositionOf
    <2>2. \A j \in DOMAIN segs : segs[j] = oldId => j = k
      BY <2>1 DEF Distinct
    <2>3. k \in 1..Len(segs)
      BY <2>1
    <2>4. /\ RemoveFirst(segs, oldId) = RemovePosition(segs, k)
          /\ RemovePosition(segs, k) \in Seq(Nat)
          /\ Distinct(RemovePosition(segs, k))
          /\ ToSet(RemovePosition(segs, k)) = ToSet(segs) \ {oldId}
      BY <2>1, <2>3, RemovedFirst, RemovedPosition, DistinctWithout
    <2>5. /\ ReplaceAt(segs, k, new) \in Seq(Nat)
          /\ Distinct(ReplaceAt(segs, k, new))
          /\ ToSet(ReplaceAt(segs, k, new)) = (ToSet(segs) \ {oldId}) \cup {new}
      <3>1. ReplaceAt(segs, k, new) \in Seq(Nat)
        BY <2>1 DEF ReplaceAt
      <3> QED
        BY <2>1, <3>1, DistinctReplaced
    <2>6. Swapped(segs, oldId, new, gone)
            = IF gone THEN RemovePosition(segs, k) ELSE ReplaceAt(segs, k, new)
      BY <1>2, <2>1, <2>4 DEF Swapped
    <2> QED
      BY <2>2, <2>4, <2>5, <2>6
  <1> QED
    BY <1>1, <1>2

-----------------------------------------------------------------------------
(* The segments of a view on their own, as they are on disk. *)

Sealed(v) == [mutable |-> EmptyMutable, immutables |-> v.immutables]

LEMMA SealedView ==
    ASSUME NEW v \in View, WellFormed(v)
    PROVE  /\ Sealed(v) \in View
           /\ WellFormed(Sealed(v))
           /\ \A id \in Id : LiveStore(Sealed(v))[id] = IF id \in RowIds(v.mutable)
                                                          THEN NoRow ELSE LiveStore(v)[id]
           /\ \A id \in Id \ RowIds(v.mutable) : LiveStore(Sealed(v))[id] = LiveStore(v)[id]
  <1>1. Sealed(v) \in View
    BY EmptyMutableType DEF Sealed, View
  <1>2. \A id \in Id : Holders(Sealed(v), id) = Holders(v, id)
    BY DEF Holders, Sealed
  <1>3. \A id \in Id : id \notin RowIds(Sealed(v).mutable) /\ ~Alive(Sealed(v).mutable, id)
    BY EmptyMutableFacts DEF Sealed
  <1>4. WellFormed(Sealed(v))
    BY <1>2, <1>3 DEF WellFormed
  <1>5. ASSUME NEW id \in Id
        PROVE  LiveStore(Sealed(v))[id] = IF id \in RowIds(v.mutable)
                                            THEN NoRow ELSE LiveStore(v)[id]
    <2>1. LiveStore(Sealed(v))[id] = LookupPoint(Sealed(v), id) /\ LiveStore(v)[id] = LookupPoint(v, id)
      BY DEF LiveStore
    <2>2. LookupPoint(Sealed(v), id) = IF Holders(v, id) # {}
                                         THEN PointOf(v.immutables[Max(Holders(v, id))], id) ELSE NoRow
      BY <1>2, <1>3 DEF LookupPoint, Sealed
    <2>3. id \in RowIds(v.mutable) => Holders(v, id) = {}
      BY DEF WellFormed
    <2>4. id \notin RowIds(v.mutable) => ~Alive(v.mutable, id)
      BY DEF RowIds, Alive
    <2> QED
      BY <2>1, <2>2, <2>3, <2>4 DEF LookupPoint
  <1> QED
    BY <1>1, <1>4, <1>5

(* One segment of the view gives way to another one in which no id is      *)
(* alive that was not.                                                     *)
LEMMA EditedSegment ==
    ASSUME NEW v \in View, WellFormed(v), NEW i \in DOMAIN v.immutables, NEW seg \in Segment,
           \A id \in Id : Alive(seg, id) => Alive(v.immutables[i], id)
    PROVE  LET w == [v EXCEPT !.immutables[i] = seg]
           IN  /\ w \in View
               /\ WellFormed(w)
               /\ w.mutable = v.mutable
               /\ DOMAIN w.immutables = DOMAIN v.immutables
               /\ \A j \in DOMAIN v.immutables : w.immutables[j] = IF j = i THEN seg ELSE v.immutables[j]
               /\ \A id \in Id : LiveStore(w)[id] =
                    IF i \in Holders(v, id)
                      THEN IF Alive(seg, id) THEN PointOf(seg, id) ELSE NoRow
                      ELSE LiveStore(v)[id]
  <1> DEFINE w == [v EXCEPT !.immutables[i] = seg]
             segs == [v.immutables EXCEPT ![i] = seg]
  <1>1. v.mutable \in Mutable /\ v.immutables \in Seq(Segment)
    BY DEF View
  <1>2. w = [mutable |-> v.mutable, immutables |-> segs]
    BY DEF View
  <1>3. /\ segs \in Seq(Segment) /\ DOMAIN segs = DOMAIN v.immutables
        /\ \A j \in DOMAIN v.immutables : segs[j] = IF j = i THEN seg ELSE v.immutables[j]
    BY <1>1
  <1>4. w \in View
    BY <1>1, <1>2, <1>3 DEF View
  <1>5. /\ w.mutable = v.mutable /\ DOMAIN w.immutables = DOMAIN v.immutables
        /\ \A j \in DOMAIN v.immutables : w.immutables[j] = IF j = i THEN seg ELSE v.immutables[j]
    BY <1>2, <1>3
  <1> HIDE DEF w, segs
  <1>6. ASSUME NEW id \in Id PROVE Holders(w, id) \subseteq Holders(v, id)
    BY <1>5 DEF Holders
  <1>7. WellFormed(w)
    BY <1>5, <1>6 DEF WellFormed
  <1>8. ASSUME NEW id \in Id
        PROVE  LiveStore(w)[id] = IF i \in Holders(v, id)
                      THEN IF Alive(seg, id) THEN PointOf(seg, id) ELSE NoRow
                      ELSE LiveStore(v)[id]
    <2>1. LiveStore(w)[id] = LookupPoint(w, id) /\ LiveStore(v)[id] = LookupPoint(v, id)
      BY DEF LiveStore
    <2>2. CASE i \in Holders(v, id)
      <3>1. Holders(v, id) = {i} /\ ~Alive(v.mutable, id)
        BY <2>2, OnlyHolder
      <3>2. CASE Alive(seg, id)
        <4>1. i \in Holders(w, id)
          BY <1>5, <3>2 DEF Holders
        <4>2. LookupPoint(w, id) = PointOf(w.immutables[i], id)
          BY <1>4, <1>7, <4>1, OnlyHolder
        <4> QED
          BY <1>5, <2>1, <2>2, <3>2, <4>2
      <3>3. CASE ~Alive(seg, id)
        <4>1. Holders(w, id) = {}
          BY <1>5, <1>6, <3>1, <3>3 DEF Holders
        <4>2. LookupPoint(w, id) = NoRow
          BY <1>5, <3>1, <4>1 DEF LookupPoint
        <4> QED
          BY <2>1, <2>2, <3>3, <4>2
      <3> QED
        BY <3>2, <3>3
    <2>3. CASE i \notin Holders(v, id)
      <3>1. ~Alive(seg, id)
        BY <2>3 DEF Holders
      <3>2. Holders(w, id) = Holders(v, id)
        BY <1>5, <2>3, <3>1 DEF Holders
      <3>3. LookupPoint(w, id) = LookupPoint(v, id)
        <4>1. CASE Alive(v.mutable, id)
          BY <1>5, <4>1 DEF LookupPoint
        <4>2. CASE ~Alive(v.mutable, id) /\ Holders(v, id) = {}
          BY <1>5, <3>2, <4>2 DEF LookupPoint
        <4>3. ASSUME NEW h \in Holders(v, id) PROVE LookupPoint(w, id) = LookupPoint(v, id)
          <5>1. h # i /\ h \in Holders(w, id) /\ h \in DOMAIN v.immutables
            BY <2>3, <3>2, HolderFacts
          <5>2. LookupPoint(v, id) = PointOf(v.immutables[h], id)
            BY OnlyHolder
          <5>3. LookupPoint(w, id) = PointOf(w.immutables[h], id)
            BY <1>4, <1>7, <5>1, OnlyHolder
          <5> QED
            BY <1>5, <5>1, <5>2, <5>3
        <4> QED
          BY <4>1, <4>2, <4>3
      <3> QED
        BY <2>1, <2>3, <3>3
    <2> QED
      BY <2>2, <2>3
  <1> QED
    BY <1>4, <1>5, <1>7, <1>8 DEF w

-----------------------------------------------------------------------------
(* Types and lengths, also of views that are not well formed. *)

LEMMA AppliedLengths ==
    ASSUME NEW v \in View, NEW batch, NEW ids
    PROVE  /\ Len(ApplyUpsert(v, batch).immutables) = Len(v.immutables)
           /\ Len(ApplyDelete(v, ids).immutables) = Len(v.immutables)
  <1>1. DOMAIN v.immutables = 1..Len(v.immutables) /\ Len(v.immutables) \in Nat
    BY DEF View
  <1>2. DOMAIN ApplyUpsert(v, batch).immutables = DOMAIN v.immutables
    BY DEF ApplyUpsert
  <1>3. DOMAIN ApplyDelete(v, ids).immutables = DOMAIN v.immutables
    BY DEF ApplyDelete
  <1> QED
    BY <1>1, <1>2, <1>3

LEMMA MergedType ==
    ASSUME NEW v \in View
    PROVE  Merged(v) \in Mutable
  <1>1. v.mutable \in Mutable /\ v.immutables \in Seq(Segment)
    BY DEF View
  <1>2. ASSUME NEW id \in Id, Holders(v, id) # {}
        PROVE  LiveRows(v.immutables[Max(Holders(v, id))])[id] \in OptRow
    <2>1. Holders(v, id) \in SUBSET Nat /\ Len(v.immutables) \in Nat
          /\ \A i \in Holders(v, id) : i \in DOMAIN v.immutables /\ i <= Len(v.immutables)
      BY <1>1, HolderIsPosition
    <2>2. Max(Holders(v, id)) \in DOMAIN v.immutables
      BY <1>2, <2>1, MaxIsGreatest
    <2>3. v.immutables[Max(Holders(v, id))] \in Segment
      BY <1>1, <2>2
    <2> QED
      BY <2>3, LiveRowsType DEF Rows
  <1>3. \A id \in Id : v.mutable.rows[id] \in OptRow
    BY <1>1 DEF Mutable, Rows
  <1>4. Merged(v).rows \in Rows
    BY <1>2, <1>3 DEF Merged, Rows, OptRow
  <1>5. Merged(v) = [rows |-> Merged(v).rows, deleted |-> {}]
    BY DEF Merged
  <1> HIDE DEF Merged
  <1> QED
    BY <1>4, <1>5 DEF Mutable

LEMMA CompactType ==
    ASSUME NEW v \in View
    PROVE  /\ ApplyCompact(v) \in View
           /\ SegmentOf(Merged(v)) \in Segment
           /\ Len(ApplyCompact(v).immutables) = IF IsEmpty(Merged(v)) THEN 0 ELSE 1
  <1>1. SegmentOf(Merged(v)) \in Segment
    BY MergedType, RebuildsAreSegments
  <1>2. /\ <<>> \in Seq(Segment) /\ Len(<<>>) = 0
        /\ <<SegmentOf(Merged(v))>> \in Seq(Segment) /\ Len(<<SegmentOf(Merged(v))>>) = 1
    BY <1>1
  <1> QED
    BY <1>1, <1>2, EmptyMutableType DEF ApplyCompact, View

LEMMA RebuildType ==
    ASSUME NEW v \in View, NEW si \in DOMAIN v.immutables
    PROVE  /\ ApplyRebuild(v, si) \in View
           /\ SegmentOf(Rebuilt(v.immutables[si])) \in Segment
           /\ Len(ApplyRebuild(v, si).immutables)
                = IF IsEmpty(Rebuilt(v.immutables[si])) THEN Len(v.immutables) - 1
                  ELSE Len(v.immutables)
  <1> DEFINE seg == v.immutables[si]
             rest == RemovePosition(v.immutables, si)
             changed == [v.immutables EXCEPT ![si] = SegmentOf(Rebuilt(seg))]
  <1>1. v.mutable \in Mutable /\ v.immutables \in Seq(Segment) /\ si \in 1..Len(v.immutables)
    BY DEF View
  <1>2. seg \in Segment
    BY <1>1
  <1>3. SegmentOf(Rebuilt(seg)) \in Segment
    BY <1>2, RebuiltFacts
  <1>4. rest \in Seq(Segment) /\ Len(rest) = Len(v.immutables) - 1
    <2>1. rest \in Seq(Segment) /\ DOMAIN rest = 1..(Len(v.immutables) - 1)
      BY <1>1, RemovedPosition
    <2> QED
      BY <1>1, <2>1
  <1>5. changed \in Seq(Segment) /\ Len(changed) = Len(v.immutables)
    BY <1>1, <1>3
  <1>6. v = [mutable |-> v.mutable, immutables |-> v.immutables]
    BY DEF View
  <1>7. ApplyRebuild(v, si) = [mutable    |-> v.mutable,
                               immutables |-> IF IsEmpty(Rebuilt(seg)) THEN rest ELSE changed]
    BY <1>6 DEF ApplyRebuild
  <1> HIDE DEF rest, changed, seg
  <1>8. CASE IsEmpty(Rebuilt(seg))
    <2>1. ApplyRebuild(v, si) = [mutable |-> v.mutable, immutables |-> rest]
      BY <1>7, <1>8
    <2>2. ApplyRebuild(v, si) \in View /\ Len(ApplyRebuild(v, si).immutables) = Len(v.immutables) - 1
      BY <1>1, <1>4, <2>1 DEF View
    <2> QED
      BY <1>3, <1>8, <2>2 DEF seg
  <1>9. CASE ~IsEmpty(Rebuilt(seg))
    <2>1. ApplyRebuild(v, si) = [mutable |-> v.mutable, immutables |-> changed]
      BY <1>7, <1>9
    <2>2. ApplyRebuild(v, si) \in View /\ Len(ApplyRebuild(v, si).immutables) = Len(v.immutables)
      BY <1>1, <1>5, <2>1 DEF View
    <2> QED
      BY <1>3, <1>9, <2>2 DEF seg
  <1> QED
    BY <1>8, <1>9

-----------------------------------------------------------------------------
(* Counting.  Every tombstone is that of a row, so that total() less the   *)
(* tombstones is the number of live rows, and the sum over the segments is *)
(* the number of ids with a live row when none has two.                    *)

TombstonesHaveRows(seg) == seg.deleted \subseteq RowIds(seg)

Tight(v) ==
    /\ TombstonesHaveRows(v.mutable)
    /\ \A i \in DOMAIN v.immutables : TombstonesHaveRows(v.immutables[i])

LiveIds(seg) == {id \in Id : Alive(seg, id)}

LEMMA AliveCountIsLiveIds ==
    ASSUME NEW seg, seg.deleted \subseteq Id, TombstonesHaveRows(seg)
    PROVE  AliveCount(seg) = Cardinality(LiveIds(seg))
  <1>1. IsFiniteSet(RowIds(seg))
    <2>1. RowIds(seg) \in SUBSET Id
      BY DEF RowIds
    <2> QED
      BY <2>1, IdAssumption, FS_Subset
  <1>2. LiveIds(seg) = RowIds(seg) \ seg.deleted
    BY DEF LiveIds, RowIds, Alive
  <1>3. RowIds(seg) \cap seg.deleted = seg.deleted
    BY DEF TombstonesHaveRows
  <1> QED
    BY <1>1, <1>2, <1>3, FS_Difference DEF AliveCount, Total

(* The members of the sets A[i] for i in s. *)
Members(A, s) == UNION {A[i] : i \in s}

Chosen(s) == CHOOSE x \in s : TRUE

(* One unfolding of the sum over the subsets of D. *)
SumStep(A, D, G) ==
    [s \in SUBSET D |-> IF s = {} THEN 0
                        ELSE Cardinality(A[Chosen(s)]) + G[s \ {Chosen(s)}]]

LEMMA DisjointSum ==
    ASSUME NEW D, IsFiniteSet(D), NEW A \in [D -> SUBSET Id],
           \A i, j \in D : i # j => A[i] \cap A[j] = {},
           NEW s \in SUBSET D, s # {}
    PROVE  /\ Chosen(s) \in s
           /\ Cardinality(Members(A, s))
                = Cardinality(A[Chosen(s)]) + Cardinality(Members(A, s \ {Chosen(s)}))
  <1>1. Chosen(s) \in s
    BY DEF Chosen
  <1>2. PICK x \in s : x = Chosen(s)
    BY <1>1
  <1>3. Members(A, s) = A[x] \cup Members(A, s \ {x})
    BY <1>2 DEF Members
  <1>4. A[x] \cap Members(A, s \ {x}) = {}
    BY <1>2 DEF Members
  <1>5. A[x] \in SUBSET Id /\ Members(A, s \ {x}) \in SUBSET Id
    BY DEF Members
  <1>6. IsFiniteSet(A[x]) /\ IsFiniteSet(Members(A, s \ {x}))
    BY <1>5, IdAssumption, FS_Subset
  <1>7. /\ Cardinality(A[x] \cup Members(A, s \ {x}))
             = Cardinality(A[x]) + Cardinality(Members(A, s \ {x})) - Cardinality({})
        /\ Cardinality({}) = 0
    <2> DEFINE P == A[x]
               Q == Members(A, s \ {x})
    <2>1. IsFiniteSet(P) /\ IsFiniteSet(Q) /\ P \cap Q = {}
      BY <1>4, <1>6
    <2> HIDE DEF P, Q
    <2>2. Cardinality(P \cup Q) = Cardinality(P) + Cardinality(Q) - Cardinality({})
      BY <2>1, FS_Union
    <2> QED
      BY <2>2, FS_EmptySet DEF P, Q
  <1>8. Cardinality(A[x]) \in Nat /\ Cardinality(Members(A, s \ {x})) \in Nat
    BY <1>6, FS_CardinalityType
  <1> QED
    BY <1>2, <1>3, <1>7, <1>8

LEMMA SumExists ==
    ASSUME NEW D, IsFiniteSet(D), NEW A \in [D -> SUBSET Id],
           \A i, j \in D : i # j => A[i] \cap A[j] = {}
    PROVE  \E G : G = SumStep(A, D, G)
  <1> DEFINE F == [s \in SUBSET D |-> Cardinality(Members(A, s))]
  <1>1. ASSUME NEW s \in SUBSET D
        PROVE  F[s] = IF s = {} THEN 0 ELSE Cardinality(A[Chosen(s)]) + F[s \ {Chosen(s)}]
    <2>1. CASE s = {}
      <3>1. Members(A, s) = {}
        BY <2>1 DEF Members
      <3> QED
        BY <2>1, <3>1, FS_EmptySet
    <2>2. CASE s # {}
      <3>1. s \ {Chosen(s)} \in SUBSET D
        OBVIOUS
      <3> QED
        BY <2>2, <3>1, DisjointSum
    <2> QED
      BY <2>1, <2>2
  <1>2. F = [s \in SUBSET D |-> F[s]]
    OBVIOUS
  <1> HIDE DEF F
  <1>3. F = SumStep(A, D, F)
    BY <1>1, <1>2 DEF SumStep
  <1> QED
    BY <1>3

LEMMA SumIsUnion ==
    ASSUME NEW D, IsFiniteSet(D), NEW A \in [D -> SUBSET Id],
           \A i, j \in D : i # j => A[i] \cap A[j] = {},
           NEW G, G = SumStep(A, D, G)
    PROVE  G[D] = Cardinality(Members(A, D))
  <1> DEFINE Upto(n) == \A s \in SUBSET D : Cardinality(s) <= n => G[s] = Cardinality(Members(A, s))
             S == {n \in Nat : Upto(n)}
  <1>0. \A s \in SUBSET D : IsFiniteSet(s) /\ Cardinality(s) \in Nat
    BY FS_Subset, FS_CardinalityType
  <1>1. \A s \in SUBSET D :
          G[s] = IF s = {} THEN 0 ELSE Cardinality(A[Chosen(s)]) + G[s \ {Chosen(s)}]
    BY DEF SumStep
  <1>2. Cardinality(Members(A, {})) = 0
    <2>1. Members(A, {}) = {}
      BY DEF Members
    <2> QED
      BY <2>1, FS_EmptySet
  <1>3. Upto(0)
    <2> SUFFICES ASSUME NEW s \in SUBSET D, Cardinality(s) <= 0 
                 PROVE  G[s] = Cardinality(Members(A, s))
      OBVIOUS
    <2>1. s = {}
      BY <1>0, FS_EmptySet
    <2> QED
      BY <1>1, <1>2, <2>1
  <1>4. ASSUME NEW n \in Nat, Upto(n) PROVE Upto(n + 1)
    <2> SUFFICES ASSUME NEW s \in SUBSET D, Cardinality(s) <= n + 1
                 PROVE  G[s] = Cardinality(Members(A, s))
      OBVIOUS
    <2>1. CASE s = {}
      BY <1>1, <1>2, <2>1
    <2>2. CASE s # {}
      <3>1. Chosen(s) \in s /\ s \ {Chosen(s)} \in SUBSET D
        BY <2>2, DisjointSum
      <3>2. Cardinality(s \ {Chosen(s)}) = Cardinality(s) - 1
        BY <1>0, <3>1, FS_RemoveElement
      <3>3. Cardinality(s \ {Chosen(s)}) <= n
        BY <1>0, <3>2
      <3>4. G[s \ {Chosen(s)}] = Cardinality(Members(A, s \ {Chosen(s)}))
        BY <1>4, <3>1, <3>3
      <3>5. Cardinality(Members(A, s))
              = Cardinality(A[Chosen(s)]) + Cardinality(Members(A, s \ {Chosen(s)}))
        BY <2>2, DisjointSum
      <3> HIDE DEF Upto, S
      <3>6. G[s] = Cardinality(A[Chosen(s)]) + G[s \ {Chosen(s)}]
        BY <1>1, <2>2
      <3> QED
        BY <3>4, <3>5, <3>6
    <2> QED
      BY <2>1, <2>2
  <1>5. S \in SUBSET Nat /\ 0 \in S /\ \A n \in S : n + 1 \in S
    BY <1>3, <1>4
  <1>6. Cardinality(D) \in S => G[D] = Cardinality(Members(A, D))
    BY <1>0
  <1> HIDE DEF S
  <1>7. S = Nat
    BY <1>5, InductionOnSet
  <1> QED
    BY <1>0, <1>6, <1>7

LEMMA CountOfSegments ==
    ASSUME NEW v \in View, WellFormed(v), Tight(v)
    PROVE  MapThenSumSet(LAMBDA i : AliveCount(v.immutables[i]), DOMAIN v.immutables)
             = Cardinality({id \in Id : Holders(v, id) # {}})
  <1> DEFINE D == DOMAIN v.immutables
             A == [i \in D |-> LiveIds(v.immutables[i])]
  <1>1. D = 1..Len(v.immutables) /\ Len(v.immutables) \in Nat /\ v.immutables \in Seq(Segment)
    BY DEF View
  <1>2. IsFiniteSet(D)
    <2>1. PICK n \in Nat : D = 1..n
      BY <1>1
    <2>2. IsFiniteSet(1..n)
      BY FS_Interval
    <2> QED
      BY <2>1, <2>2
  <1>3. A \in [D -> SUBSET Id]
    BY DEF LiveIds
  <1>4. \A i, j \in D : i # j => A[i] \cap A[j] = {}
    BY DEF LiveIds, WellFormed, Holders
  <1>5. \A i \in D : AliveCount(v.immutables[i]) = Cardinality(A[i])
    <2> SUFFICES ASSUME NEW i \in D PROVE AliveCount(v.immutables[i]) = Cardinality(A[i])
      OBVIOUS
    <2>0. v.immutables[i] \in Segment
      BY <1>1
    <2>1. v.immutables[i].deleted \subseteq Id
      BY <2>0 DEF Segment
    <2>2. TombstonesHaveRows(v.immutables[i])
      BY DEF Tight
    <2> QED
      BY <2>1, <2>2, AliveCountIsLiveIds
  <1>6. Members(A, D) = {id \in Id : Holders(v, id) # {}}
    <2>1. \A id : id \in Members(A, D) <=> id \in Id /\ \E i \in D : Alive(v.immutables[i], id)
      <3>1. \A i \in D : A[i] = {id \in Id : Alive(v.immutables[i], id)}
        BY DEF LiveIds
      <3> HIDE DEF D, A
      <3> QED
        BY <3>1 DEF Members
    <2>2. \A id : Holders(v, id) # {} <=> \E i \in D : Alive(v.immutables[i], id)
      BY DEF Holders
    <2> HIDE DEF D, A
    <2> QED
      BY <2>1, <2>2
  <1> DEFINE Unfolded(G) == [s \in SUBSET D |->
                               IF s = {} THEN 0
                               ELSE AliveCount(v.immutables[CHOOSE x \in s : TRUE])
                                      + G[s \ {CHOOSE x \in s : TRUE}]]
             G0 == CHOOSE G : G = Unfolded(G)
  <1>7. MapThenSumSet(LAMBDA i : AliveCount(v.immutables[i]), D) = G0[D]
    BY DEF MapThenSumSet, MapThenFoldSet
  <1>8. \A G : SumStep(A, D, G) = Unfolded(G)
    <2>1. \A s \in SUBSET D : s # {} => Chosen(s) \in D
      BY DEF Chosen
    <2> HIDE DEF A, D
    <2> QED
      BY <1>5, <2>1 DEF SumStep, Chosen
  <1> HIDE DEF A, D, Unfolded
  <1>9. \E G : G = SumStep(A, D, G)
    BY <1>2, <1>3, <1>4, SumExists
  <1>10. G0 = SumStep(A, D, G0)
    BY <1>8, <1>9, Zenon
  <1> HIDE DEF G0
  <1>12. G0[D] = Cardinality(Members(A, D))
    BY <1>2, <1>3, <1>4, <1>10, SumIsUnion
  <1> QED
    BY <1>6, <1>7, <1>12 DEF D

(* A lookup finds an id exactly when some segment has a live row of it. *)
LEMMA LookupFinds ==
    ASSUME NEW v \in View, WellFormed(v), NEW id \in Id
    PROVE  LookupPoint(v, id) # NoRow <=> Alive(v.mutable, id) \/ Holders(v, id) # {}
  <1>1. CASE Alive(v.mutable, id)
    BY <1>1 DEF LookupPoint, Alive
  <1>2. CASE ~Alive(v.mutable, id) /\ Holders(v, id) # {}
    <2>1. PICK i \in Holders(v, id) : TRUE
      BY <1>2
    <2>2. LookupPoint(v, id) = PointOf(v.immutables[i], id)
      BY <2>1, OnlyHolder
    <2>3. PointOf(v.immutables[i], id) \in Row
      BY <2>1, HolderFacts, PointOfType DEF Alive
    <2> QED
      BY <1>2, <2>2, <2>3, NoRowAssumption
  <1>3. CASE ~Alive(v.mutable, id) /\ Holders(v, id) = {}
    BY <1>3 DEF LookupPoint
  <1> QED
    BY <1>1, <1>2, <1>3

(* count() is the number of ids that a lookup finds. *)
LEMMA CountEffect ==
    ASSUME NEW v \in View, WellFormed(v), Tight(v)
    PROVE  Count(v) = Cardinality({id \in Id : LookupPoint(v, id) # NoRow})
  <1> DEFINE Elsewhere == {id \in Id : Holders(v, id) # {}}
             Here == LiveIds(v.mutable)
             Found == {id \in Id : LookupPoint(v, id) # NoRow}
  <1>1. AliveCount(v.mutable) = Cardinality(Here)
    <2>1. v.mutable.deleted \subseteq Id
      BY DEF View, Mutable
    <2> QED
      BY <2>1, AliveCountIsLiveIds DEF Tight
  <1>2. Count(v) = Cardinality(Here) + Cardinality(Elsewhere)
    BY <1>1, CountOfSegments DEF Count
  <1>3. Here \cap Elsewhere = {}
    BY DEF LiveIds, WellFormed, RowIds, Alive
  <1>4. Found = Here \cup Elsewhere
    BY LookupFinds DEF LiveIds
  <1>5. IsFiniteSet(Here) /\ IsFiniteSet(Elsewhere)
    <2>1. Here \in SUBSET Id /\ Elsewhere \in SUBSET Id
      BY DEF LiveIds
    <2> QED
      BY <2>1, IdAssumption, FS_Subset
  <1> HIDE DEF Here, Elsewhere, Found
  <1>6. Cardinality(Here \cup Elsewhere)
          = Cardinality(Here) + Cardinality(Elsewhere) - Cardinality({})
    BY <1>3, <1>5, FS_Union
  <1>7. Cardinality({}) = 0 /\ Cardinality(Here) \in Nat /\ Cardinality(Elsewhere) \in Nat
    BY <1>5, FS_EmptySet, FS_CardinalityType
  <1>8. Count(v) = Cardinality(Found)
    BY <1>2, <1>4, <1>6, <1>7
  <1> QED
    BY <1>8 DEF Found

-----------------------------------------------------------------------------
(* Tombstones stay on rows. *)

LEMMA TightSegments ==
    /\ TombstonesHaveRows(EmptyMutable)
    /\ \A m : TombstonesHaveRows(SegmentOf(m)) <=> TombstonesHaveRows(m)
    /\ \A seg : TombstonesHaveRows(Rebuilt(seg))
    /\ \A seg \in Segment, ids \in SUBSET Id :
         TombstonesHaveRows(seg) => TombstonesHaveRows(TombstoneMany(seg, ids))
    /\ \A seg \in Segment, ids \in SUBSET Id, payload \in OptPayload :
         TombstonesHaveRows(seg) => TombstonesHaveRows(SetOverlayBatch(seg, ids, payload))
  BY DEF TombstonesHaveRows, RowIds, EmptyMutable, SegmentOf, Rebuilt, Segment,
         TombstoneMany, SetOverlayBatch, Alive

LEMMA TightMutable ==
    ASSUME NEW m \in Mutable, TombstonesHaveRows(m), NEW ids \in SUBSET Id,
           NEW batch \in Batch, NEW payload \in OptPayload
    PROVE  /\ TombstonesHaveRows(MutableUpsert(m, batch))
           /\ TombstonesHaveRows(MutableDelete(m, ids))
           /\ TombstonesHaveRows(MutableSetPayload(m, ids, payload))
  <1> USE DEF TombstonesHaveRows, RowIds, Alive
  <1>1. TombstonesHaveRows(MutableUpsert(m, batch))
    BY DEF MutableUpsert, BatchIds
  <1>2. TombstonesHaveRows(MutableDelete(m, ids))
    BY DEF MutableDelete, Mutable
  <1>3. TombstonesHaveRows(MutableSetPayload(m, ids, payload))
    <2>1. MutableSetPayload(m, ids, payload).deleted = m.deleted
      BY DEF MutableSetPayload, Mutable
    <2>2. \A id \in Id : m.rows[id] # NoRow => [m.rows[id] EXCEPT !.payload = payload] # NoRow
      BY NoRowAssumption DEF Mutable, Rows, OptRow, Row
    <2>3. \A id \in Id : MutableSetPayload(m, ids, payload).rows[id] # NoRow <=> m.rows[id] # NoRow
      BY <2>2 DEF MutableSetPayload, Mutable
    <2> QED
      BY <2>1, <2>3
  <1> QED
    BY <1>1, <1>2, <1>3

LEMMA EmptyViewIsTight == Tight(EmptyView)
  BY TightSegments DEF Tight, EmptyView

LEMMA UpsertKeepsTight ==
    ASSUME NEW v \in View, Tight(v), NEW batch \in Batch
    PROVE  Tight(ApplyUpsert(v, batch))
  <1> DEFINE overridden == BatchIds(batch) \ RowIds(v.mutable)
             w == ApplyUpsert(v, batch)
  <1>1. v.mutable \in Mutable /\ \A i \in DOMAIN v.immutables : v.immutables[i] \in Segment
    BY DEF View
  <1>2. overridden \in SUBSET Id
    BY DEF BatchIds
  <1>3. /\ w.mutable = MutableUpsert(v.mutable, batch)
        /\ w.immutables = [i \in DOMAIN v.immutables |-> TombstoneMany(v.immutables[i], overridden)]
    BY DEF ApplyUpsert
  <1> HIDE DEF overridden, w
  <1>4. TombstonesHaveRows(w.mutable)
    BY <1>1, <1>3, TightMutable DEF Tight, OptPayload
  <1>5. \A i \in DOMAIN w.immutables : TombstonesHaveRows(w.immutables[i])
    BY <1>1, <1>2, <1>3, TightSegments DEF Tight
  <1> QED
    BY <1>4, <1>5 DEF Tight, w

LEMMA DeleteKeepsTight ==
    ASSUME NEW v \in View, Tight(v), NEW ids \in SUBSET Id
    PROVE  Tight(ApplyDelete(v, ids))
  <1> DEFINE elsewhere == {id \in ids : ~Alive(v.mutable, id)}
             OldestIn(i) == {id \in elsewhere : i \in Holders(v, id) /\ i = Min(Holders(v, id))}
             w == ApplyDelete(v, ids)
  <1>1. v.mutable \in Mutable /\ \A i \in DOMAIN v.immutables : v.immutables[i] \in Segment
    BY DEF View
  <1>2. \A i : OldestIn(i) \in SUBSET Id
    OBVIOUS
  <1>3. /\ w.mutable = MutableDelete(v.mutable, ids)
        /\ w.immutables = [i \in DOMAIN v.immutables |-> TombstoneMany(v.immutables[i], OldestIn(i))]
    BY DEF ApplyDelete
  <1> HIDE DEF OldestIn, w
  <1>4. TombstonesHaveRows(w.mutable)
    <2>1. EmptyView.mutable.rows \in Batch /\ NoPayload \in OptPayload
      BY EmptyMutableType DEF EmptyView, Batch, Mutable, OptPayload
    <2> QED
      BY <1>1, <1>3, <2>1, TightMutable DEF Tight
  <1>5. \A i \in DOMAIN w.immutables : TombstonesHaveRows(w.immutables[i])
    BY <1>1, <1>2, <1>3, TightSegments DEF Tight
  <1> QED
    BY <1>4, <1>5 DEF Tight, w

LEMMA PayloadKeepsTight ==
    ASSUME NEW v \in View, Tight(v), NEW ids \in SUBSET Id, NEW payload \in OptPayload
    PROVE  Tight(ApplyPayload(v, ids, payload))
  <1> DEFINE elsewhere == {id \in ids : ~Alive(v.mutable, id)}
             OldestIn(i) == {id \in elsewhere : i \in Holders(v, id) /\ i = Min(Holders(v, id))}
             w == ApplyPayload(v, ids, payload)
  <1>1. v.mutable \in Mutable /\ \A i \in DOMAIN v.immutables : v.immutables[i] \in Segment
    BY DEF View
  <1>2. \A i : OldestIn(i) \in SUBSET Id
    OBVIOUS
  <1>3. /\ w.mutable = MutableSetPayload(v.mutable, ids, payload)
        /\ w.immutables = [i \in DOMAIN v.immutables |->
                             SetOverlayBatch(v.immutables[i], OldestIn(i), payload)]
    BY DEF ApplyPayload
  <1> HIDE DEF OldestIn, w
  <1>4. TombstonesHaveRows(w.mutable)
    <2>1. EmptyView.mutable.rows \in Batch
      BY EmptyMutableType DEF EmptyView, Batch, Mutable
    <2> QED
      BY <1>1, <1>3, <2>1, TightMutable DEF Tight
  <1>5. \A i \in DOMAIN w.immutables : TombstonesHaveRows(w.immutables[i])
    BY <1>1, <1>2, <1>3, TightSegments DEF Tight
  <1> QED
    BY <1>4, <1>5 DEF Tight, w

LEMMA FlushKeepsTight ==
    ASSUME NEW v \in View, Tight(v)
    PROVE  Tight(ApplyFlush(v, SegmentOf(v.mutable)))
  <1>1. v.immutables \in Seq(Segment) /\ TombstonesHaveRows(SegmentOf(v.mutable))
    BY TightSegments DEF View, Tight
  <1>2. \A i \in DOMAIN Append(v.immutables, SegmentOf(v.mutable)) :
          TombstonesHaveRows(Append(v.immutables, SegmentOf(v.mutable))[i])
    BY <1>1 DEF Tight
  <1> QED
    BY <1>2, TightSegments DEF ApplyFlush, Tight

LEMMA CompactKeepsTight ==
    ASSUME NEW v
    PROVE  Tight(ApplyCompact(v))
  <1>1. TombstonesHaveRows(Merged(v))
    BY DEF Merged, TombstonesHaveRows
  <1>2. TombstonesHaveRows(SegmentOf(Merged(v)))
    BY <1>1, TightSegments
  <1>3. CASE IsEmpty(Merged(v))
    BY <1>3, TightSegments DEF ApplyCompact, Tight
  <1>4. CASE ~IsEmpty(Merged(v))
    BY <1>2, <1>4, TightSegments DEF ApplyCompact, Tight
  <1> QED
    BY <1>3, <1>4

LEMMA RebuildKeepsTight ==
    ASSUME NEW v \in View, Tight(v), NEW k
    PROVE  Tight(ApplyRebuild(v, k))
  <1>1. v.immutables \in Seq(Segment) /\ v.immutables \in [1..Len(v.immutables) -> Segment]
    BY DEF View
  <1>2. CASE k \notin DOMAIN v.immutables
    BY <1>2 DEF ApplyRebuild
  <1>3. CASE k \in DOMAIN v.immutables
    <2> DEFINE merged == Rebuilt(v.immutables[k])
    <2>1. TombstonesHaveRows(SegmentOf(merged))
      BY TightSegments
    <2> HIDE DEF merged
    <2>2. CASE IsEmpty(merged)
      <3>1. ApplyRebuild(v, k) = [v EXCEPT !.immutables = RemovePosition(@, k)]
        BY <1>3, <2>2 DEF ApplyRebuild, merged
      <3>2. /\ ApplyRebuild(v, k).mutable = v.mutable
            /\ ApplyRebuild(v, k).immutables = RemovePosition(v.immutables, k)
        BY <3>1 DEF View
      <3>3. \A i \in DOMAIN RemovePosition(v.immutables, k) :
              \E j \in DOMAIN v.immutables : RemovePosition(v.immutables, k)[i] = v.immutables[j]
        <4>1. k \in 1..Len(v.immutables)
          BY <1>1, <1>3
        <4>2. DOMAIN RemovePosition(v.immutables, k) = 1..(Len(v.immutables) - 1)
          BY <1>1, <4>1, RemovedPosition
        <4>3. \A j \in 1..(Len(v.immutables) - 1) : RemovePosition(v.immutables, k)[j]
                = IF j < k THEN v.immutables[j] ELSE v.immutables[j + 1]
          BY <1>1, <4>1, RemovedPosition
        <4>4. \A j \in 1..(Len(v.immutables) - 1) :
                j \in DOMAIN v.immutables /\ j + 1 \in DOMAIN v.immutables
          BY <1>1
        <4> QED
          BY <4>2, <4>3, <4>4
      <3> QED
        BY <3>2, <3>3 DEF Tight
    <2>3. CASE ~IsEmpty(merged)
      <3>1. ApplyRebuild(v, k) = [v EXCEPT !.immutables = [@ EXCEPT ![k] = SegmentOf(merged)]]
        BY <1>3, <2>3 DEF ApplyRebuild, merged
      <3>2. /\ ApplyRebuild(v, k).mutable = v.mutable
            /\ ApplyRebuild(v, k).immutables = [v.immutables EXCEPT ![k] = SegmentOf(merged)]
        BY <3>1 DEF View
      <3>3. \A i \in DOMAIN v.immutables :
              TombstonesHaveRows([v.immutables EXCEPT ![k] = SegmentOf(merged)][i])
        BY <1>1, <2>1 DEF Tight
      <3> QED
        BY <3>2, <3>3 DEF Tight
    <2> QED
      BY <2>2, <2>3
  <1> QED
    BY <1>2, <1>3
=============================================================================
