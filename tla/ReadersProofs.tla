--------------------------- MODULE ReadersProofs ---------------------------
(***************************************************************************)
(* Readers, for every set of ids, vectors, filters, limits and counts: the *)
(* pages of a scroll are complete, and queries return the best points.     *)
(***************************************************************************)
EXTENDS Readers, SequenceTheorems, FiniteSetTheorems, TLAPS

(***************************************************************************)
(* Naturals.  The prover has no induction over an arbitrary predicate; the *)
(* set of the numbers that have the property serves as well.               *)
(***************************************************************************)

(* The intervals 0..x are well-founded by inclusion, hence the numbers. *)
LEMMA LeastExists ==
    ASSUME NEW T \in SUBSET Nat, T # {}
    PROVE  \E x \in T : \A y \in T : x <= y
  <1> DEFINE U == {0..x : x \in T}
  <1>1. U \in SUBSET FiniteSubsetsOf(Nat)
    <2>1. \A x \in T : IsFiniteSet(0..x) /\ 0..x \in SUBSET Nat
      BY FS_Interval
    <2> QED
      BY <2>1 DEF FiniteSubsetsOf
  <1>2. IsWellFoundedOn(StrictSubsetOrdering(Nat), FiniteSubsetsOf(Nat))
    BY FS_StrictSubsetOrderingWellFounded
  <1>3. U # {}
    OBVIOUS
  <1> HIDE DEF U
  <1>4. \E a \in U : \A b \in U : ~(<<b, a>> \in StrictSubsetOrdering(Nat))
    BY <1>1, <1>2, <1>3, WFMin, Zenon
  <1>5. PICK a \in U : \A b \in U : ~(<<b, a>> \in StrictSubsetOrdering(Nat))
    BY <1>4
  <1>6. PICK x \in T : a = 0..x
    BY DEF U
  <1>7. ASSUME NEW y \in T, y < x PROVE FALSE
    <2>1. 0..y \in U
      BY DEF U
    <2>2. ~(<<0..y, 0..x>> \in StrictSubsetOrdering(Nat))
      BY <2>1, <1>5, <1>6
    <2>3. 0..y \in SUBSET Nat /\ 0..x \in SUBSET Nat
      OBVIOUS
    <2>4. x \in 0..x /\ x \notin 0..y /\ 0..y \subseteq 0..x
      BY <1>7
    <2> QED
      BY <2>2, <2>3, <2>4 DEF StrictSubsetOrdering
  <1> QED
    BY <1>7

LEMMA InductionOnSet ==
    ASSUME NEW S \in SUBSET Nat, 0 \in S, \A n \in S : n + 1 \in S
    PROVE  S = Nat
  <1>1. SUFFICES ASSUME Nat \ S # {} PROVE FALSE
    OBVIOUS
  <1>2. PICK x \in Nat \ S : \A y \in Nat \ S : x <= y
    BY <1>1, LeastExists
  <1>3. x - 1 \in S
    BY <1>2
  <1> QED
    BY <1>2, <1>3

(* A loop is understood when its state after each iteration is. *)
LEMMA LoopInduction ==
    ASSUME NEW n \in Nat, NEW S, 0 \in S, \A k \in 0..(n - 1) : k \in S => k + 1 \in S
    PROVE  \A k \in 0..n : k \in S
  <1> DEFINE N == {k \in Nat : k <= n => k \in S}
  <1>1. N \in SUBSET Nat /\ 0 \in N
    OBVIOUS
  <1>2. \A k \in N : k + 1 \in N
    OBVIOUS
  <1>3. \A k \in N : k <= n => k \in S
    OBVIOUS
  <1> HIDE DEF N
  <1>4. N = Nat
    BY <1>1, <1>2, InductionOnSet
  <1> QED
    BY <1>3, <1>4

(* What a recursive function on 0..n goes through: each step makes one     *)
(* value out of the one before.                                            *)
AreSteps(step, n, T) == \A k \in 1..n : \A t \in T : step[k][t] \in T

IsRun(c, step, n, a, T) ==
    c \in [0..n -> T] /\ c[0] = a /\ \A k \in 1..n : c[k] = step[k][c[k - 1]]

LEMMA StepsExist ==
    ASSUME NEW T, NEW n \in Nat, NEW a \in T, NEW step, AreSteps(step, n, T)
    PROVE  \E c : IsRun(c, step, n, a, T)
  <1> DEFINE Part(m) == \E c \in [0..m -> T] : c[0] = a /\ \A k \in 1..m : c[k] = step[k][c[k - 1]]
             S == {m \in 0..n : Part(m)}
  <1>1. 0 \in S
    <2>1. [k \in 0..0 |-> a] \in [0..0 -> T]
      OBVIOUS
    <2>2. Part(0)
      <3> WITNESS [k \in 0..0 |-> a] \in [0..0 -> T]
      <3> QED
        OBVIOUS
    <2> QED
      BY <2>2
  <1>2. ASSUME NEW m \in 0..(n - 1), m \in S PROVE m + 1 \in S
    <2>1. PICK c \in [0..m -> T] : c[0] = a /\ \A k \in 1..m : c[k] = step[k][c[k - 1]]
      BY <1>2
    <2>2. m \in Nat /\ m + 1 \in 1..n /\ m + 1 \in 0..n /\ c[m] \in T
      OBVIOUS
    <2>3. step[m + 1][c[m]] \in T
      BY <2>2 DEF AreSteps
    <2> DEFINE d == [k \in 0..(m + 1) |-> IF k <= m THEN c[k] ELSE step[m + 1][c[m]]]
    <2>4. d \in [0..(m + 1) -> T] /\ d[0] = a
      BY <2>1, <2>2, <2>3
    <2>5. ASSUME NEW k \in 1..(m + 1) PROVE d[k] = step[k][d[k - 1]]
      <3>1. CASE k = m + 1
        <4>1. d[k] = step[m + 1][c[m]] /\ d[k - 1] = c[m]
          BY <2>2, <3>1
        <4> QED
          BY <3>1, <4>1
      <3>2. CASE k # m + 1
        <4>1. k \in 1..m /\ d[k] = c[k] /\ d[k - 1] = c[k - 1]
          BY <2>2, <3>2
        <4> QED
          BY <2>1, <4>1
      <3> QED
        BY <3>1, <3>2
    <2> HIDE DEF d
    <2>6. Part(m + 1)
      BY <2>4, <2>5
    <2> QED
      BY <2>2, <2>6
  <1>3. n \in S => Part(n)
    OBVIOUS
  <1> HIDE DEF S
  <1>4. \A m \in 0..n : m \in S
    BY <1>1, <1>2, LoopInduction
  <1>5. n \in 0..n
    OBVIOUS
  <1> QED
    BY <1>3, <1>4, <1>5 DEF IsRun

-----------------------------------------------------------------------------
(* Listings.  Orders are sets of pairs here, which a lemma can be about.   *)

IsOrder(R, S) ==
    /\ \A x \in S : <<x, x>> \notin R
    /\ \A x, y \in S : x # y => <<x, y>> \in R \/ <<y, x>> \in R
    /\ \A x, y, z \in S : <<x, y>> \in R /\ <<y, z>> \in R => <<x, z>> \in R

Below(S, R, x) == {y \in S : <<y, x>> \in R}
InOrder(S, R) == [k \in 1 .. Cardinality(S) |-> CHOOSE x \in S : Cardinality(Below(S, R, x)) = k - 1]

IsListing(L, S, R) ==
    /\ Cardinality(S) \in Nat
    /\ L \in [1 .. Cardinality(S) -> S]
    /\ \A x \in S : \E k \in 1 .. Cardinality(S) : L[k] = x
    /\ \A i, j \in 1 .. Cardinality(S) : i < j <=> <<L[i], L[j]>> \in R

(* What comes before an element that comes earlier is less.                *)
LEMMA BelowGrows ==
    ASSUME NEW S, IsFiniteSet(S), NEW R, IsOrder(R, S)
    PROVE  /\ \A x \in S : Cardinality(Below(S, R, x)) \in 0 .. Cardinality(S) - 1
           /\ \A x, y \in S : <<x, y>> \in R =>
                Cardinality(Below(S, R, x)) < Cardinality(Below(S, R, y))
  <1>1. Cardinality(S) \in Nat
    BY FS_CardinalityType
  <1>2. ASSUME NEW x \in S PROVE IsFiniteSet(Below(S, R, x)) /\ Cardinality(Below(S, R, x)) \in Nat
    <2>1. Below(S, R, x) \in SUBSET S
      BY DEF Below
    <2> QED
      BY <2>1, FS_Subset, FS_CardinalityType
  <1>3. ASSUME NEW x \in S PROVE Cardinality(Below(S, R, x)) \in 0 .. Cardinality(S) - 1
    <2>1. Below(S, R, x) \in SUBSET S /\ Below(S, R, x) # S
      BY DEF Below, IsOrder
    <2>2. Cardinality(Below(S, R, x)) <= Cardinality(S) /\ Cardinality(Below(S, R, x)) # Cardinality(S)
      BY <2>1, FS_Subset
    <2> QED
      BY <1>1, <1>2, <2>2
  <1>4. ASSUME NEW x \in S, NEW y \in S, <<x, y>> \in R
        PROVE  Cardinality(Below(S, R, x)) < Cardinality(Below(S, R, y))
    <2>1. Below(S, R, x) \in SUBSET Below(S, R, y)
      BY <1>4 DEF Below, IsOrder
    <2>2. x \in Below(S, R, y) /\ x \notin Below(S, R, x)
      BY <1>4 DEF Below, IsOrder
    <2>3. /\ Cardinality(Below(S, R, x)) <= Cardinality(Below(S, R, y))
          /\ Cardinality(Below(S, R, x)) # Cardinality(Below(S, R, y))
      BY <1>2, <2>1, <2>2, FS_Subset
    <2> QED
      BY <1>2, <2>3
  <1> QED
    BY <1>3, <1>4

(* The numbers of those before are all different, hence take every value.  *)
LEMMA InOrderLists ==
    ASSUME NEW S, IsFiniteSet(S), NEW R, IsOrder(R, S)
    PROVE  IsListing(InOrder(S, R), S, R)
  <1> DEFINE n == Cardinality(S)
             Place == [x \in S |-> Cardinality(Below(S, R, x))]
             L == InOrder(S, R)
  <1>1. n \in Nat
    BY FS_CardinalityType
  <1>2. \A x \in S : Place[x] \in 0 .. n - 1
    BY BelowGrows
  <1>3. \A x, y \in S : <<x, y>> \in R => Place[x] < Place[y]
    BY BelowGrows
  <1> HIDE DEF Place
  <1>4. Place \in [S -> 0 .. n - 1]
    BY <1>2 DEF Place
  <1>5. \A x, y \in S : Place[x] = Place[y] => x = y
    <2> TAKE x, y \in S
    <2>1. x # y => Place[x] < Place[y] \/ Place[y] < Place[x]
      BY <1>3 DEF IsOrder
    <2>2. Place[x] \in Int /\ Place[y] \in Int
      BY <1>2
    <2> QED
      BY <2>1, <2>2
  <1>6. Place \in Injection(S, 0 .. n - 1)
    BY <1>4, <1>5 DEF Injection, IsInjective
  <1>7. IsFiniteSet(0 .. n - 1) /\ Cardinality(0 .. n - 1) = n
    <2>1. 0 \in Int /\ n - 1 \in Int /\ (IF 0 > n - 1 THEN 0 ELSE n - 1 - 0 + 1) = n
      BY <1>1
    <2> QED
      BY <2>1, FS_Interval
  <1>8. Place \in Surjection(S, 0 .. n - 1)
    BY <1>6, <1>7, FS_Injection
  <1>9. \A m \in 0 .. n - 1 : \E x \in S : Place[x] = m
    BY <1>8 DEF Surjection
  <1>10. ASSUME NEW k \in 1 .. n PROVE L[k] \in S /\ Place[L[k]] = k - 1
    <2>1. k - 1 \in 0 .. n - 1
      BY <1>1
    <2>2. \E x \in S : Cardinality(Below(S, R, x)) = k - 1
      BY <1>9, <2>1 DEF Place
    <2>3. L[k] \in S /\ Cardinality(Below(S, R, L[k])) = k - 1
      BY <2>2 DEF InOrder
    <2> QED
      BY <2>3 DEF Place
  <1>11. L \in [1 .. n -> S]
    <2>1. L = [k \in 1 .. n |-> L[k]]
      BY DEF InOrder
    <2> QED
      BY <1>10, <2>1
  <1>12. ASSUME NEW x \in S PROVE \E k \in 1 .. n : L[k] = x
    <2> HIDE DEF L
    <2>1. PICK k \in 1 .. n : k - 1 = Place[x]
      <3>1. \A m \in 0 .. n - 1 : \E k \in 1 .. n : k - 1 = m
        <4> TAKE m \in 0 .. n - 1
        <4>1. m + 1 \in 1 .. n /\ m + 1 - 1 = m
          BY <1>1
        <4> QED
          BY <4>1
      <3> HIDE DEF n
      <3> QED
        BY <1>2, <3>1
    <2>2. Place[L[k]] = Place[x] /\ L[k] \in S
      BY <1>10, <2>1
    <2> QED
      BY <1>5, <2>2
  <1>13. ASSUME NEW i \in 1 .. n, NEW j \in 1 .. n PROVE i < j <=> <<L[i], L[j]>> \in R
    <2>1. L[i] \in S /\ L[j] \in S /\ Place[L[i]] = i - 1 /\ Place[L[j]] = j - 1
      BY <1>10
    <2>2. <<L[i], L[j]>> \in R => i < j
      <3>1. <<L[i], L[j]>> \in R => Place[L[i]] < Place[L[j]]
        BY <1>3, <2>1
      <3> QED
        BY <1>1, <2>1, <3>1
    <2>3. <<L[j], L[i]>> \in R => j < i
      <3>1. <<L[j], L[i]>> \in R => Place[L[j]] < Place[L[i]]
        BY <1>3, <2>1
      <3> QED
        BY <1>1, <2>1, <3>1
    <2>4. i # j => L[i] # L[j]
      BY <1>1, <2>1
    <2>5. i < j => <<L[i], L[j]>> \in R
      BY <1>1, <2>1, <2>3, <2>4 DEF IsOrder
    <2> QED
      BY <2>2, <2>5
  <1> QED
    BY <1>1, <1>11, <1>12, <1>13 DEF IsListing

LEMMA IsSequence ==
    ASSUME NEW S, NEW n \in Nat, NEW f \in [1 .. n -> S]
    PROVE  f \in Seq(S) /\ Len(f) = n /\ DOMAIN f = 1 .. n
  OBVIOUS

LEMMA ListingFacts ==
    ASSUME NEW S, NEW R, IsOrder(R, S), NEW L, IsListing(L, S, R)
    PROVE  /\ L \in Seq(S) /\ Len(L) = Cardinality(S) /\ DOMAIN L = 1 .. Cardinality(S)
           /\ \A i, j \in 1 .. Cardinality(S) : L[i] = L[j] => i = j
  <1>1. Cardinality(S) \in Nat /\ L \in [1 .. Cardinality(S) -> S]
    BY DEF IsListing
  <1>2. L \in Seq(S) /\ Len(L) = Cardinality(S) /\ DOMAIN L = 1 .. Cardinality(S)
    BY <1>1
  <1>3. ASSUME NEW i \in 1 .. Cardinality(S), NEW j \in 1 .. Cardinality(S), i < j
        PROVE  L[i] # L[j]
    <2>1. L[i] \in S /\ <<L[i], L[j]>> \in R
      BY <1>1, <1>3 DEF IsListing
    <2> QED
      BY <2>1 DEF IsOrder
  <1>4. \A i, j \in 1 .. Cardinality(S) : L[i] = L[j] => i = j
    <2> TAKE i, j \in 1 .. Cardinality(S)
    <2>1. i < j \/ j < i \/ i = j
      BY <1>1
    <2> QED
      BY <1>3, <2>1
  <1> QED
    BY <1>2, <1>4

LEMMA AscendingLists ==
    ASSUME NEW S \in SUBSET Int, IsFiniteSet(S)
    PROVE  /\ IsListing(Ascending(S), S, {p \in S \X S : p[1] < p[2]})
           /\ Ascending(S) \in Seq(S)
           /\ Len(Ascending(S)) = Cardinality(S)
           /\ \A i, j \in DOMAIN Ascending(S) : Ascending(S)[i] = Ascending(S)[j] => i = j
           /\ \A x \in S : \E i \in DOMAIN Ascending(S) : Ascending(S)[i] = x
  <1> DEFINE R == {p \in S \X S : p[1] < p[2]}
  <1>1. IsOrder(R, S)
    BY DEF IsOrder
  <1>2. Ascending(S) = InOrder(S, R)
    <2>1. \A x \in S : {y \in S : y < x} = Below(S, R, x)
      BY DEF Below
    <2>2. \A k : (CHOOSE x \in S : Cardinality({y \in S : y < x}) = k - 1)
                   = (CHOOSE x \in S : Cardinality(Below(S, R, x)) = k - 1)
      BY <2>1
    <2> QED
      BY <2>2 DEF Ascending, Listed, InOrder
  <1> HIDE DEF R
  <1>3. IsListing(Ascending(S), S, R)
    BY <1>1, <1>2, InOrderLists
  <1>4. \A x \in S : \E i \in DOMAIN Ascending(S) : Ascending(S)[i] = x
    BY <1>1, <1>3, ListingFacts DEF IsListing
  <1> QED
    BY <1>1, <1>3, <1>4, ListingFacts DEF R

-----------------------------------------------------------------------------
(* Segments. *)

Fine(seg) == seg \in Seq(Row) /\ IsInjective(IdsOf(seg))

LEMMA FineFacts ==
    ASSUME NEW seg, Fine(seg)
    PROVE  /\ Len(seg) \in Nat /\ DOMAIN seg = 1 .. Len(seg)
           /\ \A i \in DOMAIN seg : seg[i] \in Row /\ seg[i].id \in Id /\ seg[i].vector \in Vector
                                    /\ seg[i].dead \in BOOLEAN
           /\ \A i, j \in DOMAIN seg : seg[i].id = seg[j].id => i = j
           /\ Live(seg) \in SUBSET Nat /\ IsFiniteSet(Live(seg))
           /\ Live(seg) \in SUBSET (DOMAIN seg)
  <1>1. Len(seg) \in Nat /\ DOMAIN seg = 1 .. Len(seg) /\ \A i \in DOMAIN seg : seg[i] \in Row
    BY DEF Fine
  <1>2. \A i, j \in DOMAIN seg : seg[i].id = seg[j].id => i = j
    BY DEF Fine, IsInjective, IdsOf
  <1>3. Live(seg) \in SUBSET (1 .. Len(seg))
    BY <1>1 DEF Live
  <1>4. IsFiniteSet(Live(seg))
    <2>1. IsFiniteSet(1 .. Len(seg))
      BY <1>1, FS_Interval
    <2> QED
      BY <1>3, <2>1, FS_Subset
  <1> QED
    BY <1>1, <1>2, <1>3, <1>4 DEF Row

LEMMA FineIs ==
    ASSUME NEW n \in Nat, NEW seg \in [1 .. n -> Row],
           \A i, j \in 1 .. n : seg[i].id = seg[j].id => i = j
    PROVE  Fine(seg)
  BY DEF Fine, IsInjective, IdsOf

LEMMA EmptyIsFine == Fine(<<>>) /\ \A id : ~Has(<<>>, id) /\ ~Alive(<<>>, id)
  BY DEF Fine, IsInjective, IdsOf, Has, Alive, Live

LEMMA KillFacts ==
    ASSUME NEW seg, Fine(seg), NEW id \in Id
    PROVE  /\ Fine(Kill(seg, id))
           /\ \A x : Has(Kill(seg, id), x) <=> Has(seg, x)
           /\ \A x : Alive(Kill(seg, id), x) <=> Alive(seg, x) /\ x # id
  <1> DEFINE k == Kill(seg, id)
  <1>1. Len(seg) \in Nat /\ DOMAIN seg = 1 .. Len(seg) /\ k \in [1 .. Len(seg) -> Row]
    <2>1. \A r \in Row : [r EXCEPT !.dead = TRUE] \in Row
      BY DEF Row
    <2> QED
      BY <2>1, FineFacts DEF Kill
  <1>2. \A i \in DOMAIN seg : /\ k[i].id = seg[i].id
                              /\ k[i].dead = (seg[i].dead \/ seg[i].id = id)
    <2> TAKE i \in DOMAIN seg
    <2>1. seg[i] \in Row /\ k[i] = IF seg[i].id = id THEN [seg[i] EXCEPT !.dead = TRUE] ELSE seg[i]
      BY FineFacts DEF Kill
    <2> QED
      BY <2>1 DEF Row
  <1>3. DOMAIN k = DOMAIN seg
    BY DEF Kill
  <1> HIDE DEF k
  <1>4. Fine(k)
    BY <1>1, <1>2, FineFacts, FineIs
  <1> QED
    BY <1>2, <1>3, <1>4 DEF Has, Alive, Live, k

LEMMA PutFacts ==
    ASSUME NEW seg, Fine(seg), NEW id \in Id, NEW vector \in Vector
    PROVE  /\ Fine(Put(seg, id, vector))
           /\ \A x : Has(Put(seg, id, vector), x) <=> Has(seg, x) \/ x = id
  <1> DEFINE row == [id |-> id, vector |-> vector, dead |-> FALSE]
             put == Put(seg, id, vector)
  <1>1. row \in Row /\ row.id = id
    BY DEF Row
  <1>2. /\ Len(seg) \in Nat /\ DOMAIN seg = 1 .. Len(seg)
        /\ \A i \in DOMAIN seg : seg[i] \in Row
        /\ \A i, j \in DOMAIN seg : seg[i].id = seg[j].id => i = j
    BY FineFacts
  <1> HIDE DEF row
  <1>3. CASE Has(seg, id)
    <2>1. put = [i \in DOMAIN seg |-> IF seg[i].id = id THEN row ELSE seg[i]]
      BY <1>3 DEF Put, row
    <2> HIDE DEF put
    <2>2. put \in [1 .. Len(seg) -> Row]
      <3>1. \A i \in 1 .. Len(seg) : (IF seg[i].id = id THEN row ELSE seg[i]) \in Row
        BY <1>1, <1>2
      <3>2. [i \in DOMAIN seg |-> IF seg[i].id = id THEN row ELSE seg[i]] \in [1 .. Len(seg) -> Row]
        BY <1>2, <3>1
      <3> QED
        BY <2>1, <3>2, Zenon
    <2>3. \A i \in 1 .. Len(seg) : put[i].id = seg[i].id
      <3>1. \A i \in 1 .. Len(seg) : put[i] = IF seg[i].id = id THEN row ELSE seg[i]
        BY <1>2, <2>1
      <3> QED
        BY <1>1, <3>1
    <2>4. Fine(put)
      BY <1>2, <2>2, <2>3, FineIs
    <2>5. \A x : Has(put, x) <=> Has(seg, x)
      BY <1>2, <2>2, <2>3 DEF Has
    <2> QED
      BY <1>3, <2>4, <2>5 DEF put
  <1>4. CASE ~Has(seg, id)
    <2>1. put = Append(seg, row)
      BY <1>4 DEF Put, row
    <2>2. /\ put \in [1 .. Len(seg) + 1 -> Row]
          /\ \A i \in 1 .. Len(seg) : put[i] = seg[i]
          /\ put[Len(seg) + 1] = row
      <3>1. seg \in Seq(Row)
        BY DEF Fine
      <3>2. /\ put \in Seq(Row) /\ Len(put) = Len(seg) + 1 /\ put[Len(seg) + 1] = row
            /\ \A i \in 1 .. Len(seg) : put[i] = seg[i]
        BY <1>1, <2>1, <3>1, AppendProperties
      <3> HIDE DEF put
      <3> QED
        BY <3>2, LenProperties, ElementOfSeq
    <2> HIDE DEF put
    <2>3. \A i \in 1 .. Len(seg) : seg[i].id # id
      BY <1>2, <1>4 DEF Has
    <2>4. \A i, j \in 1 .. Len(seg) + 1 : put[i].id = put[j].id => i = j
      <3> TAKE i, j \in 1 .. Len(seg) + 1
      <3>1. (i \in 1 .. Len(seg) \/ i = Len(seg) + 1) /\ (j \in 1 .. Len(seg) \/ j = Len(seg) + 1)
        BY <1>2
      <3> QED
        BY <1>1, <1>2, <2>2, <2>3, <3>1
    <2>5. Fine(put)
      BY <1>2, <2>2, <2>4, FineIs
    <2>6. ASSUME NEW x PROVE Has(put, x) <=> Has(seg, x) \/ x = id
      <3>1. DOMAIN put = 1 .. Len(seg) + 1 /\ Len(seg) + 1 \in 1 .. Len(seg) + 1
        BY <1>2, <2>2
      <3>2. \A i \in DOMAIN put : i \in DOMAIN seg \/ i = Len(seg) + 1
        BY <1>2, <3>1
      <3>3. \A i \in DOMAIN seg : i \in DOMAIN put
        BY <1>2, <3>1
      <3> QED
        BY <1>1, <1>2, <2>2, <3>1, <3>2, <3>3 DEF Has
    <2> QED
      BY <2>5, <2>6 DEF put
  <1> QED
    BY <1>3, <1>4

(* A sequence with one element left out. *)
LEMMA RemoveAtFacts ==
    ASSUME NEW S, NEW s \in Seq(S), NEW i \in DOMAIN s
    PROVE  /\ RemoveAt(s, i) \in Seq(S)
           /\ Len(RemoveAt(s, i)) = Len(s) - 1
           /\ \A j \in 1 .. Len(s) - 1 : RemoveAt(s, i)[j] = IF j < i THEN s[j] ELSE s[j + 1]
  <1> DEFINE a == SubSeq(s, 1, i - 1)
             b == SubSeq(s, i + 1, Len(s))
  <1>1. Len(s) \in Nat /\ i \in 1 .. Len(s) /\ \A j \in 1 .. Len(s) : s[j] \in S
    BY LenProperties, ElementOfSeq
  <1>2. /\ a \in Seq(S) /\ Len(a) = i - 1
        /\ \A j \in 1 .. i - 1 : a[j] = s[j]
    <2>1. 1 \in Int /\ i - 1 \in Int /\ \A j \in 1 .. i - 1 : s[j] \in S
      BY <1>1
    <2>2. /\ a \in Seq(S)
          /\ Len(a) = IF 1 <= i - 1 THEN (i - 1) - 1 + 1 ELSE 0
          /\ \A j \in 1 .. (i - 1) - 1 + 1 : a[j] = s[1 + j - 1]
      BY <2>1, SubSeqProperties
    <2> HIDE DEF a
    <2>3. (IF 1 <= i - 1 THEN (i - 1) - 1 + 1 ELSE 0) = i - 1
      BY <1>1
    <2>4. \A j \in 1 .. i - 1 : j \in 1 .. (i - 1) - 1 + 1 /\ 1 + j - 1 = j
      BY <1>1
    <2> QED
      BY <2>2, <2>3, <2>4
  <1>3. /\ b \in Seq(S) /\ Len(b) = Len(s) - i
        /\ \A j \in 1 .. Len(s) - i : b[j] = s[i + j]
    <2>1. i + 1 \in Int /\ Len(s) \in Int /\ \A j \in i + 1 .. Len(s) : s[j] \in S
      BY <1>1
    <2>2. /\ b \in Seq(S)
          /\ Len(b) = IF i + 1 <= Len(s) THEN Len(s) - (i + 1) + 1 ELSE 0
          /\ \A j \in 1 .. Len(s) - (i + 1) + 1 : b[j] = s[(i + 1) + j - 1]
      BY <2>1, SubSeqProperties
    <2> HIDE DEF b
    <2>3. (IF i + 1 <= Len(s) THEN Len(s) - (i + 1) + 1 ELSE 0) = Len(s) - i
      BY <1>1
    <2>4. \A j \in 1 .. Len(s) - i : j \in 1 .. Len(s) - (i + 1) + 1 /\ (i + 1) + j - 1 = i + j
      BY <1>1
    <2> QED
      BY <2>2, <2>3, <2>4
  <1>4. RemoveAt(s, i) = a \o b
    BY DEF RemoveAt
  <1> HIDE DEF a, b
  <1>5. /\ a \o b \in Seq(S)
        /\ Len(a \o b) = Len(a) + Len(b)
        /\ \A j \in 1 .. Len(a) + Len(b) : (a \o b)[j] = IF j <= Len(a) THEN a[j] ELSE b[j - Len(a)]
    BY <1>2, <1>3, ConcatProperties
  <1>6. Len(a) + Len(b) = Len(s) - 1
    BY <1>1, <1>2, <1>3
  <1>7. ASSUME NEW j \in 1 .. Len(s) - 1
        PROVE  (a \o b)[j] = IF j < i THEN s[j] ELSE s[j + 1]
    <2>1. (a \o b)[j] = IF j <= i - 1 THEN a[j] ELSE b[j - (i - 1)]
      BY <1>2, <1>5, <1>6
    <2>2. CASE j < i
      BY <1>1, <1>2, <2>1, <2>2
    <2>3. CASE ~(j < i)
      <3>1. j - (i - 1) \in 1 .. Len(s) - i /\ i + (j - (i - 1)) = j + 1 /\ ~(j <= i - 1)
        BY <1>1, <2>3
      <3>2. b[j - (i - 1)] = s[i + (j - (i - 1))]
        BY <1>3, <3>1
      <3> QED
        BY <2>1, <2>3, <3>1, <3>2
    <2> QED
      BY <2>2, <2>3
  <1> QED
    BY <1>4, <1>5, <1>6, <1>7

-----------------------------------------------------------------------------
(* The view: an id is alive in at most one immutable segment, and in none  *)
(* when the mutable segment has a row for it, even a dead one.             *)

FineView(m, imms) ==
    /\ Fine(m)
    /\ imms \in Seq(Seq(Row))
    /\ \A s \in DOMAIN imms : Fine(imms[s])
    /\ \A s, t \in DOMAIN imms, id \in Id : Alive(imms[s], id) /\ Alive(imms[t], id) => s = t
    /\ \A s \in DOMAIN imms, id \in Id : Has(m, id) => ~Alive(imms[s], id)

(* Segments that are part of other segments, each of another one. *)
LEMMA ThinnedView ==
    ASSUME NEW m, NEW imms, FineView(m, imms),
           NEW thin \in Seq(Seq(Row)), NEW from \in [DOMAIN thin -> DOMAIN imms],
           \A s, t \in DOMAIN thin : from[s] = from[t] => s = t,
           \A s \in DOMAIN thin : /\ Fine(thin[s])
                                  /\ \A id \in Id : Alive(thin[s], id) => Alive(imms[from[s]], id)
    PROVE  FineView(m, thin)
  <1>1. \A s \in DOMAIN thin : from[s] \in DOMAIN imms
    OBVIOUS
  <1>2. ASSUME NEW s \in DOMAIN thin, NEW t \in DOMAIN thin, NEW id \in Id,
               Alive(thin[s], id), Alive(thin[t], id)
        PROVE  s = t
    <2>1. Alive(imms[from[s]], id) /\ Alive(imms[from[t]], id)
      BY <1>2
    <2>2. from[s] = from[t]
      BY <1>1, <2>1 DEF FineView
    <2> QED
      BY <2>2
  <1>3. ASSUME NEW s \in DOMAIN thin, NEW id \in Id, Has(m, id)
        PROVE  ~Alive(thin[s], id)
    BY <1>1, <1>3 DEF FineView
  <1> QED
    BY <1>2, <1>3 DEF FineView

(* The live rows of a segment in their order. *)
LEMMA KeptFacts ==
    ASSUME NEW seg, Fine(seg), NEW kept, kept = Ascending(Live(seg)),
           NEW rows, rows = [k \in DOMAIN kept |-> seg[kept[k]]]
    PROVE  Fine(rows) /\ \A id : Alive(rows, id) => Alive(seg, id)
  <1> DEFINE n == Cardinality(Live(seg))
  <1>1. /\ DOMAIN seg = 1 .. Len(seg)
        /\ \A i \in DOMAIN seg : seg[i] \in Row
        /\ \A i, j \in DOMAIN seg : seg[i].id = seg[j].id => i = j
        /\ Live(seg) \in SUBSET Int /\ IsFiniteSet(Live(seg)) /\ Live(seg) \in SUBSET (DOMAIN seg)
    BY FineFacts
  <1>2. /\ n \in Nat /\ kept \in [1 .. n -> Live(seg)]
        /\ \A i, j \in 1 .. n : kept[i] = kept[j] => i = j
    <2>1. /\ kept \in Seq(Live(seg)) /\ Len(kept) = n
          /\ \A i, j \in DOMAIN kept : kept[i] = kept[j] => i = j
      BY <1>1, AscendingLists
    <2> QED
      BY <2>1, LenProperties
  <1> HIDE DEF n
  <1>3. DOMAIN rows = 1 .. n /\ \A k \in 1 .. n : rows[k] = seg[kept[k]] /\ kept[k] \in Live(seg)
    BY <1>2
  <1>4. rows \in [1 .. n -> Row]
    BY <1>1, <1>2
  <1>5. \A i, j \in 1 .. n : rows[i].id = rows[j].id => i = j
    BY <1>1, <1>2, <1>3
  <1>6. Fine(rows)
    BY <1>2, <1>4, <1>5, FineIs
  <1>7. \A id : Alive(rows, id) => Alive(seg, id)
    BY <1>3 DEF Alive, Live
  <1> QED
    BY <1>6, <1>7

LEMMA RebuildFacts ==
    ASSUME NEW m, NEW imms, FineView(m, imms), NEW i
    PROVE  FineView(m, Rebuild(imms, i))
  <1> DEFINE kept == Ascending(Live(imms[i]))
             rows == [k \in DOMAIN kept |-> imms[i][kept[k]]]
  <1>1. imms \in Seq(Seq(Row)) /\ DOMAIN imms = 1 .. Len(imms) /\ Len(imms) \in Nat
    BY LenProperties DEF FineView
  <1>2. CASE i \notin DOMAIN imms
    BY <1>2 DEF Rebuild
  <1>3. CASE i \in DOMAIN imms /\ kept = <<>>
    <2> DEFINE thin == RemoveAt(imms, i)
               from == [s \in DOMAIN thin |-> IF s < i THEN s ELSE s + 1]
    <2>1. thin = Rebuild(imms, i)
      BY <1>3 DEF Rebuild
    <2>2. /\ thin \in Seq(Seq(Row)) /\ Len(thin) = Len(imms) - 1
          /\ \A j \in 1 .. Len(imms) - 1 : thin[j] = IF j < i THEN imms[j] ELSE imms[j + 1]
      BY <1>1, <1>3, RemoveAtFacts
    <2> HIDE DEF thin
    <2>3. DOMAIN thin = 1 .. Len(imms) - 1
      BY <2>2, LenProperties
    <2>4. \A s \in DOMAIN thin : from[s] \in DOMAIN imms /\ thin[s] = imms[from[s]]
      <3> TAKE s \in DOMAIN thin
      <3>1. from[s] = IF s < i THEN s ELSE s + 1
        OBVIOUS
      <3>2. s \in 1 .. Len(imms) - 1 /\ i \in 1 .. Len(imms)
        BY <1>1, <1>3, <2>3
      <3>3. s \in 1 .. Len(imms) /\ s + 1 \in 1 .. Len(imms)
        BY <1>1, <3>2
      <3> HIDE DEF from
      <3>4. thin[s] = IF s < i THEN imms[s] ELSE imms[s + 1]
        BY <2>2, <3>2
      <3> QED
        BY <1>1, <3>1, <3>3, <3>4
    <2>5. \A s, t \in DOMAIN thin : from[s] = from[t] => s = t
      BY <1>1, <1>3, <2>3
    <2>6. from \in [DOMAIN thin -> DOMAIN imms]
      BY <2>4
    <2> HIDE DEF from
    <2>7. FineView(m, thin)
      <3>1. \A s \in DOMAIN thin : Fine(thin[s]) /\ \A id \in Id : Alive(thin[s], id) => Alive(imms[from[s]], id)
        BY <2>4 DEF FineView
      <3> QED
        BY <2>2, <2>4, <2>5, <2>6, <3>1, ThinnedView
    <2> QED
      BY <2>1, <2>7
  <1>4. CASE i \in DOMAIN imms /\ kept # <<>>
    <2> DEFINE thin == [imms EXCEPT ![i] = rows]
               from == [s \in DOMAIN thin |-> s]
    <2>1. thin = Rebuild(imms, i)
      BY <1>4 DEF Rebuild
    <2>2. Fine(rows) /\ \A id : Alive(rows, id) => Alive(imms[i], id)
      BY <1>4, KeptFacts DEF FineView
    <2> HIDE DEF kept, rows
    <2>3. /\ thin \in Seq(Seq(Row)) /\ DOMAIN thin = DOMAIN imms
          /\ \A s \in DOMAIN imms : thin[s] = IF s = i THEN rows ELSE imms[s]
      BY <1>1, <1>4, <2>2 DEF Fine
    <2> HIDE DEF thin
    <2>4. FineView(m, thin)
      <3>1. \A s \in DOMAIN thin : Fine(thin[s]) /\ \A id \in Id : Alive(thin[s], id) => Alive(imms[from[s]], id)
        BY <2>2, <2>3 DEF FineView
      <3>2. from \in [DOMAIN thin -> DOMAIN imms] /\ \A s, t \in DOMAIN thin : from[s] = from[t] => s = t
        BY <2>3
      <3> HIDE DEF from
      <3> QED
        BY <2>3, <3>1, <3>2, ThinnedView
    <2> QED
      BY <2>1, <2>4
  <1> QED
    BY <1>2, <1>3, <1>4

(* Loops: what holds at first and is kept by every iteration. *)
LEMMA LoopKeeps ==
    ASSUME NEW n \in Nat, NEW T, NEW f, f[0] \in T, \A k \in 1 .. n : f[k - 1] \in T => f[k] \in T
    PROVE  \A k \in 0 .. n : f[k] \in T
  <1> DEFINE S == {k \in 0 .. n : f[k] \in T}
  <1>1. 0 \in S
    OBVIOUS
  <1>2. ASSUME NEW k \in 0 .. n - 1, k \in S PROVE k + 1 \in S
    <2>1. k + 1 \in 1 .. n /\ k + 1 - 1 = k /\ f[k] \in T
      BY <1>2
    <2>2. f[k + 1] \in T
      BY <2>1
    <2> QED
      BY <2>1, <2>2
  <1>3. \A k \in S : f[k] \in T
    OBVIOUS
  <1> HIDE DEF S
  <1>4. \A k \in 0 .. n : k \in S
    BY <1>1, <1>2, LoopInduction
  <1> QED
    BY <1>3, <1>4

LEMMA RebuildAllFacts ==
    ASSUME NEW m, NEW imms, FineView(m, imms)
    PROVE  FineView(m, RebuildAll(imms))
  <1> DEFINE T == {w \in Seq(Seq(Row)) : FineView(m, w)}
             positions == Ascending(Degraded(imms))
             n == Len(positions)
             step == [k \in 1 .. n |-> [t \in T |-> Rebuild(t, positions[k])]]
             F == CHOOSE f : f = [k \in 0 .. n |-> IF k = 0 THEN imms ELSE Rebuild(f[k - 1], positions[k])]
  <1>1. imms \in T
    BY DEF FineView
  <1>2. n \in Nat
    <2>1. DOMAIN imms = 1 .. Len(imms) /\ Len(imms) \in Nat
      BY LenProperties DEF FineView
    <2>2. Degraded(imms) \in SUBSET Int /\ Degraded(imms) \in SUBSET (1 .. Len(imms))
      BY <2>1 DEF Degraded
    <2>3. IsFiniteSet(1 .. Len(imms))
      BY <2>1, FS_Interval
    <2>4. IsFiniteSet(Degraded(imms))
      BY <2>2, <2>3, FS_Subset
    <2> QED
      BY <2>2, <2>4, AscendingLists, FS_CardinalityType
  <1>3. RebuildAll(imms) = F[n]
    BY DEF RebuildAll
  <1> HIDE DEF n, positions
  <1>4. \A k \in 1 .. n : \A t \in T : step[k][t] = Rebuild(t, positions[k]) /\ step[k][t] \in T
    <2>1. ASSUME NEW k, NEW t \in T PROVE Rebuild(t, positions[k]) \in T
      <3>1. FineView(m, Rebuild(t, positions[k]))
        BY RebuildFacts
      <3> QED
        BY <3>1 DEF FineView
    <2> HIDE DEF T
    <2> QED
      BY <2>1
  <1>5. \A t \in T : FineView(m, t)
    OBVIOUS
  <1> HIDE DEF T, step
  <1>6. PICK c : c \in [0 .. n -> T] /\ c[0] = imms /\ \A k \in 1 .. n : c[k] = step[k][c[k - 1]]
    <2>1. PICK c : IsRun(c, step, n, imms, T)
      <3>1. AreSteps(step, n, T)
        BY <1>4 DEF AreSteps
      <3> QED
        BY <1>1, <1>2, <3>1, StepsExist
    <2> QED
      BY <2>1 DEF IsRun
  <1>7. c = [k \in 0 .. n |-> IF k = 0 THEN imms ELSE Rebuild(c[k - 1], positions[k])]
    <2>1. ASSUME NEW k \in 0 .. n PROVE c[k] = IF k = 0 THEN imms ELSE Rebuild(c[k - 1], positions[k])
      <3>1. CASE k = 0
        BY <1>6, <3>1
      <3>2. CASE k # 0
        <4>1. k \in 1 .. n /\ k - 1 \in 0 .. n
          BY <1>2, <3>2
        <4> QED
          BY <1>4, <1>6, <3>2, <4>1
      <3> QED
        BY <3>1, <3>2
    <2> QED
      BY <1>6, <2>1
  <1>8. F = [k \in 0 .. n |-> IF k = 0 THEN imms ELSE Rebuild(F[k - 1], positions[k])]
    BY <1>7
  <1> HIDE DEF F
  <1>9. F[0] \in T /\ \A k \in 1 .. n : F[k - 1] \in T => F[k] \in T
    <2>1. F[0] \in T
      BY <1>1, <1>2, <1>8
    <2>2. ASSUME NEW k \in 1 .. n, F[k - 1] \in T PROVE F[k] \in T
      <3>1. k \in 0 .. n /\ k # 0
        BY <1>2
      <3>2. F[k] = Rebuild(F[k - 1], positions[k])
        BY <1>8, <3>1
      <3> QED
        BY <1>4, <2>2, <3>2
    <2> QED
      BY <2>1, <2>2
  <1>10. F[n] \in T
    <2>1. \A k \in 0 .. n : F[k] \in T
      BY <1>2, <1>9, LoopKeeps
    <2> QED
      BY <1>2, <2>1
  <1> QED
    BY <1>3, <1>5, <1>10

-----------------------------------------------------------------------------
(* Places. *)

ViewInv == FineView(mutable, immutables)

LEMMA SegsFacts ==
    ASSUME ViewInv
    PROVE  /\ Segs \in Seq(Seq(Row)) /\ Len(Segs) = Len(immutables) + 1 /\ Len(immutables) \in Nat
           /\ DOMAIN Segs = 1 .. Len(immutables) + 1
           /\ DOMAIN immutables = 1 .. Len(immutables)
           /\ Segs[Len(immutables) + 1] = mutable
           /\ \A s \in DOMAIN immutables : Segs[s] = immutables[s]
           /\ \A s \in DOMAIN Segs : Fine(Segs[s])
  <1>1. immutables \in Seq(Seq(Row)) /\ mutable \in Seq(Row)
    BY DEF ViewInv, FineView, Fine
  <1>2. DOMAIN immutables = 1 .. Len(immutables) /\ Len(immutables) \in Nat
    BY <1>1, LenProperties
  <1>3. /\ Segs \in Seq(Seq(Row)) /\ Len(Segs) = Len(immutables) + 1
        /\ Segs[Len(immutables) + 1] = mutable
        /\ \A s \in 1 .. Len(immutables) : Segs[s] = immutables[s]
    BY <1>1, AppendProperties DEF Segs
  <1>4. DOMAIN Segs = 1 .. Len(immutables) + 1
    BY <1>3, LenProperties
  <1>5. \A s \in DOMAIN Segs : s \in DOMAIN immutables \/ s = Len(immutables) + 1
    BY <1>2, <1>4
  <1>6. \A s \in DOMAIN Segs : Fine(Segs[s])
    BY <1>2, <1>3, <1>5 DEF ViewInv, FineView
  <1> QED
    BY <1>2, <1>3, <1>4, <1>6

LEMMA PlaceFacts ==
    ASSUME ViewInv
    PROVE  /\ \A p \in LivePlaces : /\ p = <<p[1], p[2]>> /\ p[1] \in DOMAIN Segs /\ p[1] \in Nat
                                    /\ p[2] \in Live(Segs[p[1]]) /\ p[2] \in Nat
                                    /\ RowAt(p) \in Row /\ ~RowAt(p).dead
                                    /\ RowAt(p).id \in Id /\ RowAt(p).vector \in Vector
           /\ \A s \in DOMAIN Segs : \A i \in Live(Segs[s]) : <<s, i>> \in LivePlaces
           /\ IsFiniteSet(LivePlaces)
           /\ \A p, q \in LivePlaces : RowAt(p).id = RowAt(q).id => p = q
  <1>1. \A p \in LivePlaces : p = <<p[1], p[2]>> /\ p[1] \in DOMAIN Segs /\ p[2] \in Live(Segs[p[1]])
    BY DEF LivePlaces
  <1>2. \A s \in DOMAIN Segs : \A i \in Live(Segs[s]) : <<s, i>> \in LivePlaces
    BY DEF LivePlaces
  <1>3. ASSUME NEW p \in LivePlaces
        PROVE  /\ p[1] \in Nat /\ p[2] \in Nat /\ p[2] \in DOMAIN Segs[p[1]]
               /\ RowAt(p) \in Row /\ ~RowAt(p).dead
               /\ RowAt(p).id \in Id /\ RowAt(p).vector \in Vector
    <2>1. Fine(Segs[p[1]]) /\ p[1] \in Nat
      BY <1>1, SegsFacts
    <2>2. p[2] \in DOMAIN Segs[p[1]] /\ ~Segs[p[1]][p[2]].dead
      BY <1>1 DEF Live
    <2>3. p[2] \in Nat
      BY <1>1, <2>1, FineFacts
    <2>4. Segs[p[1]][p[2]] \in Row /\ Segs[p[1]][p[2]].id \in Id /\ Segs[p[1]][p[2]].vector \in Vector
      BY <2>1, <2>2, FineFacts
    <2> QED
      BY <2>1, <2>2, <2>3, <2>4 DEF RowAt
  <1>4. IsFiniteSet(LivePlaces)
    <2> DEFINE f == [s \in DOMAIN Segs |-> {s} \X Live(Segs[s])]
               U == {{s} \X Live(Segs[s]) : s \in DOMAIN Segs}
    <2>1. f \in Surjection(DOMAIN Segs, U)
      BY DEF Surjection
    <2>2. IsFiniteSet(DOMAIN Segs)
      <3>1. DOMAIN Segs = 1 .. Len(immutables) + 1 /\ Len(immutables) + 1 \in Int
        BY SegsFacts
      <3> QED
        BY <3>1, FS_Interval
    <2>3. IsFiniteSet(U)
      BY <2>1, <2>2, FS_Surjection
    <2>4. \A S \in U : IsFiniteSet(S)
      <3>1. ASSUME NEW s \in DOMAIN Segs PROVE IsFiniteSet({s} \X Live(Segs[s]))
        BY SegsFacts, FineFacts, FS_Singleton, FS_Product
      <3> QED
        BY <3>1
    <2> HIDE DEF U
    <2>5. IsFiniteSet(UNION U)
      BY <2>3, <2>4, FS_UNION
    <2> QED
      BY <2>5 DEF LivePlaces, U
  <1>5. ASSUME NEW p \in LivePlaces, NEW q \in LivePlaces, RowAt(p).id = RowAt(q).id PROVE p = q
    <2> DEFINE id == RowAt(p).id
    <2>1. id \in Id /\ Alive(Segs[p[1]], id) /\ Alive(Segs[q[1]], id)
      BY <1>1, <1>3, <1>5 DEF Alive, RowAt
    <2>2. Has(mutable, id) <=> Has(Segs[Len(immutables) + 1], id)
      BY SegsFacts
    <2>3. \A s : Alive(Segs[s], id) => Has(Segs[s], id)
      BY DEF Alive, Has, Live
    <2>4. p[1] = q[1]
      <3>1. \A s \in DOMAIN Segs : s \in DOMAIN immutables \/ s = Len(immutables) + 1
        BY SegsFacts
      <3>2. p[1] \in DOMAIN Segs /\ q[1] \in DOMAIN Segs
        BY <1>1
      <3> HIDE DEF id
      <3>3. CASE p[1] = Len(immutables) + 1 /\ q[1] = Len(immutables) + 1
        BY <3>3
      <3>4. CASE p[1] = Len(immutables) + 1 /\ q[1] \in DOMAIN immutables
        <4>1. Has(mutable, id) /\ Alive(immutables[q[1]], id)
          BY <2>1, <2>2, <2>3, <3>4, SegsFacts
        <4> QED
          BY <2>1, <3>4, <4>1 DEF ViewInv, FineView
      <3>5. CASE q[1] = Len(immutables) + 1 /\ p[1] \in DOMAIN immutables
        <4>1. Has(mutable, id) /\ Alive(immutables[p[1]], id)
          BY <2>1, <2>2, <2>3, <3>5, SegsFacts
        <4> QED
          BY <2>1, <3>5, <4>1 DEF ViewInv, FineView
      <3>6. CASE p[1] \in DOMAIN immutables /\ q[1] \in DOMAIN immutables
        <4>1. Alive(immutables[p[1]], id) /\ Alive(immutables[q[1]], id)
          BY <2>1, <3>6, SegsFacts
        <4> QED
          BY <2>1, <3>6, <4>1 DEF ViewInv, FineView
      <3> QED
        BY <3>1, <3>2, <3>3, <3>4, <3>5, <3>6
    <2>5. p[2] = q[2]
      <3>1. Fine(Segs[p[1]])
        BY <1>1, SegsFacts
      <3>2. Segs[p[1]][p[2]].id = Segs[p[1]][q[2]].id /\ p[2] \in DOMAIN Segs[p[1]] /\ q[2] \in DOMAIN Segs[p[1]]
        BY <1>3, <1>5, <2>4 DEF RowAt
      <3> QED
        BY <3>1, <3>2, FineFacts
    <2> QED
      BY <1>1, <2>4, <2>5
  <1> QED
    BY <1>1, <1>2, <1>3, <1>4, <1>5

Pairs(S) == {o \in S \X S : InsertedBefore(o[1], o[2])}

LEMMA InsertedLists ==
    ASSUME NEW S, IsFiniteSet(S),
           \A p \in S : p = <<p[1], p[2]>> /\ p[1] \in Nat /\ p[2] \in Nat
    PROVE  /\ Listed(S, InsertedBefore) \in Seq(S)
           /\ Len(Listed(S, InsertedBefore)) = Cardinality(S)
  <1>1. IsOrder(Pairs(S), S)
    <2>1. \A p, q \in S : <<p, q>> \in Pairs(S) <=> InsertedBefore(p, q)
      BY DEF Pairs
    <2>2. \A p \in S : ~InsertedBefore(p, p)
      BY DEF InsertedBefore
    <2>3. ASSUME NEW p \in S, NEW q \in S, p # q PROVE InsertedBefore(p, q) \/ InsertedBefore(q, p)
      <3>1. p[1] # q[1] \/ p[2] # q[2]
        BY <2>3
      <3> QED
        BY <3>1 DEF InsertedBefore
    <2>4. \A p, q, r \in S : InsertedBefore(p, q) /\ InsertedBefore(q, r) => InsertedBefore(p, r)
      BY DEF InsertedBefore
    <2> QED
      BY <2>1, <2>2, <2>3, <2>4 DEF IsOrder
  <1>2. Listed(S, InsertedBefore) = InOrder(S, Pairs(S))
    <2> DEFINE L == Listed(S, InsertedBefore)
               M == InOrder(S, Pairs(S))
    <2>1. \A x \in S : {y \in S : InsertedBefore(y, x)} = Below(S, Pairs(S), x)
      BY DEF Below, Pairs
    <2>2. M = [k \in 1 .. Cardinality(S) |-> M[k]]
      BY DEF InOrder
    <2>3. ASSUME NEW k \in 1 .. Cardinality(S)
          PROVE  M[k] = CHOOSE x \in S : Cardinality({y \in S : InsertedBefore(y, x)}) = k - 1
      <3>1. M[k] = CHOOSE x \in S : Cardinality(Below(S, Pairs(S), x)) = k - 1
        BY DEF InOrder
      <3> HIDE DEF M
      <3> QED
        BY <2>1, <3>1
    <2> HIDE DEF M
    <2>4. L = [k \in 1 .. Cardinality(S) |-> M[k]]
      BY <2>3, Zenon DEF Listed
    <2> QED
      BY <2>2, <2>4 DEF M
  <1>3. IsListing(Listed(S, InsertedBefore), S, Pairs(S))
    BY <1>1, <1>2, InOrderLists
  <1> QED
    BY <1>1, <1>3, ListingFacts

LEMMA MergedFacts ==
    ASSUME ViewInv
    PROVE  Fine(Merged)
  <1> DEFINE T == {seg \in Seq(Row) : Fine(seg)}
             rows == Listed(LivePlaces, InsertedBefore)
             n == Len(rows)
             step == [k \in 1 .. n |-> [t \in T |-> Put(t, RowAt(rows[k]).id, RowAt(rows[k]).vector)]]
             F == CHOOSE f : f = [k \in 0 .. n |->
                    IF k = 0 THEN <<>> ELSE Put(f[k - 1], RowAt(rows[k]).id, RowAt(rows[k]).vector)]
  <1>1. n \in Nat /\ \A k \in 1 .. n : rows[k] \in LivePlaces
    <2>1. rows \in Seq(LivePlaces)
      BY PlaceFacts, InsertedLists
    <2> HIDE DEF rows
    <2> QED
      BY <2>1, LenProperties, ElementOfSeq
  <1>2. Merged = F[n]
    BY DEF Merged
  <1> HIDE DEF n, rows
  <1>3. \A t \in T : Fine(t)
    OBVIOUS
  <1>4. <<>> \in T
    BY EmptyIsFine
  <1>5. \A k \in 1 .. n : \A t \in T :
          /\ step[k][t] = Put(t, RowAt(rows[k]).id, RowAt(rows[k]).vector)
          /\ step[k][t] \in T
    <2>1. ASSUME NEW k \in 1 .. n, NEW t \in T
          PROVE  Put(t, RowAt(rows[k]).id, RowAt(rows[k]).vector) \in T
      <3>1. RowAt(rows[k]).id \in Id /\ RowAt(rows[k]).vector \in Vector
        BY <1>1, PlaceFacts
      <3>2. Fine(Put(t, RowAt(rows[k]).id, RowAt(rows[k]).vector))
        BY <1>3, <3>1, PutFacts
      <3> QED
        BY <3>2 DEF Fine
    <2> HIDE DEF T
    <2> QED
      BY <2>1
  <1> HIDE DEF T, step
  <1>6. PICK c : c \in [0 .. n -> T] /\ c[0] = <<>> /\ \A k \in 1 .. n : c[k] = step[k][c[k - 1]]
    <2>1. PICK c : IsRun(c, step, n, <<>>, T)
      <3>1. AreSteps(step, n, T)
        BY <1>5 DEF AreSteps
      <3> QED
        BY <1>1, <1>4, <3>1, StepsExist
    <2> QED
      BY <2>1 DEF IsRun
  <1>7. c = [k \in 0 .. n |->
               IF k = 0 THEN <<>> ELSE Put(c[k - 1], RowAt(rows[k]).id, RowAt(rows[k]).vector)]
    <2>1. ASSUME NEW k \in 0 .. n
          PROVE  c[k] = IF k = 0 THEN <<>> ELSE Put(c[k - 1], RowAt(rows[k]).id, RowAt(rows[k]).vector)
      <3>1. CASE k = 0
        BY <1>6, <3>1
      <3>2. CASE k # 0
        <4>1. k \in 1 .. n /\ k - 1 \in 0 .. n
          BY <1>1, <3>2
        <4> QED
          BY <1>5, <1>6, <3>2, <4>1
      <3> QED
        BY <3>1, <3>2
    <2> QED
      BY <1>6, <2>1
  <1>8. F = [k \in 0 .. n |->
               IF k = 0 THEN <<>> ELSE Put(F[k - 1], RowAt(rows[k]).id, RowAt(rows[k]).vector)]
    BY <1>7
  <1> HIDE DEF F
  <1>9. F[0] \in T /\ \A k \in 1 .. n : F[k - 1] \in T => F[k] \in T
    <2>1. F[0] \in T
      BY <1>1, <1>4, <1>8
    <2>2. ASSUME NEW k \in 1 .. n, F[k - 1] \in T PROVE F[k] \in T
      <3>1. k \in 0 .. n /\ k # 0
        BY <1>1
      <3>2. F[k] = Put(F[k - 1], RowAt(rows[k]).id, RowAt(rows[k]).vector)
        BY <1>8, <3>1
      <3> QED
        BY <1>5, <2>2, <3>2
    <2> QED
      BY <2>1, <2>2
  <1>10. F[n] \in T
    <2>1. \A k \in 0 .. n : F[k] \in T
      BY <1>1, <1>9, LoopKeeps
    <2> QED
      BY <1>1, <2>1
  <1> QED
    BY <1>2, <1>3, <1>10

-----------------------------------------------------------------------------
(* The calls that write. *)

LEMMA UpsertKeepsView ==
    ASSUME ViewInv, NEW id \in Id, NEW vector \in Vector, Upsert(id, vector)
    PROVE  ViewInv'
  <1>1. /\ Fine(mutable) /\ immutables \in Seq(Seq(Row))
        /\ DOMAIN immutables = 1 .. Len(immutables) /\ Len(immutables) \in Nat
        /\ \A s \in DOMAIN immutables : Fine(immutables[s])
    BY LenProperties DEF ViewInv, FineView
  <1>2. /\ Fine(mutable')
        /\ \A x : Has(mutable', x) <=> Has(mutable, x) \/ x = id
    BY <1>1, PutFacts DEF Upsert
  <1>3. CASE Has(mutable, id)
    <2>1. immutables' = immutables /\ \A x : Has(mutable', x) <=> Has(mutable, x)
      BY <1>2, <1>3 DEF Upsert
    <2> QED
      BY <1>2, <2>1 DEF ViewInv, FineView
  <1>4. CASE ~Has(mutable, id)
    <2>1. immutables' = [i \in DOMAIN immutables |-> Kill(immutables[i], id)]
      BY <1>4 DEF Upsert
    <2>2. /\ DOMAIN immutables' = DOMAIN immutables
          /\ \A s \in DOMAIN immutables : immutables'[s] = Kill(immutables[s], id)
      BY <2>1
    <2>3. \A s \in DOMAIN immutables :
            /\ Fine(immutables'[s])
            /\ \A x : Alive(immutables'[s], x) <=> Alive(immutables[s], x) /\ x # id
      BY <1>1, <2>2, KillFacts
    <2>4. immutables' \in Seq(Seq(Row))
      <3>1. immutables' \in [1 .. Len(immutables) -> Seq(Row)]
        BY <1>1, <2>1, <2>2, <2>3 DEF Fine
      <3> QED
        BY <1>1, <3>1, IsSequence
    <2> QED
      BY <1>2, <2>2, <2>3, <2>4 DEF ViewInv, FineView
  <1> QED
    BY <1>3, <1>4

LEMMA DeleteKeepsView ==
    ASSUME ViewInv, NEW id \in Id, Delete(id)
    PROVE  ViewInv'
  <1> DEFINE holders == {i \in DOMAIN immutables : Alive(immutables[i], id)}
             killed == IF Alive(mutable, id) \/ holders = {} THEN immutables
                       ELSE [immutables EXCEPT ![Min(holders)] = Kill(@, id)]
  <1>1. /\ Fine(mutable) /\ immutables \in Seq(Seq(Row))
        /\ DOMAIN immutables = 1 .. Len(immutables) /\ Len(immutables) \in Nat
        /\ \A s \in DOMAIN immutables : Fine(immutables[s])
    BY LenProperties DEF ViewInv, FineView
  <1>2. /\ Fine(Kill(mutable, id))
        /\ \A x : Has(Kill(mutable, id), x) <=> Has(mutable, x)
    BY <1>1, KillFacts
  <1>3. FineView(Kill(mutable, id), killed)
    <2>1. FineView(Kill(mutable, id), immutables)
      BY <1>2 DEF ViewInv, FineView
    <2>2. CASE killed = immutables
      BY <2>1, <2>2
    <2>3. CASE killed # immutables
      <3>1. holders # {} /\ killed = [immutables EXCEPT ![Min(holders)] = Kill(@, id)]
        BY <2>3
      <3>2. Min(holders) \in holders
        <4>1. holders \in SUBSET Nat
          BY <1>1
        <4> HIDE DEF holders
        <4>2. \E x \in holders : \A y \in holders : x <= y
          BY <3>1, <4>1, LeastExists
        <4> QED
          BY <4>2 DEF Min
      <3>3. Min(holders) \in DOMAIN immutables
        BY <3>2
      <3> DEFINE i == Min(holders)
      <3> HIDE DEF holders, i
      <3>4. /\ DOMAIN killed = DOMAIN immutables
            /\ \A s \in DOMAIN immutables : killed[s] = IF s = i THEN Kill(immutables[s], id) ELSE immutables[s]
        BY <1>1, <3>1, <3>3 DEF i
      <3> HIDE DEF killed
      <3>5. \A s \in DOMAIN immutables :
              /\ Fine(killed[s])
              /\ \A x : Alive(killed[s], x) => Alive(immutables[s], x)
        BY <1>1, <3>4, KillFacts
      <3>6. killed \in Seq(Seq(Row))
        <4>1. killed \in [1 .. Len(immutables) -> Seq(Row)]
          <5>1. \A s \in 1 .. Len(immutables) : killed[s] \in Seq(Row)
            BY <1>1, <3>5 DEF Fine
          <5>2. killed = [s \in 1 .. Len(immutables) |-> killed[s]]
            BY <1>1, <3>1, <3>4
          <5> QED
            BY <5>1, <5>2
        <4> QED
          BY <1>1, <4>1, IsSequence
      <3> DEFINE from == [s \in DOMAIN killed |-> s]
      <3>7. from \in [DOMAIN killed -> DOMAIN immutables] /\ \A s, t \in DOMAIN killed : from[s] = from[t] => s = t
        BY <3>4
      <3>8. \A s \in DOMAIN killed : Fine(killed[s]) /\ \A x \in Id : Alive(killed[s], x) => Alive(immutables[from[s]], x)
        BY <3>4, <3>5
      <3> HIDE DEF from
      <3> QED
        BY <2>1, <3>6, <3>7, <3>8, ThinnedView
    <2> QED
      BY <2>2, <2>3
  <1>4. mutable' = Kill(mutable, id) /\ immutables' = RebuildAll(killed)
    BY DEF Delete
  <1> HIDE DEF killed
  <1> QED
    BY <1>3, <1>4, RebuildAllFacts DEF ViewInv

LEMMA FlushKeepsView ==
    ASSUME ViewInv, Flush
    PROVE  ViewInv'
  <1>1. immutables' = Segs /\ mutable' = <<>>
    BY DEF Flush, Segs
  <1>2. Fine(mutable') /\ \A id : ~Has(mutable', id)
    BY <1>1, EmptyIsFine
  <1>3. Segs \in Seq(Seq(Row)) /\ \A s \in DOMAIN Segs : Fine(Segs[s])
    BY SegsFacts
  <1>4. ASSUME NEW s \in DOMAIN Segs, NEW t \in DOMAIN Segs, NEW id \in Id,
               Alive(Segs[s], id), Alive(Segs[t], id)
        PROVE  s = t
    <2>1. PICK i \in Live(Segs[s]) : Segs[s][i].id = id
      BY <1>4 DEF Alive
    <2>2. PICK j \in Live(Segs[t]) : Segs[t][j].id = id
      BY <1>4 DEF Alive
    <2>3. <<s, i>> \in LivePlaces /\ <<t, j>> \in LivePlaces
      BY PlaceFacts
    <2>4. RowAt(<<s, i>>).id = RowAt(<<t, j>>).id
      BY <2>1, <2>2 DEF RowAt
    <2>5. <<s, i>> = <<t, j>>
      BY <2>3, <2>4, PlaceFacts
    <2> QED
      BY <2>5
  <1> QED
    BY <1>1, <1>2, <1>3, <1>4 DEF ViewInv, FineView

LEMMA CompactKeepsView ==
    ASSUME ViewInv, Compact
    PROVE  ViewInv'
  <1>1. Fine(Merged)
    BY MergedFacts
  <1>2. mutable' = <<>> /\ (immutables' = <<>> \/ immutables' = <<Merged>>)
    BY DEF Compact
  <1>3. Fine(mutable') /\ \A id : ~Has(mutable', id)
    BY <1>2, EmptyIsFine
  <1>4. /\ immutables' \in Seq(Seq(Row))
        /\ \A s \in DOMAIN immutables' : s = 1 /\ Fine(immutables'[s])
    <2>1. Merged \in Seq(Row)
      BY <1>1 DEF Fine
    <2>2. CASE immutables' = <<>>
      BY <2>2
    <2>3. CASE immutables' = <<Merged>>
      <3>1. DOMAIN <<Merged>> = {1} /\ <<Merged>>[1] = Merged
        OBVIOUS
      <3>2. <<Merged>> \in Seq(Seq(Row))
        BY <2>1
      <3> QED
        BY <1>1, <2>3, <3>1, <3>2
    <2> QED
      BY <1>2, <2>2, <2>3
  <1> QED
    BY <1>3, <1>4 DEF ViewInv, FineView

-----------------------------------------------------------------------------
(* Scrolls. *)

ScanPairs(S) == {o \in S \X S : ScannedBefore(o[1], o[2])}

ShownIds(f) == [n \in DOMAIN Shown(f) |-> RowAt(Shown(f)[n]).id]

LEMMA DueFacts ==
    ASSUME ViewInv, NEW f
    PROVE  /\ Due(f) \in SUBSET LivePlaces /\ IsFiniteSet(Due(f))
           /\ Cardinality(Due(f)) \in Nat /\ Cardinality(LivePlaces) \in Nat
           /\ Cardinality(Due(f)) <= Cardinality(LivePlaces)
  <1>1. Due(f) \in SUBSET LivePlaces
    BY DEF Due
  <1> QED
    BY <1>1, PlaceFacts, FS_Subset, FS_CardinalityType

LEMMA ShownLists ==
    ASSUME ViewInv, NEW f
    PROVE  IsOrder(ScanPairs(Due(f)), Due(f)) /\ IsListing(Shown(f), Due(f), ScanPairs(Due(f)))
  <1> DEFINE S == Due(f)
             L == Shown(f)
             M == InOrder(S, ScanPairs(S))
  <1>1. IsFiniteSet(S) /\ \A p \in S : p = <<p[1], p[2]>> /\ p[1] \in Nat /\ p[2] \in Nat
    BY DueFacts, PlaceFacts
  <1> HIDE DEF S
  <1>2. IsOrder(ScanPairs(S), S)
    <2>1. \A p, q \in S : <<p, q>> \in ScanPairs(S) <=> ScannedBefore(p, q)
      BY DEF ScanPairs
    <2>2. \A p \in S : ~ScannedBefore(p, p)
      BY <1>1 DEF ScannedBefore
    <2>3. ASSUME NEW p \in S, NEW q \in S, p # q PROVE ScannedBefore(p, q) \/ ScannedBefore(q, p)
      <3>1. p[1] # q[1] \/ p[2] # q[2]
        BY <1>1, <2>3
      <3> QED
        BY <1>1, <3>1 DEF ScannedBefore
    <2>4. \A p, q, r \in S : ScannedBefore(p, q) /\ ScannedBefore(q, r) => ScannedBefore(p, r)
      BY <1>1 DEF ScannedBefore
    <2> QED
      BY <2>1, <2>2, <2>3, <2>4 DEF IsOrder
  <1>3. L = M
    <2>1. \A x \in S : {y \in S : ScannedBefore(y, x)} = Below(S, ScanPairs(S), x)
      BY DEF Below, ScanPairs
    <2>2. M = [k \in 1 .. Cardinality(S) |-> M[k]]
      BY DEF InOrder
    <2>3. ASSUME NEW k \in 1 .. Cardinality(S)
          PROVE  M[k] = CHOOSE x \in S : Cardinality({y \in S : ScannedBefore(y, x)}) = k - 1
      <3>1. M[k] = CHOOSE x \in S : Cardinality(Below(S, ScanPairs(S), x)) = k - 1
        BY DEF InOrder
      <3> HIDE DEF M
      <3> QED
        BY <2>1, <3>1
    <2> HIDE DEF M
    <2>4. L = [k \in 1 .. Cardinality(S) |-> M[k]]
      BY <2>3, Zenon DEF Shown, Listed, S
    <2> QED
      BY <2>2, <2>4
  <1>4. IsListing(M, S, ScanPairs(S))
    BY <1>1, <1>2, InOrderLists
  <1> QED
    BY <1>2, <1>3, <1>4 DEF S

LEMMA ShownFacts ==
    ASSUME ViewInv, NEW f
    PROVE  /\ ShownIds(f) \in Seq(Id) /\ Len(ShownIds(f)) = Len(Shown(f))
           /\ Len(Shown(f)) = Cardinality(Due(f)) /\ Len(Shown(f)) \in Nat
           /\ \A n \in 1 .. Len(Shown(f)) : ShownIds(f)[n] = RowAt(Shown(f)[n]).id
           /\ IsInjective(ShownIds(f))
           /\ ToSet(ShownIds(f)) = {r.id : r \in LiveRowsOf(f)}
  <1> DEFINE L == Shown(f)
             n == Cardinality(Due(f))
             ids == ShownIds(f)
  <1>1. /\ n \in Nat /\ Len(L) = n /\ DOMAIN L = 1 .. n
        /\ \A i \in 1 .. n : L[i] \in Due(f)
        /\ \A p \in Due(f) : \E i \in 1 .. n : L[i] = p
        /\ \A i, j \in 1 .. n : L[i] = L[j] => i = j
    BY ShownLists, ListingFacts DEF IsListing
  <1> HIDE DEF L, n
  <1>2. DOMAIN ids = 1 .. n /\ \A i \in 1 .. n : ids[i] = RowAt(L[i]).id
    BY <1>1 DEF ShownIds, L
  <1>3. \A i \in 1 .. n : RowAt(L[i]).id \in Id
    BY <1>1, DueFacts, PlaceFacts
  <1>4. ids \in [1 .. n -> Id]
    <2>1. ids = [i \in 1 .. n |-> ids[i]]
      BY <1>2 DEF ShownIds
    <2> QED
      BY <1>2, <1>3, <2>1
  <1> HIDE DEF ids
  <1>5. ids \in Seq(Id) /\ Len(ids) = n
    BY <1>1, <1>4, IsSequence
  <1>6. IsInjective(ids)
    <2>1. ASSUME NEW i \in 1 .. n, NEW j \in 1 .. n, ids[i] = ids[j] PROVE i = j
      <3>1. RowAt(L[i]).id = RowAt(L[j]).id /\ L[i] \in LivePlaces /\ L[j] \in LivePlaces
        BY <1>1, <1>2, <2>1, DueFacts
      <3>2. L[i] = L[j]
        BY <3>1, PlaceFacts
      <3> QED
        BY <1>1, <3>2
    <2> QED
      BY <1>2, <2>1 DEF IsInjective
  <1>7. ToSet(ids) = {r.id : r \in LiveRowsOf(f)}
    <2>1. ToSet(ids) = {RowAt(L[i]).id : i \in 1 .. n}
      BY <1>2 DEF ToSet
    <2>2. {RowAt(L[i]).id : i \in 1 .. n} = {RowAt(p).id : p \in Due(f)}
      BY <1>1
    <2>3. {r.id : r \in LiveRowsOf(f)} = {RowAt(p).id : p \in Due(f)}
      BY DEF LiveRowsOf
    <2> QED
      BY <2>1, <2>2, <2>3
  <1> QED
    BY <1>1, <1>2, <1>5, <1>6, <1>7 DEF L, n, ids

(* What a scan has done after k of the rows to show: it reads the page     *)
(* from the offset on, up to the end of the page at most.                  *)
Reading(ids, from, end, k) ==
    IF k <= end THEN [points |-> SubSeq(ids, from + 1, k), cursor |-> k, next |-> NoOffset]
    ELSE [points |-> SubSeq(ids, from + 1, end), cursor |-> end, next |-> end]

LEMMA PageLength ==
    ASSUME NEW ids \in Seq(Id), NEW from \in Nat, NEW k \in Nat, k <= Len(ids)
    PROVE  /\ SubSeq(ids, from + 1, k) \in Seq(Id)
           /\ Len(SubSeq(ids, from + 1, k)) = IF from < k THEN k - from ELSE 0
           /\ k <= from => SubSeq(ids, from + 1, k) = <<>>
  <1>1. \A i \in 1 .. Len(ids) : ids[i] \in Id
    BY ElementOfSeq
  <1>2. Len(ids) \in Nat
    BY LenProperties
  <1>3. /\ SubSeq(ids, from + 1, k) \in Seq(Id)
        /\ Len(SubSeq(ids, from + 1, k)) = IF from + 1 <= k THEN k - (from + 1) + 1 ELSE 0
    <2>1. from + 1 \in Int /\ k \in Int /\ \A i \in from + 1 .. k : ids[i] \in Id
      BY <1>1, <1>2
    <2> QED
      BY <2>1, SubSeqProperties
  <1>4. (IF from + 1 <= k THEN k - (from + 1) + 1 ELSE 0) = IF from < k THEN k - from ELSE 0
    OBVIOUS
  <1>5. k <= from => SubSeq(ids, from + 1, k) = <<>>
    <2>1. from + 1 \in Int /\ k \in Int /\ (k <= from => k < from + 1)
      OBVIOUS
    <2> QED
      BY <2>1, SubSeqEmpty
  <1> QED
    BY <1>3, <1>4, <1>5

LEMMA VisitReads ==
    ASSUME NEW ids \in Seq(Id), NEW from \in Nat, NEW limit \in Nat \ {0},
           NEW k \in 1 .. Len(ids), NEW row, row.id = ids[k]
    PROVE  Visit(Reading(ids, from, from + limit, k - 1), row, from, limit)
             = Reading(ids, from, from + limit, k)
  <1> DEFINE end == from + limit
             points == SubSeq(ids, from + 1, k - 1)
  <1>1. Len(ids) \in Nat /\ k \in Nat /\ k - 1 \in Nat /\ k <= Len(ids) /\ end \in Nat
    BY LenProperties
  <1>2. CASE k - 1 > end
    <2>1. Reading(ids, from, end, k - 1) = Reading(ids, from, end, k) /\ Reading(ids, from, end, k - 1).next = end
      BY <1>1, <1>2 DEF Reading
    <2>2. end # NoOffset
      BY <1>1 DEF NoOffset
    <2> QED
      BY <2>1, <2>2 DEF Visit
  <1>3. CASE k - 1 = end
    <2>1. Reading(ids, from, end, k - 1) = [points |-> points, cursor |-> end, next |-> NoOffset]
      BY <1>1, <1>3 DEF Reading
    <2>2. Len(points) = limit
      BY <1>1, <1>3, PageLength
    <2>3. Reading(ids, from, end, k) = [points |-> points, cursor |-> end, next |-> end]
      <3>1. ~(k <= end)
        BY <1>1, <1>3
      <3>2. points = SubSeq(ids, from + 1, end)
        BY <1>3
      <3> HIDE DEF points, end
      <3> QED
        BY <3>1, <3>2 DEF Reading
    <2> HIDE DEF points, end
    <2> QED
      BY <2>1, <2>2, <2>3 DEF Visit, end
  <1>4. CASE k - 1 < end
    <2>1. Reading(ids, from, end, k - 1) = [points |-> points, cursor |-> k - 1, next |-> NoOffset]
      BY <1>1, <1>4 DEF Reading
    <2>2. Len(points) # limit
      BY <1>1, <1>4, PageLength
    <2>3. Reading(ids, from, end, k) = [points |-> SubSeq(ids, from + 1, k), cursor |-> k, next |-> NoOffset]
      BY <1>1, <1>4 DEF Reading
    <2>4. SubSeq(ids, from + 1, k) = IF k - 1 >= from THEN Append(points, ids[k]) ELSE points
      <3>1. CASE k - 1 >= from
        <4>1. from + 1 \in 1 .. Len(ids) /\ k \in (from + 1) .. Len(ids)
          BY <1>1, <3>1
        <4>2. SubSeq(ids, from + 1, k) = SubSeq(ids, from + 1, k - 1) \o <<ids[k]>>
          BY <4>1, SubSeqRecursiveSecond
        <4>3. points \in Seq(Id) /\ ids[k] \in Id
          BY <1>1, PageLength, ElementOfSeq
        <4> HIDE DEF points
        <4>4. Append(points, ids[k]) = points \o <<ids[k]>>
          BY <4>3, AppendIsConcat
        <4> QED
          BY <3>1, <4>2, <4>4 DEF points
      <3>2. CASE ~(k - 1 >= from)
        <4>1. k <= from /\ k - 1 <= from
          BY <1>1, <3>2
        <4> QED
          BY <1>1, <3>2, <4>1, PageLength
      <3> QED
        BY <3>1, <3>2
    <2> HIDE DEF points, end
    <2>5. k - 1 + 1 = k
      BY <1>1
    <2> DEFINE r == [points |-> points, cursor |-> k - 1, next |-> NoOffset]
    <2>6. r.points = points /\ r.cursor = k - 1 /\ r.next = NoOffset
      OBVIOUS
    <2> HIDE DEF r
    <2>7. Visit(r, row, from, limit)
            = [points |-> IF r.cursor >= from THEN Append(r.points, row.id) ELSE r.points,
               cursor |-> r.cursor + 1, next |-> NoOffset]
      BY <2>2, <2>6 DEF Visit
    <2>8. Visit(r, row, from, limit)
            = [points |-> IF k - 1 >= from THEN Append(points, ids[k]) ELSE points,
               cursor |-> k, next |-> NoOffset]
      BY <2>5, <2>6, <2>7
    <2> QED
      BY <2>1, <2>3, <2>4, <2>8 DEF r, end
  <1> QED
    BY <1>1, <1>2, <1>3, <1>4

LEMMA PageLimit ==
    ASSUME NEW limit \in Nat
    PROVE  Max({limit, 1}) \in Nat \ {0}
  <1>1. \E x \in {limit, 1} : \A y \in {limit, 1} : x >= y
    <2>1. CASE limit >= 1
      BY <2>1
    <2>2. CASE ~(limit >= 1)
      BY <2>2
    <2> QED
      BY <2>1, <2>2
  <1>2. Max({limit, 1}) \in {limit, 1} /\ Max({limit, 1}) >= 1
    BY <1>1 DEF Max
  <1> QED
    BY <1>2

(* A page is what the scan reads.                                          *)
LEMMA ScrolledReads ==
    ASSUME ViewInv, NEW f, NEW from \in Nat, NEW limit \in Nat
    PROVE  LET end == from + Max({limit, 1})
           IN  Scrolled(f, from, limit) = Reading(ShownIds(f), from, end, Len(ShownIds(f)))
  <1> DEFINE L == Shown(f)
             ids == ShownIds(f)
             N == Len(L)
             top == Max({limit, 1})
             a == [points |-> <<>>, cursor |-> 0, next |-> NoOffset]
             G == [n \in 0 .. N |-> Reading(ids, from, from + top, n)]
             c == CHOOSE g : g = [n \in 0 .. N |-> IF n = 0 THEN a ELSE Visit(g[n - 1], RowAt(L[n]), from, top)]
  <1>1. /\ ids \in Seq(Id) /\ Len(ids) = N /\ N \in Nat
        /\ \A n \in 1 .. N : ids[n] = RowAt(L[n]).id
    BY ShownFacts
  <1>2. top \in Nat \ {0}
    BY PageLimit
  <1>3. Scrolled(f, from, limit) = c[N]
    BY DEF Scrolled
  <1> HIDE DEF L, ids, top, N, a
  <1>4. Reading(ids, from, from + top, 0) = a
    <2>1. 0 <= from + top /\ SubSeq(ids, from + 1, 0) = <<>>
      BY <1>1, <1>2, PageLength
    <2> QED
      BY <2>1 DEF Reading, a
  <1>5. ASSUME NEW n \in 1 .. N
        PROVE  Visit(Reading(ids, from, from + top, n - 1), RowAt(L[n]), from, top)
                 = Reading(ids, from, from + top, n)
    BY <1>1, <1>2, VisitReads
  <1>6. \E g : g = [n \in 0 .. N |-> IF n = 0 THEN a ELSE Visit(g[n - 1], RowAt(L[n]), from, top)]
    <2>1. ASSUME NEW n \in 0 .. N, n # 0
          PROVE  n \in 1 .. N /\ n - 1 \in 0 .. N
      BY <1>1, <2>1
    <2>2. ASSUME NEW n \in 0 .. N
          PROVE  Reading(ids, from, from + top, n)
                   = IF n = 0 THEN a ELSE Visit(G[n - 1], RowAt(L[n]), from, top)
      BY <1>4, <1>5, <2>1
    <2>3. G = [n \in 0 .. N |-> IF n = 0 THEN a ELSE Visit(G[n - 1], RowAt(L[n]), from, top)]
      BY <2>2
    <2> HIDE DEF G
    <2> QED
      BY <2>3
  <1>7. c = [n \in 0 .. N |-> IF n = 0 THEN a ELSE Visit(c[n - 1], RowAt(L[n]), from, top)]
    BY <1>6
  <1> HIDE DEF c
  <1> DEFINE Good == {n \in 0 .. N : c[n] = Reading(ids, from, from + top, n)}
  <1>8. 0 \in Good
    BY <1>1, <1>4, <1>7
  <1>9. ASSUME NEW n \in 0 .. (N - 1), n \in Good PROVE n + 1 \in Good
    <2>1. n + 1 \in 1 .. N /\ n + 1 \in 0 .. N /\ n + 1 - 1 = n /\ n + 1 # 0
      BY <1>1
    <2>2. c[n + 1] = Visit(c[n], RowAt(L[n + 1]), from, top)
      <3>1. \A m \in 0 .. N : c[m] = IF m = 0 THEN a ELSE Visit(c[m - 1], RowAt(L[m]), from, top)
        BY <1>7
      <3> QED
        BY <2>1, <3>1
    <2>3. c[n] = Reading(ids, from, from + top, n)
      BY <1>9
    <2>4. c[n + 1] = Reading(ids, from, from + top, n + 1)
      BY <1>5, <2>1, <2>2, <2>3
    <2> QED
      BY <2>1, <2>4
  <1>10. \A n \in 0 .. N : n \in Good
    <2> HIDE DEF Good
    <2> QED
      BY <1>1, <1>8, <1>9, LoopInduction
  <1>11. N \in 0 .. N
    BY <1>1
  <1>12. c[N] = Reading(ids, from, from + top, N)
    BY <1>10, <1>11
  <1> QED
    BY <1>1, <1>3, <1>12 DEF ids, L, N, top

(* A scroll in progress has shown its first rows, and at its end all.      *)
ScrollInv ==
    /\ filter \subseteq Id \X Vector
    /\ offset \in {Idle, NoOffset} \cup 0 .. Len(ShownIds(filter))
    /\ offset = Idle => got = <<>>
    /\ offset = NoOffset => got = ShownIds(filter)
    /\ offset \in Nat => got = SubSeq(ShownIds(filter), 1, offset)

IInv == ViewInv /\ ScrollInv

LEMMA FlushMovesNothing ==
    ASSUME ViewInv, Flush
    PROVE  /\ LivePlaces' = LivePlaces
           /\ \A p \in LivePlaces : RowAt(p)' = RowAt(p)
  <1> DEFINE n == Len(immutables) + 1
  <1>1. /\ Segs \in Seq(Seq(Row)) /\ Len(Segs) = n /\ n \in Nat
        /\ DOMAIN Segs = 1 .. n
    BY SegsFacts
  <1>2. Segs' = Append(Segs, <<>>)
    BY DEF Flush, Segs
  <1> HIDE DEF n
  <1>3. /\ Len(Segs') = n + 1 /\ Segs'[n + 1] = <<>> /\ Segs' \in Seq(Seq(Row))
        /\ \A s \in 1 .. n : Segs'[s] = Segs[s]
    <2>1. <<>> \in Seq(Row)
      OBVIOUS
    <2> QED
      BY <1>1, <1>2, <2>1, AppendProperties
  <1>4. DOMAIN Segs' = 1 .. n + 1
    BY <1>3, LenProperties
  <1>5. Live(<<>>) = {}
    BY DEF Live
  <1>6. \A s \in 1 .. n + 1 : s \in 1 .. n \/ s = n + 1
    BY <1>1
  <1>7. \A s \in 1 .. n : s \in 1 .. n + 1
    BY <1>1
  <1>8. \A p : p \in LivePlaces' <=> \E s \in DOMAIN Segs' : p \in {s} \X Live(Segs'[s])
    BY DEF LivePlaces, Live
  <1>9. \A p : p \in LivePlaces <=> \E s \in DOMAIN Segs : p \in {s} \X Live(Segs[s])
    BY DEF LivePlaces
  <1>10. ASSUME NEW p, NEW s \in DOMAIN Segs', p \in {s} \X Live(Segs'[s]) PROVE p \in LivePlaces
    <2>1. s # n + 1
      BY <1>3, <1>5, <1>10
    <2>2. s \in DOMAIN Segs /\ Segs'[s] = Segs[s]
      BY <1>1, <1>3, <1>4, <1>6, <2>1
    <2> QED
      BY <1>9, <1>10, <2>2
  <1>11. ASSUME NEW p, NEW s \in DOMAIN Segs, p \in {s} \X Live(Segs[s]) PROVE p \in LivePlaces'
    <2>1. s \in DOMAIN Segs' /\ Segs'[s] = Segs[s]
      BY <1>1, <1>3, <1>4, <1>7
    <2> QED
      BY <1>8, <1>11, <2>1
  <1>12. LivePlaces' = LivePlaces
    BY <1>8, <1>9, <1>10, <1>11
  <1>13. \A p \in LivePlaces : Segs'[p[1]] = Segs[p[1]]
    BY <1>1, <1>3, PlaceFacts
  <1>14. \A p \in LivePlaces : RowAt(p)' = RowAt(p)
    BY <1>13 DEF RowAt
  <1> QED
    BY <1>12, <1>14

LEMMA ShownStays ==
    ASSUME ViewInv, LivePlaces' = LivePlaces, \A p \in LivePlaces : RowAt(p)' = RowAt(p)
    PROVE  \A f : ShownIds(f)' = ShownIds(f)
  <1> TAKE f
  <1>1. Due(f)' = Due(f)
    BY DEF Due, Passes
  <1>2. Shown(f)' = Shown(f)
    BY <1>1 DEF Shown, Listed, ScannedBefore
  <1>3. \A n \in DOMAIN Shown(f) : Shown(f)[n] \in LivePlaces
    <2>1. DOMAIN Shown(f) = 1 .. Cardinality(Due(f)) /\ Shown(f) \in [1 .. Cardinality(Due(f)) -> Due(f)]
      BY ShownLists DEF IsListing
    <2> QED
      BY <2>1, DueFacts
  <1>4. ShownIds(f)' = [n \in DOMAIN Shown(f) |-> Segs'[Shown(f)[n][1]][Shown(f)[n][2]].id]
    BY <1>2 DEF ShownIds, RowAt
  <1>5. \A p \in LivePlaces : Segs'[p[1]][p[2]] = Segs[p[1]][p[2]]
    BY DEF RowAt
  <1>6. \A n \in DOMAIN Shown(f) :
          Segs'[Shown(f)[n][1]][Shown(f)[n][2]] = Segs[Shown(f)[n][1]][Shown(f)[n][2]]
    BY <1>3, <1>5
  <1> QED
    BY <1>4, <1>6 DEF ShownIds, RowAt

LEMMA PageKeepsScroll ==
    ASSUME ViewInv, ScrollInv, ReadersAssumption, NEW limit \in Limit, Page(limit)
    PROVE  ScrollInv'
  <1> DEFINE ids == ShownIds(filter)
             N == Len(ids)
             top == Max({limit, 1})
             end == offset + top
             s == Scrolled(filter, offset, limit)
  <1>1. limit \in Nat
    BY DEF ReadersAssumption
  <1>2. ids \in Seq(Id) /\ N \in Nat
    BY ShownFacts, LenProperties
  <1>3. offset \in 0 .. N /\ offset \in Nat /\ got = SubSeq(ids, 1, offset)
    BY <1>2 DEF ScrollInv, Page, Idle, NoOffset
  <1>4. top \in Nat \ {0}
    BY <1>1, PageLimit
  <1>5. s = Reading(ids, offset, end, N)
    BY <1>1, <1>3, ScrolledReads
  <1>6. got' = got \o s.points /\ offset' = s.next /\ filter' = filter /\ UNCHANGED view
    BY DEF Page
  <1>7. ids' = ids
    BY <1>6 DEF ShownIds, Shown, Listed, Due, LivePlaces, Segs, RowAt, view
  <1>8. filter \subseteq Id \X Vector
    BY DEF ScrollInv
  <1> HIDE DEF ids, top, s, N
  <1>9. ASSUME NEW k \in offset .. N
        PROVE  got \o SubSeq(ids, offset + 1, k) = SubSeq(ids, 1, k)
    <2>1. 1 \in 1 .. Len(ids) + 1 /\ offset \in 1 - 1 .. Len(ids) /\ k \in offset .. Len(ids)
      BY <1>2, <1>3 DEF N
    <2>2. SubSeq(ids, 1, offset) \o SubSeq(ids, offset + 1, k) = SubSeq(ids, 1, k)
      BY <1>2, <2>1, ConcatAdjacentSubSeq
    <2> QED
      BY <1>3, <2>2
  <1>10. CASE N <= end
    <2>1. s.points = SubSeq(ids, offset + 1, N) /\ s.next = NoOffset
      BY <1>5, <1>10 DEF Reading
    <2>2. N \in offset .. N
      BY <1>2, <1>3
    <2>3. got' = SubSeq(ids, 1, N) /\ offset' = NoOffset
      BY <1>6, <1>9, <2>1, <2>2
    <2>4. SubSeq(ids, 1, N) = ids
      BY <1>2, SubSeqFull DEF N
    <2>5. NoOffset \notin Nat /\ NoOffset # Idle
      BY DEF NoOffset, Idle
    <2> QED
      BY <1>6, <1>7, <1>8, <2>3, <2>4, <2>5 DEF ScrollInv, ids
  <1>11. CASE ~(N <= end)
    <2>1. s.points = SubSeq(ids, offset + 1, end) /\ s.next = end
      BY <1>5, <1>11 DEF Reading
    <2>2. end \in offset .. N /\ end \in 0 .. N /\ end # NoOffset /\ end # Idle
      BY <1>2, <1>3, <1>4, <1>11 DEF NoOffset, Idle
    <2>3. got' = SubSeq(ids, 1, end) /\ offset' = end
      BY <1>6, <1>9, <2>1, <2>2
    <2> HIDE DEF end
    <2> QED
      BY <1>6, <1>7, <1>8, <2>2, <2>3 DEF ScrollInv, ids, N
  <1> QED
    BY <1>10, <1>11

LEMMA InitHolds ==
    ASSUME Init
    PROVE  IInv
  <1>1. mutable = <<>> /\ immutables = <<>> /\ filter = {} /\ offset = Idle /\ got = <<>>
    BY DEF Init
  <1>2. ViewInv
    <2>1. immutables \in Seq(Seq(Row)) /\ DOMAIN immutables = {}
      BY <1>1
    <2>2. Fine(mutable) /\ \A id : ~Has(mutable, id)
      BY <1>1, EmptyIsFine
    <2> QED
      BY <2>1, <2>2 DEF ViewInv, FineView
  <1>3. ScrollInv
    BY <1>1 DEF ScrollInv, Idle, NoOffset
  <1> QED
    BY <1>2, <1>3 DEF IInv

(* Nobody writes while a scroll is in progress.                            *)
LEMMA WritesKeep ==
    ASSUME IInv, ReadersAssumption, Writes
    PROVE  IInv'
  <1>1. ViewInv /\ ScrollInv /\ offset = Idle
    BY DEF IInv, Writes
  <1>2. ViewInv' /\ UNCHANGED scroll
    <2>1. ASSUME NEW id \in Id, NEW vector \in Vector, Upsert(id, vector) PROVE ViewInv' /\ UNCHANGED scroll
      <3>1. ViewInv'
        BY <1>1, <2>1, UpsertKeepsView
      <3> QED
        BY <2>1, <3>1 DEF Upsert
    <2>2. ASSUME NEW id \in Id, Delete(id) PROVE ViewInv' /\ UNCHANGED scroll
      <3>1. ViewInv'
        BY <1>1, <2>2, DeleteKeepsView
      <3> QED
        BY <2>2, <3>1 DEF Delete
    <2>3. ASSUME Compact PROVE ViewInv' /\ UNCHANGED scroll
      <3>1. ViewInv'
        BY <1>1, <2>3, CompactKeepsView
      <3> QED
        BY <2>3, <3>1 DEF Compact
    <2> QED
      BY <2>1, <2>2, <2>3 DEF Writes
  <1>3. ScrollInv'
    BY <1>1, <1>2 DEF ScrollInv, scroll, Idle, NoOffset
  <1> QED
    BY <1>2, <1>3 DEF IInv

(* A flush in the middle of a scroll leaves what is due where it was.      *)
LEMMA FlushKeeps ==
    ASSUME IInv, Flush
    PROVE  IInv'
  <1>1. ViewInv /\ ScrollInv
    BY DEF IInv
  <1>2. ViewInv' /\ UNCHANGED scroll
    <2>1. ViewInv'
      BY <1>1, FlushKeepsView
    <2> QED
      BY <2>1 DEF Flush
  <1>3. \A f : ShownIds(f)' = ShownIds(f)
    <2>1. LivePlaces' = LivePlaces /\ \A p \in LivePlaces : RowAt(p)' = RowAt(p)
      BY <1>1, FlushMovesNothing
    <2> QED
      BY <1>1, <2>1, ShownStays
  <1>4. filter' = filter /\ offset' = offset /\ got' = got
    BY <1>2 DEF scroll
  <1>5. ShownIds(filter)' = ShownIds(filter)
    <2>1. PICK f : f = filter
      OBVIOUS
    <2>2. ShownIds(filter)' = ShownIds(f)'
      BY <1>4, <2>1 DEF ShownIds, Shown, Due
    <2> QED
      BY <1>3, <2>1, <2>2
  <1>6. ScrollInv'
    BY <1>1, <1>4, <1>5 DEF ScrollInv
  <1> QED
    BY <1>2, <1>6 DEF IInv

LEMMA ReadsKeep ==
    ASSUME IInv, ReadersAssumption,
           \/ \E f \in Filter : StartScroll(f)
           \/ \E limit \in Limit : Page(limit)
           \/ EndScroll
    PROVE  IInv'
  <1>1. ViewInv /\ ScrollInv
    BY DEF IInv
  <1>2. UNCHANGED view
    BY DEF StartScroll, Page, EndScroll, view
  <1>3. ViewInv'
    BY <1>1, <1>2 DEF ViewInv, view
  <1>4. ASSUME NEW f \in Filter, StartScroll(f) PROVE ScrollInv'
    <2>1. filter' = f /\ offset' = 0 /\ got' = got /\ got = <<>>
      BY <1>1, <1>4 DEF StartScroll, ScrollInv
    <2>2. f \subseteq Id \X Vector
      BY DEF ReadersAssumption
    <2>3. ShownIds(filter)' \in Seq(Id)
      <3>1. ShownIds(f) \in Seq(Id)
        BY <1>1, ShownFacts
      <3>2. ShownIds(filter)' = ShownIds(f)
        BY <1>2, <2>1 DEF ShownIds, Shown, Due, LivePlaces, RowAt, Segs, view
      <3> QED
        BY <3>1, <3>2
    <2>4. 0 \in 0 .. Len(ShownIds(filter)')
      BY <2>3, LenProperties
    <2>5. SubSeq(ShownIds(filter)', 1, 0) = <<>>
      BY SubSeqEmpty
    <2> QED
      BY <2>1, <2>2, <2>4, <2>5 DEF ScrollInv, Idle, NoOffset
  <1>5. ASSUME NEW limit \in Limit, Page(limit) PROVE ScrollInv'
    BY <1>1, <1>5, PageKeepsScroll
  <1>6. ASSUME EndScroll PROVE ScrollInv'
    BY <1>6 DEF EndScroll, ScrollInv, Idle, NoOffset
  <1>7. ScrollInv'
    BY <1>4, <1>5, <1>6
  <1> QED
    BY <1>3, <1>7 DEF IInv

LEMMA NextKeeps ==
    ASSUME IInv, ReadersAssumption, [Next]_vars
    PROVE  IInv'
  <1>1. ASSUME Writes PROVE IInv'
    BY <1>1, WritesKeep
  <1>2. ASSUME Flush PROVE IInv'
    BY <1>2, FlushKeeps
  <1>3. ASSUME \/ \E f \in Filter : StartScroll(f)
               \/ \E limit \in Limit : Page(limit)
               \/ EndScroll
        PROVE  IInv'
    BY <1>3, ReadsKeep
  <1>4. ASSUME UNCHANGED vars PROVE IInv'
    <2>1. /\ mutable' = mutable /\ immutables' = immutables
          /\ filter' = filter /\ offset' = offset /\ got' = got
      BY <1>4 DEF vars
    <2>2. ShownIds(filter)' = ShownIds(filter)
      BY <2>1 DEF ShownIds, Shown, Due, LivePlaces, RowAt, Segs
    <2> QED
      BY <2>1, <2>2 DEF IInv, ViewInv, ScrollInv
  <1> QED
    BY <1>1, <1>2, <1>3, <1>4 DEF Next

LEMMA InvImpliesTypes ==
    ASSUME IInv
    PROVE  TypeOK
  <1>1. ViewInv /\ ScrollInv
    BY DEF IInv
  <1>2. mutable \in Seq(Row) /\ immutables \in Seq(Seq(Row))
    BY <1>1 DEF ViewInv, FineView, Fine
  <1>3. \A s \in DOMAIN Segs : IsInjective(IdsOf(Segs[s]))
    BY <1>1, SegsFacts DEF Fine
  <1>4. \A p, q \in LivePlaces : RowAt(p).id = RowAt(q).id => p = q
    BY <1>1, PlaceFacts
  <1>5. /\ ShownIds(filter) \in Seq(Id) /\ Len(ShownIds(filter)) \in Nat
        /\ Cardinality(LivePlaces) \in Nat
        /\ Len(ShownIds(filter)) <= Cardinality(LivePlaces)
    BY <1>1, ShownFacts, DueFacts
  <1>6. offset \in {Idle, NoOffset} \cup 0 .. Cardinality(LivePlaces)
    BY <1>1, <1>5 DEF ScrollInv
  <1>7. got \in Seq(Id)
    <2>1. CASE offset = Idle
      BY <1>1, <2>1 DEF ScrollInv
    <2>2. CASE offset = NoOffset
      BY <1>1, <1>5, <2>2 DEF ScrollInv
    <2>3. CASE offset \in 0 .. Len(ShownIds(filter))
      <3>1. got = SubSeq(ShownIds(filter), 0 + 1, offset) /\ offset \in Nat /\ offset <= Len(ShownIds(filter))
        BY <1>1, <1>5, <2>3 DEF ScrollInv
      <3> QED
        BY <1>5, <3>1, PageLength
    <2> QED
      BY <1>1, <2>1, <2>2, <2>3 DEF ScrollInv
  <1> QED
    BY <1>1, <1>2, <1>3, <1>4, <1>6, <1>7 DEF TypeOK, ScrollInv

LEMMA InvImpliesStable ==
    ASSUME IInv
    PROVE  ScrollIsStable
  <1>1. ViewInv /\ ScrollInv
    BY DEF IInv
  <1> QED
    BY <1>1, ShownFacts DEF ScrollInv, ScrollIsStable

(* IInv is inductive: the rows of the segments have the ids they should,   *)
(* and a scroll in progress has shown a prefix of what is due.             *)
THEOREM InvHolds == Spec => []IInv
  <1>1. Init => IInv
    BY InitHolds
  <1>2. IInv /\ [Next]_vars => IInv'
    BY NextKeeps, ReadersAssumption
  <1> QED
    BY <1>1, <1>2, PTL DEF Spec

(* Each id has one live row, wherever upserts, deletes, rebuilds, flushes  *)
(* and compactions (engine.rs) have put it.                                *)
THEOREM TypeCorrect == Spec => []TypeOK
  <1>1. IInv => TypeOK
    BY InvImpliesTypes
  <1> QED
    BY <1>1, InvHolds, PTL

(* The pages of Collection::scroll show every live point of the filter     *)
(* once, although flushes come in between.                                 *)
THEOREM ScrollStable == Spec => []ScrollIsStable
  <1>1. IInv => ScrollIsStable
    BY InvImpliesStable
  <1> QED
    BY <1>1, InvHolds, PTL

-----------------------------------------------------------------------------
(* Queries: what a segment contributes. *)

Scored(seg, q) == [i \in DOMAIN seg |-> Score(q, seg[i])]
Candidates(seg, pass) == {i \in Live(seg) : Passes(seg[i], pass)}

(* A set of best rows: whatever it leaves out is worse than all of it, and *)
(* left out because there are k of them.                                   *)
BestOf(h, C, score, k) ==
    /\ h \in SUBSET C
    /\ Cardinality(h) <= k
    /\ \A i \in C \ h : Cardinality(h) = k /\ \A x \in h : score[x] >= score[i]

LEMMA ScoredFacts ==
    ASSUME NEW seg, Fine(seg), NEW q \in Int, ReadersAssumption
    PROVE  /\ \A i \in DOMAIN seg : Scored(seg, q)[i] \in Int /\ Scored(seg, q)[i] = Score(q, seg[i])
           /\ DOMAIN seg = 1 .. Len(seg) /\ Len(seg) \in Nat
           /\ \A pass : Candidates(seg, pass) \in SUBSET DOMAIN seg
  <1>1. \A i \in DOMAIN seg : Score(q, seg[i]) \in Int
    <2>1. ASSUME NEW v \in Int PROVE -((q - v) * (q - v)) \in Int
      OBVIOUS
    <2>2. \A i \in DOMAIN seg : seg[i].vector \in Int
      BY FineFacts DEF ReadersAssumption
    <2> QED
      BY <2>1, <2>2 DEF Score
  <1>2. DOMAIN seg = 1 .. Len(seg) /\ Len(seg) \in Nat
    BY FineFacts
  <1>3. \A pass : Candidates(seg, pass) \in SUBSET DOMAIN seg
    BY DEF Candidates, Live
  <1> QED
    BY <1>1, <1>2, <1>3 DEF Scored

LEMMA WorstFacts ==
    ASSUME NEW seg, Fine(seg), NEW q \in Int, ReadersAssumption,
           NEW h \in SUBSET DOMAIN seg, IsFiniteSet(h), h # {}
    PROVE  /\ Worst(h, seg, q) \in h
           /\ \A x \in h : Score(q, seg[Worst(h, seg, q)]) <= Score(q, seg[x])
  <1> DEFINE score == Scored(seg, q)
             R == {o \in h \X h : score[o[1]] < score[o[2]] \/ (score[o[1]] = score[o[2]] /\ o[1] < o[2])}
             L == InOrder(h, R)
  <1>1. \A i \in h : i \in Nat /\ score[i] \in Int /\ score[i] = Score(q, seg[i])
    BY ScoredFacts
  <1> HIDE DEF score
  <1>2. IsOrder(R, h)
    <2>1. \A x, y \in h : <<x, y>> \in R <=> score[x] < score[y] \/ (score[x] = score[y] /\ x < y)
      OBVIOUS
    <2> HIDE DEF R
    <2>2. \A x \in h : <<x, x>> \notin R
      BY <1>1, <2>1
    <2>3. \A x, y \in h : x # y => <<x, y>> \in R \/ <<y, x>> \in R
      BY <1>1, <2>1
    <2>4. \A x, y, z \in h : <<x, y>> \in R /\ <<y, z>> \in R => <<x, z>> \in R
      BY <1>1, <2>1
    <2> QED
      BY <2>2, <2>3, <2>4 DEF IsOrder
  <1>3. \A x, y \in h : <<x, y>> \in R => score[x] < score[y] \/ (score[x] = score[y] /\ x < y)
    OBVIOUS
  <1> HIDE DEF R
  <1>4. IsListing(L, h, R)
    BY <1>2, InOrderLists
  <1> HIDE DEF L
  <1>5. Cardinality(h) \in Nat /\ Cardinality(h) # 0
    BY FS_CardinalityType, FS_EmptySet
  <1>6. 1 \in 1 .. Cardinality(h) /\ L[1] \in h
    BY <1>4, <1>5 DEF IsListing
  <1>7. ASSUME NEW x \in h PROVE score[L[1]] < score[x] \/ (score[L[1]] = score[x] /\ L[1] <= x)
    <2>1. PICK j \in 1 .. Cardinality(h) : L[j] = x
      BY <1>4 DEF IsListing
    <2>2. CASE j = 1
      BY <1>1, <1>6, <2>1, <2>2
    <2>3. CASE 1 < j
      <3>1. <<L[1], x>> \in R
        BY <1>4, <1>6, <2>1, <2>3 DEF IsListing
      <3> QED
        BY <1>1, <1>3, <1>6, <3>1
    <2> QED
      BY <1>5, <2>2, <2>3
  <1>8. \E w \in h : \A x \in h : \/ Score(q, seg[w]) < Score(q, seg[x])
                                  \/ Score(q, seg[w]) = Score(q, seg[x]) /\ w <= x
    <2>1. \A x \in h : \/ Score(q, seg[L[1]]) < Score(q, seg[x])
                       \/ Score(q, seg[L[1]]) = Score(q, seg[x]) /\ L[1] <= x
      BY <1>1, <1>6, <1>7
    <2> QED
      BY <1>6, <2>1
  <1> DEFINE w == Worst(h, seg, q)
  <1>9. /\ w \in h
        /\ \A x \in h : \/ Score(q, seg[w]) < Score(q, seg[x])
                        \/ Score(q, seg[w]) = Score(q, seg[x]) /\ w <= x
    BY <1>8 DEF Worst
  <1> HIDE DEF w
  <1>10. \A x \in h : Score(q, seg[w]) <= Score(q, seg[x])
    BY <1>1, <1>9
  <1> QED
    BY <1>9, <1>10 DEF w

LEMMA ConsiderKeeps ==
    ASSUME NEW seg, Fine(seg), NEW q \in Int, ReadersAssumption, NEW pass, NEW k \in Nat \ {0},
           NEW n \in DOMAIN seg, NEW h,
           BestOf(h, {i \in Candidates(seg, pass) : i < n}, Scored(seg, q), k)
    PROVE  BestOf(Consider(h, n, seg, q, pass, k), {i \in Candidates(seg, pass) : i < n + 1}, Scored(seg, q), k)
  <1> DEFINE C == {i \in Candidates(seg, pass) : i < n}
             D == {i \in Candidates(seg, pass) : i < n + 1}
             score == Scored(seg, q)
             next == Consider(h, n, seg, q, pass, k)
  <1>1. /\ DOMAIN seg = 1 .. Len(seg) /\ Len(seg) \in Nat
        /\ \A i \in DOMAIN seg : score[i] \in Int /\ score[i] = Score(q, seg[i])
        /\ Candidates(seg, pass) \in SUBSET DOMAIN seg
    BY ScoredFacts
  <1>2. n \in Candidates(seg, pass) <=> ~(seg[n].dead \/ ~Passes(seg[n], pass))
    BY DEF Candidates, Live
  <1>3. D = IF n \in Candidates(seg, pass) THEN C \cup {n} ELSE C
    BY <1>1
  <1>4. C \in SUBSET DOMAIN seg /\ n \notin C
    BY <1>1
  <1>5. /\ h \in SUBSET C /\ Cardinality(h) <= k
        /\ \A i \in C \ h : Cardinality(h) = k /\ \A x \in h : score[x] >= score[i]
    BY DEF BestOf
  <1>6. IsFiniteSet(h) /\ Cardinality(h) \in Nat
    <2>1. h \in SUBSET (1 .. Len(seg))
      BY <1>1, <1>4, <1>5
    <2>2. 1 \in Int /\ Len(seg) \in Int
      BY <1>1
    <2>3. IsFiniteSet(1 .. Len(seg))
      BY <2>2, FS_Interval
    <2>4. IsFiniteSet(h)
      BY <2>1, <2>3, FS_Subset
    <2> QED
      BY <2>4, FS_CardinalityType
  <1> HIDE DEF C, D, score
  <1>7. CASE n \notin Candidates(seg, pass)
    <2>1. D = C /\ next = h
      BY <1>2, <1>3, <1>7 DEF Consider
    <2> QED
      BY <1>5, <2>1 DEF BestOf, C, D, score
  <1>8. CASE n \in Candidates(seg, pass) /\ Cardinality(h) < k
    <2>1. next = h \cup {n} /\ D = C \cup {n}
      BY <1>2, <1>3, <1>8 DEF Consider
    <2>2. C = h
      BY <1>5, <1>6, <1>8
    <2>3. Cardinality(h \cup {n}) = Cardinality(h) + 1
      BY <1>4, <1>6, <2>2, FS_AddElement
    <2>4. Cardinality(h \cup {n}) <= k
      BY <1>6, <1>8, <2>3
    <2> HIDE DEF next
    <2>5. BestOf(next, D, score, k)
      BY <2>1, <2>2, <2>4 DEF BestOf
    <2> QED
      BY <2>5 DEF D, score, next
  <1>9. CASE n \in Candidates(seg, pass) /\ ~(Cardinality(h) < k)
    <2> DEFINE w == Worst(h, seg, q)
    <2>1. Cardinality(h) = k /\ h # {}
      BY <1>5, <1>6, <1>9, FS_EmptySet
    <2>2. h \in SUBSET DOMAIN seg
      BY <1>4, <1>5
    <2>3. w \in h /\ \A x \in h : Score(q, seg[w]) <= Score(q, seg[x])
      BY <1>6, <2>1, <2>2, WorstFacts
    <2>4. w \in h /\ \A x \in h : score[w] <= score[x]
      BY <1>1, <2>2, <2>3
    <2>5. D = C \cup {n}
      BY <1>3, <1>9
    <2>6. CASE Score(q, seg[n]) > Score(q, seg[w])
      <3>1. next = (h \ {w}) \cup {n}
        BY <1>2, <1>9, <2>6 DEF Consider
      <3> HIDE DEF w, next
      <3>2. score[n] > score[w]
        BY <1>1, <2>2, <2>4, <2>6
      <3>3. Cardinality(next) = k
        <4>1. IsFiniteSet(h \ {w}) /\ Cardinality(h \ {w}) = k - 1
          BY <1>6, <2>1, <2>4, FS_RemoveElement
        <4>2. n \notin h \ {w}
          BY <1>4, <1>5
        <4>3. Cardinality((h \ {w}) \cup {n}) = Cardinality(h \ {w}) + 1
          BY <4>1, <4>2, FS_AddElement
        <4> QED
          BY <3>1, <4>1, <4>3
      <3>4. next \in SUBSET D
        BY <1>5, <2>5, <3>1
      <3>5. ASSUME NEW i \in D \ next, NEW x \in next PROVE score[x] >= score[i]
        <4>1. i \in DOMAIN seg /\ x \in DOMAIN seg /\ w \in DOMAIN seg
          BY <1>4, <1>5, <2>2, <2>4, <2>5, <3>1
        <4>2. score[i] \in Int /\ score[x] \in Int /\ score[w] \in Int /\ score[n] \in Int
          BY <1>1, <4>1
        <4>3. score[x] >= score[w]
          <5>1. CASE x = n
            BY <3>2, <4>2, <5>1
          <5>2. CASE x \in h
            BY <2>4, <4>2, <5>2
          <5> QED
            BY <3>1, <5>1, <5>2
        <4>4. score[w] >= score[i]
          <5>1. CASE i = w
            BY <4>2, <5>1
          <5>2. CASE i \in C \ h
            BY <1>5, <2>4, <5>2
          <5> QED
            BY <2>5, <3>1, <5>1, <5>2
        <4> QED
          BY <4>2, <4>3, <4>4
      <3>6. BestOf(next, D, score, k)
        BY <3>3, <3>4, <3>5 DEF BestOf
      <3> QED
        BY <3>6 DEF D, score, next
    <2>7. CASE ~(Score(q, seg[n]) > Score(q, seg[w]))
      <3>1. next = h
        BY <1>2, <1>9, <2>7 DEF Consider
      <3> HIDE DEF w, next
      <3>2. score[n] <= score[w]
        BY <1>1, <2>2, <2>4, <2>7
      <3>3. ASSUME NEW i \in D \ h, NEW x \in h PROVE score[x] >= score[i]
        <4>1. CASE i = n
          <5>1. score[x] \in Int /\ score[w] \in Int /\ score[n] \in Int /\ score[w] <= score[x]
            BY <1>1, <2>2, <2>4
          <5> QED
            BY <3>2, <4>1, <5>1
        <4>2. CASE i \in C \ h
          BY <1>5, <4>2
        <4> QED
          BY <2>5, <4>1, <4>2
      <3>4. BestOf(next, D, score, k)
        BY <1>5, <2>1, <2>5, <3>1, <3>3 DEF BestOf
      <3> QED
        BY <3>4 DEF D, score, next
    <2> QED
      BY <2>6, <2>7
  <1> QED
    BY <1>7, <1>8, <1>9

(* flat::search, one row after the other.                                  *)
LEMMA FlatSearchFacts ==
    ASSUME NEW seg, Fine(seg), NEW q \in Int, ReadersAssumption, NEW pass, NEW k \in Nat \ {0}
    PROVE  BestOf(FlatSearch(seg, q, pass, k), Candidates(seg, pass), Scored(seg, q), k)
  <1> DEFINE N == Len(seg)
             T == SUBSET DOMAIN seg
             step == [n \in 1 .. N |-> [h \in T |-> Consider(h, n, seg, q, pass, k)]]
             heap == CHOOSE g : g = [n \in 0 .. N |-> IF n = 0 THEN {} ELSE Consider(g[n - 1], n, seg, q, pass, k)]
             Upto(n) == {i \in Candidates(seg, pass) : i < n + 1}
  <1>1. DOMAIN seg = 1 .. N /\ N \in Nat /\ Candidates(seg, pass) \in SUBSET DOMAIN seg
    BY ScoredFacts
  <1>2. FlatSearch(seg, q, pass, k) = heap[N]
    BY DEF FlatSearch
  <1> HIDE DEF N
  <1>3. \E g : g = [n \in 0 .. N |-> IF n = 0 THEN {} ELSE Consider(g[n - 1], n, seg, q, pass, k)]
    <2>1. ASSUME NEW n \in 1 .. N, NEW h \in T PROVE Consider(h, n, seg, q, pass, k) \in T
      <3>1. n \in DOMAIN seg
        BY <1>1
      <3>2. h \cup {n} \in T /\ (h \ {Worst(h, seg, q)}) \cup {n} \in T
        BY <3>1
      <3> HIDE DEF T
      <3> QED
        BY <3>2 DEF Consider
    <2>2. {} \in T
      OBVIOUS
    <2> HIDE DEF T
    <2>3. AreSteps(step, N, T)
      BY <2>1 DEF AreSteps
    <2>4. \A n \in 1 .. N : \A h \in T : step[n][h] = Consider(h, n, seg, q, pass, k)
      OBVIOUS
    <2> HIDE DEF step
    <2>5. PICK c : IsRun(c, step, N, {}, T)
      BY <1>1, <2>2, <2>3, StepsExist
    <2>6. c \in [0 .. N -> T] /\ c[0] = {} /\ \A n \in 1 .. N : c[n] = step[n][c[n - 1]]
      BY <2>5 DEF IsRun
    <2>7. ASSUME NEW n \in 0 .. N PROVE c[n] = IF n = 0 THEN {} ELSE Consider(c[n - 1], n, seg, q, pass, k)
      <3>1. CASE n = 0
        BY <2>6, <3>1
      <3>2. CASE n # 0
        <4>1. n \in 1 .. N /\ n - 1 \in 0 .. N
          BY <1>1, <3>2
        <4>2. c[n - 1] \in T
          BY <2>6, <4>1
        <4> QED
          BY <2>4, <2>6, <3>2, <4>1, <4>2
      <3> QED
        BY <3>1, <3>2
    <2>8. c = [n \in 0 .. N |-> IF n = 0 THEN {} ELSE Consider(c[n - 1], n, seg, q, pass, k)]
      BY <2>6, <2>7
    <2> QED
      BY <2>8
  <1>4. heap = [n \in 0 .. N |-> IF n = 0 THEN {} ELSE Consider(heap[n - 1], n, seg, q, pass, k)]
    BY <1>3
  <1> HIDE DEF heap
  <1>5. \A n \in 0 .. N : heap[n] = IF n = 0 THEN {} ELSE Consider(heap[n - 1], n, seg, q, pass, k)
    BY <1>4
  <1> DEFINE Good == {n \in 0 .. N : BestOf(heap[n], Upto(n), Scored(seg, q), k)}
  <1>6. 0 \in Good
    <2>1. heap[0] = {} /\ 0 \in 0 .. N
      BY <1>1, <1>5
    <2>2. Upto(0) = {}
      BY <1>1
    <2>3. Cardinality({}) <= k
      BY FS_EmptySet
    <2>4. BestOf({}, {}, Scored(seg, q), k)
      BY <2>3 DEF BestOf
    <2> QED
      BY <2>1, <2>2, <2>4
  <1>7. ASSUME NEW n \in 0 .. (N - 1), n \in Good PROVE n + 1 \in Good
    <2>1. n + 1 \in 1 .. N /\ n + 1 \in 0 .. N /\ n + 1 - 1 = n /\ n + 1 # 0 /\ n + 1 \in DOMAIN seg
      BY <1>1
    <2>2. heap[n + 1] = Consider(heap[n], n + 1, seg, q, pass, k)
      BY <1>5, <2>1
    <2>3. BestOf(heap[n], Upto(n), Scored(seg, q), k)
      BY <1>7
    <2>4. BestOf(Consider(heap[n], n + 1, seg, q, pass, k), Upto(n + 1), Scored(seg, q), k)
      BY <2>1, <2>3, ConsiderKeeps
    <2> HIDE DEF Upto
    <2> QED
      BY <2>1, <2>2, <2>4
  <1>8. \A n \in 0 .. N : n \in Good
    <2> HIDE DEF Good
    <2> QED
      BY <1>1, <1>6, <1>7, LoopInduction
  <1>9. N \in 0 .. N
    BY <1>1
  <1>10. BestOf(heap[N], Upto(N), Scored(seg, q), k)
    BY <1>8, <1>9
  <1>11. Upto(N) = Candidates(seg, pass)
    BY <1>1
  <1> HIDE DEF Upto
  <1> QED
    BY <1>2, <1>10, <1>11

-----------------------------------------------------------------------------
(* Queries: the hits of all segments, merged, cut and filtered.            *)

PlaceScores(q) == [p \in LivePlaces |-> Score(q, RowAt(p))]

RankedOf(S, q) ==
    [k \in 1 .. Cardinality(S) |-> CHOOSE x \in S : Cardinality({y \in S : RanksBefore(y, x, q)}) = k - 1]
RankPairs(S, q) == {o \in S \X S : RanksBefore(o[1], o[2], q)}

LEMMA PlaceScoresFacts ==
    ASSUME ViewInv, ReadersAssumption, NEW q \in Int
    PROVE  /\ \A p \in LivePlaces : PlaceScores(q)[p] \in Int /\ PlaceScores(q)[p] = Score(q, RowAt(p))
           /\ \A s \in DOMAIN Segs, i \in Nat :
                <<s, i>> \in LivePlaces => PlaceScores(q)[<<s, i>>] = Scored(Segs[s], q)[i]
  <1>1. \A p \in LivePlaces : Score(q, RowAt(p)) \in Int
    <2>1. ASSUME NEW v \in Int PROVE -((q - v) * (q - v)) \in Int
      OBVIOUS
    <2>2. \A p \in LivePlaces : RowAt(p).vector \in Int
      BY PlaceFacts DEF ReadersAssumption
    <2> QED
      BY <2>1, <2>2 DEF Score
  <1>2. ASSUME NEW s \in DOMAIN Segs, NEW i \in Nat, <<s, i>> \in LivePlaces
        PROVE  PlaceScores(q)[<<s, i>>] = Scored(Segs[s], q)[i]
    <2>1. i \in DOMAIN Segs[s]
      BY <1>2, PlaceFacts DEF Live
    <2>2. RowAt(<<s, i>>) = Segs[s][i]
      BY DEF RowAt
    <2> QED
      BY <1>2, <2>1, <2>2 DEF PlaceScores, Scored
  <1> QED
    BY <1>1, <1>2 DEF PlaceScores

LEMMA HitsFacts ==
    ASSUME ViewInv, ReadersAssumption, NEW q \in Int, NEW pass, NEW k \in Nat \ {0}
    PROVE  /\ Hits(q, pass, k) \in SUBSET Due(pass)
           /\ \A p \in Due(pass) \ Hits(q, pass, k) :
                \E T \in SUBSET Hits(q, pass, k) :
                  Cardinality(T) = k /\ \A t \in T : PlaceScores(q)[t] >= PlaceScores(q)[p]
  <1> DEFINE F == [s \in DOMAIN Segs |-> FlatSearch(Segs[s], q, pass, k)]
             H == Hits(q, pass, k)
  <1>1. ASSUME NEW s \in DOMAIN Segs
        PROVE  BestOf(F[s], Candidates(Segs[s], pass), Scored(Segs[s], q), k)
    BY SegsFacts, FlatSearchFacts
  <1>2. H = UNION {{s} \X F[s] : s \in DOMAIN Segs}
    BY DEF Hits
  <1>3. \A s \in DOMAIN Segs : \A i \in F[s] : <<s, i>> \in H
    BY <1>2
  <1>4. \A p \in H : p = <<p[1], p[2]>> /\ p[1] \in DOMAIN Segs /\ p[2] \in F[p[1]]
    BY <1>2
  <1> HIDE DEF F, H
  <1>5. ASSUME NEW s \in DOMAIN Segs, NEW i PROVE i \in Candidates(Segs[s], pass) <=> <<s, i>> \in Due(pass)
    <2>1. <<s, i>> \in LivePlaces <=> i \in Live(Segs[s])
      BY PlaceFacts
    <2>2. RowAt(<<s, i>>) = Segs[s][i]
      BY DEF RowAt
    <2> QED
      BY <2>1, <2>2 DEF Candidates, Due
  <1>6. H \in SUBSET Due(pass)
    <2>1. ASSUME NEW p \in H PROVE p \in Due(pass)
      <3>1. p = <<p[1], p[2]>> /\ p[1] \in DOMAIN Segs /\ p[2] \in Candidates(Segs[p[1]], pass)
        BY <1>1, <1>4 DEF BestOf
      <3> QED
        BY <1>5, <3>1
    <2> QED
      BY <2>1
  <1>7. ASSUME NEW p \in Due(pass) \ H
        PROVE  \E T \in SUBSET H : Cardinality(T) = k /\ \A t \in T : PlaceScores(q)[t] >= PlaceScores(q)[p]
    <2> DEFINE s == p[1]
               T == {s} \X F[s]
    <2>1. p \in LivePlaces /\ p = <<s, p[2]>> /\ s \in DOMAIN Segs /\ p[2] \in Nat
      BY DueFacts, PlaceFacts
    <2> HIDE DEF s
    <2>2. p[2] \in Candidates(Segs[s], pass) /\ p[2] \notin F[s]
      BY <1>3, <1>5, <2>1
    <2>3. Cardinality(F[s]) = k /\ \A x \in F[s] : Scored(Segs[s], q)[x] >= Scored(Segs[s], q)[p[2]]
      BY <1>1, <2>1, <2>2 DEF BestOf
    <2>4. T \in SUBSET H
      BY <1>3, <2>1
    <2>5. Cardinality(T) = k
      <3>1. IsFiniteSet(F[s])
        <4>1. F[s] \in SUBSET Live(Segs[s]) /\ IsFiniteSet(Live(Segs[s]))
          BY <1>1, <2>1, SegsFacts, FineFacts DEF BestOf, Candidates
        <4> QED
          BY <4>1, FS_Subset
      <3>2. IsFiniteSet({s}) /\ Cardinality({s}) = 1
        BY FS_Singleton
      <3>3. Cardinality(T) = Cardinality({s}) * Cardinality(F[s])
        BY <3>1, <3>2, FS_Product
      <3>4. 1 * k = k
        OBVIOUS
      <3> QED
        BY <2>3, <3>2, <3>3, <3>4
    <2>6. ASSUME NEW t \in T PROVE PlaceScores(q)[t] >= PlaceScores(q)[p]
      <3>1. t = <<s, t[2]>> /\ t[2] \in F[s]
        OBVIOUS
      <3>2. t \in LivePlaces
        BY <1>6, <2>4, DueFacts
      <3>3. t[2] \in Nat
        BY <3>2, PlaceFacts
      <3> HIDE DEF T
      <3>4. PlaceScores(q)[t] = Scored(Segs[s], q)[t[2]]
        BY <2>1, <3>1, <3>2, <3>3, PlaceScoresFacts
      <3>5. PlaceScores(q)[p] = Scored(Segs[s], q)[p[2]]
        BY <2>1, PlaceScoresFacts
      <3> QED
        BY <2>3, <3>1, <3>4, <3>5
    <2> QED
      BY <2>4, <2>5, <2>6
  <1> QED
    BY <1>6, <1>7 DEF H

(* No two places have the same rank: ranking orders them.                  *)
LEMMA RankedLists ==
    ASSUME ViewInv, ReadersAssumption, NEW q \in Int, NEW S \in SUBSET LivePlaces
    PROVE  /\ IsFiniteSet(S)
           /\ IsOrder(RankPairs(S, q), S) /\ IsListing(RankedOf(S, q), S, RankPairs(S, q))
           /\ \A a, b \in S : <<a, b>> \in RankPairs(S, q) => PlaceScores(q)[a] >= PlaceScores(q)[b]
  <1> DEFINE score == PlaceScores(q)
             rank == [p \in S |-> Rank(p[1])]
             L == RankedOf(S, q)
             M == InOrder(S, RankPairs(S, q))
  <1>1. IsFiniteSet(S)
    BY PlaceFacts, FS_Subset
  <1>2. \A p \in S : p = <<p[1], p[2]>> /\ p[2] \in Nat /\ score[p] \in Int /\ score[p] = Score(q, RowAt(p))
    BY PlaceFacts, PlaceScoresFacts
  <1>3. \A p \in S : rank[p] \in Nat /\ rank[p] = Rank(p[1])
    BY PlaceFacts DEF Rank
  <1>4. \A a, b \in S : rank[a] = rank[b] => a[1] = b[1]
    <2>1. \A p \in S : p[1] \in 1 .. Len(Segs)
      <3>1. DOMAIN Segs = 1 .. Len(Segs)
        BY SegsFacts
      <3> QED
        BY <3>1, PlaceFacts
    <2>2. Len(Segs) \in Nat
      BY SegsFacts
    <2> QED
      BY <2>1, <2>2 DEF Rank
  <1>5. \A a, b \in S : RanksBefore(a, b, q) <=>
          \/ score[a] > score[b]
          \/ score[a] = score[b] /\ (rank[a] < rank[b] \/ (rank[a] = rank[b] /\ a[2] < b[2]))
    BY <1>2, <1>3 DEF RanksBefore
  <1> HIDE DEF score, rank
  <1>6. \A a, b \in S : <<a, b>> \in RankPairs(S, q) <=> RanksBefore(a, b, q)
    BY DEF RankPairs
  <1>7. IsOrder(RankPairs(S, q), S)
    <2>1. \A a \in S : ~RanksBefore(a, a, q)
      BY <1>2, <1>3, <1>5
    <2>2. ASSUME NEW a \in S, NEW b \in S, a # b PROVE RanksBefore(a, b, q) \/ RanksBefore(b, a, q)
      <3>1. a[1] # b[1] \/ a[2] # b[2]
        BY <1>2, <2>2
      <3>2. rank[a] # rank[b] \/ a[2] # b[2]
        BY <1>4, <3>1
      <3> QED
        BY <1>2, <1>3, <1>5, <3>2
    <2>3. ASSUME NEW a \in S, NEW b \in S, NEW c \in S, RanksBefore(a, b, q), RanksBefore(b, c, q)
          PROVE  RanksBefore(a, c, q)
      <3>1. /\ score[a] \in Int /\ score[b] \in Int /\ score[c] \in Int
            /\ rank[a] \in Nat /\ rank[b] \in Nat /\ rank[c] \in Nat
            /\ a[2] \in Nat /\ b[2] \in Nat /\ c[2] \in Nat
        BY <1>2, <1>3
      <3>2. \/ score[a] > score[b]
            \/ score[a] = score[b] /\ (rank[a] < rank[b] \/ (rank[a] = rank[b] /\ a[2] < b[2]))
        BY <1>5, <2>3
      <3>3. \/ score[b] > score[c]
            \/ score[b] = score[c] /\ (rank[b] < rank[c] \/ (rank[b] = rank[c] /\ b[2] < c[2]))
        BY <1>5, <2>3
      <3>4. \/ score[a] > score[c]
            \/ score[a] = score[c] /\ (rank[a] < rank[c] \/ (rank[a] = rank[c] /\ a[2] < c[2]))
        BY <3>1, <3>2, <3>3
      <3> QED
        BY <1>5, <3>4
    <2> QED
      BY <1>6, <2>1, <2>2, <2>3 DEF IsOrder
  <1>8. L = M
    <2>1. \A x \in S : {y \in S : RanksBefore(y, x, q)} = Below(S, RankPairs(S, q), x)
      BY <1>6 DEF Below
    <2>2. M = [k \in 1 .. Cardinality(S) |-> M[k]]
      BY DEF InOrder
    <2>3. ASSUME NEW k \in 1 .. Cardinality(S)
          PROVE  M[k] = CHOOSE x \in S : Cardinality({y \in S : RanksBefore(y, x, q)}) = k - 1
      <3>1. M[k] = CHOOSE x \in S : Cardinality(Below(S, RankPairs(S, q), x)) = k - 1
        BY DEF InOrder
      <3> HIDE DEF M
      <3> QED
        BY <2>1, <3>1
    <2> HIDE DEF M
    <2>4. L = [k \in 1 .. Cardinality(S) |-> M[k]]
      BY <2>3, Zenon DEF RankedOf
    <2> QED
      BY <2>2, <2>4
  <1>9. IsListing(M, S, RankPairs(S, q))
    BY <1>1, <1>7, InOrderLists
  <1>10. \A a, b \in S : <<a, b>> \in RankPairs(S, q) => score[a] >= score[b]
    BY <1>2, <1>5, <1>6
  <1> QED
    BY <1>1, <1>7, <1>8, <1>9, <1>10 DEF score

(* The first k of the hits are the best k of all: what is no hit has k     *)
(* hits that are at least as good.                                         *)
LEMMA CutIsBest ==
    ASSUME NEW D, IsFiniteSet(D), NEW H \in SUBSET D, NEW score, \A p \in D : score[p] \in Int,
           NEW R, IsOrder(R, H), \A a, b \in H : <<a, b>> \in R => score[a] >= score[b],
           NEW k \in Nat \ {0},
           \A p \in D \ H : \E T \in SUBSET H : Cardinality(T) = k /\ \A t \in T : score[t] >= score[p],
           NEW L, IsListing(L, H, R),
           NEW m \in Nat, m = IF k <= Cardinality(H) THEN k ELSE Cardinality(H)
    PROVE  BestOf({L[n] : n \in 1 .. m}, D, score, k)
  <1> DEFINE N == Cardinality(H)
             top == {L[n] : n \in 1 .. m}
  <1>1. IsFiniteSet(H) /\ N \in Nat
    <2>1. IsFiniteSet(H)
      BY FS_Subset
    <2> QED
      BY <2>1, FS_CardinalityType
  <1> HIDE DEF N
  <1>2. m <= N /\ m <= k /\ (m = k \/ m = N) /\ 1 .. m \in SUBSET (1 .. N)
    BY <1>1 DEF N
  <1>3. /\ L \in [1 .. N -> H]
        /\ \A x \in H : \E j \in 1 .. N : L[j] = x
        /\ \A i, j \in 1 .. N : i < j <=> <<L[i], L[j]>> \in R
        /\ \A i, j \in 1 .. N : L[i] = L[j] => i = j
    BY ListingFacts DEF IsListing, N
  <1>4. \A i \in 1 .. N : L[i] \in H
    BY <1>3
  <1>5. top \in SUBSET H
    BY <1>2, <1>4
  <1>6. IsFiniteSet(top) /\ Cardinality(top) = m
    <2> DEFINE f == [n \in 1 .. m |-> L[n]]
    <2>1. f \in Bijection(1 .. m, top)
      <3>1. f \in [1 .. m -> top]
        OBVIOUS
      <3>2. \A i, j \in 1 .. m : f[i] = f[j] => i = j
        BY <1>2, <1>3
      <3>3. \A t \in top : \E i \in 1 .. m : f[i] = t
        OBVIOUS
      <3> HIDE DEF f, top
      <3> QED
        BY <3>1, <3>2, <3>3 DEF Bijection, Injection, IsInjective, Surjection
    <2>2. ExistsBijection(1 .. m, top)
      BY <2>1 DEF ExistsBijection
    <2>3. IsFiniteSet(1 .. m) /\ Cardinality(1 .. m) = m
      <3>1. 1 \in Int /\ m \in Int
        OBVIOUS
      <3>2. /\ IsFiniteSet(1 .. m)
            /\ Cardinality(1 .. m) = IF 1 > m THEN 0 ELSE m - 1 + 1
        BY ONLY <3>1, FS_Interval
      <3> QED
        BY <3>2
    <2> HIDE DEF top
    <2> QED
      BY <2>2, <2>3, FS_Bijection
  <1>7. ASSUME NEW u \in H \ top, NEW t \in top PROVE m = k /\ score[t] >= score[u]
    <2>1. PICK j \in 1 .. N : L[j] = u
      BY <1>3
    <2>2. PICK i \in 1 .. m : L[i] = t
      OBVIOUS
    <2>3. j \notin 1 .. m
      BY <1>7, <2>1
    <2>4. i \in 1 .. N /\ i < j /\ m < N
      BY <1>1, <1>2, <2>3
    <2>5. <<t, u>> \in R
      BY <1>3, <2>1, <2>2, <2>4
    <2> HIDE DEF top
    <2> QED
      BY <1>1, <1>2, <1>5, <2>4, <2>5
  <1>8. ASSUME NEW u \in H \ top PROVE m = k
    <2>1. PICK j \in 1 .. N : L[j] = u
      BY <1>3
    <2>2. j \notin 1 .. m
      BY <1>8, <2>1
    <2> QED
      BY <1>1, <1>2, <2>1, <2>2
  <1> HIDE DEF top
  <1>9. ASSUME NEW p \in D \ top PROVE Cardinality(top) = k /\ \A t \in top : score[t] >= score[p]
    <2>1. CASE p \in H
      BY <1>6, <1>7, <1>8, <1>9, <2>1
    <2>2. CASE p \notin H
      <3>1. PICK T \in SUBSET H : Cardinality(T) = k /\ \A t \in T : score[t] >= score[p]
        BY <2>2
      <3>2. IsFiniteSet(T) /\ Cardinality(T) <= N
        BY <1>1, <3>1, FS_Subset DEF N
      <3>3. m = k
        BY <1>1, <1>2, <3>1, <3>2 DEF N
      <3>4. ASSUME NEW t \in top PROVE score[t] >= score[p]
        <4>1. CASE t \in T
          BY <3>1, <4>1
        <4>2. CASE t \notin T
          <5>1. \E u \in T : u \notin top
            <6>1. SUFFICES ASSUME T \in SUBSET top PROVE FALSE
              OBVIOUS
            <6>2. T = top
              BY <1>6, <3>1, <3>3, <6>1, FS_Subset
            <6> QED
              BY <4>2, <6>2
          <5>2. PICK u \in T : u \notin top
            BY <5>1
          <5>3. score[t] >= score[u] /\ score[u] >= score[p]
            BY <1>7, <3>1, <5>2
          <5>4. score[t] \in Int /\ score[u] \in Int /\ score[p] \in Int
            BY <1>5, <3>1
          <5> QED
            BY <5>3, <5>4
        <4> QED
          BY <4>1, <4>2
      <3> QED
        BY <1>6, <3>3, <3>4
    <2> QED
      BY <2>1, <2>2
  <1>10. top \in SUBSET D /\ Cardinality(top) <= k
    BY <1>2, <1>5, <1>6
  <1>11. BestOf(top, D, score, k)
    BY <1>9, <1>10 DEF BestOf
  <1> QED
    BY <1>11 DEF top

(* A threshold may come last: what it keeps of the best are the best of    *)
(* what it keeps of all.                                                   *)
Above(S, score, threshold) == {p \in S : score[p] >= threshold}

LEMMA ThresholdKeepsBest ==
    ASSUME NEW D, IsFiniteSet(D), NEW score, \A p \in D : score[p] \in Int,
           NEW k \in Nat, NEW h, BestOf(h, D, score, k), NEW threshold \in Int
    PROVE  /\ BestOf(Above(h, score, threshold), Above(D, score, threshold), score, k)
           /\ Cardinality(Above(h, score, threshold)) \in Nat
           /\ Cardinality(Above(D, score, threshold)) \in Nat
           /\ Cardinality(Above(h, score, threshold))
                = IF k <= Cardinality(Above(D, score, threshold)) THEN k
                  ELSE Cardinality(Above(D, score, threshold))
  <1> DEFINE kept == {p \in h : score[p] >= threshold}
             due == {p \in D : score[p] >= threshold}
  <1>1. /\ h \in SUBSET D /\ Cardinality(h) <= k
        /\ \A p \in D \ h : Cardinality(h) = k /\ \A x \in h : score[x] >= score[p]
    BY DEF BestOf
  <1>2. /\ IsFiniteSet(due) /\ IsFiniteSet(h)
        /\ kept \in SUBSET h /\ kept \in SUBSET due
    <2>1. due \in SUBSET D /\ kept \in SUBSET h /\ kept \in SUBSET due
      BY <1>1
    <2> HIDE DEF due, kept
    <2> QED
      BY <1>1, <2>1, FS_Subset
  <1>3. ASSUME NEW p \in due \ kept PROVE kept = h
    <2>1. p \in D \ h /\ score[p] >= threshold
      OBVIOUS
    <2>2. \A x \in h : score[x] \in Int /\ score[p] \in Int /\ score[x] >= score[p]
      BY <1>1, <2>1
    <2>3. \A x \in h : score[x] >= threshold
      BY <2>1, <2>2
    <2> QED
      BY <2>3
  <1>4. \A p \in due \ kept : p \in D \ h
    OBVIOUS
  <1> HIDE DEF kept, due
  <1>5. /\ IsFiniteSet(kept) /\ Cardinality(kept) <= Cardinality(h)
        /\ Cardinality(kept) <= Cardinality(due)
    BY <1>2, FS_Subset
  <1>6. Cardinality(kept) \in Nat /\ Cardinality(due) \in Nat /\ Cardinality(h) \in Nat
    BY <1>2, <1>5, FS_CardinalityType
  <1>7. BestOf(kept, due, score, k)
    <2>1. Cardinality(kept) <= k
      BY <1>1, <1>5, <1>6
    <2>2. ASSUME NEW p \in due \ kept
          PROVE  Cardinality(kept) = k /\ \A x \in kept : score[x] >= score[p]
      BY <1>1, <1>3, <1>4
    <2> QED
      BY <1>2, <2>1, <2>2 DEF BestOf
  <1>8. Cardinality(kept) = IF k <= Cardinality(due) THEN k ELSE Cardinality(due)
    <2>1. CASE kept = due
      <3>1. Cardinality(due) <= k
        BY <1>1, <1>5, <1>6, <2>1
      <3> QED
        BY <1>6, <2>1, <3>1
    <2>2. CASE kept # due
      <3>1. Cardinality(kept) = k
        BY <1>2, <1>7, <2>2 DEF BestOf
      <3> QED
        BY <1>5, <1>6, <3>1
    <2> QED
      BY <2>1, <2>2
  <1> QED
    BY <1>6, <1>7, <1>8 DEF kept, due, Above

LEMMA MinOfTwo ==
    ASSUME NEW a \in Nat, NEW b \in Nat
    PROVE  Min({a, b}) = IF a <= b THEN a ELSE b
  <1>1. \E x \in {a, b} : \A y \in {a, b} : x <= y
    <2>1. CASE a <= b
      BY <2>1
    <2>2. CASE ~(a <= b)
      BY <2>2
    <2> QED
      BY <2>1, <2>2
  <1>2. Min({a, b}) \in {a, b} /\ Min({a, b}) <= a /\ Min({a, b}) <= b
    BY <1>1 DEF Min
  <1> QED
    BY <1>2

(* What a query keeps: the best of the places that are due.                *)
Others(pass, exclude) == {p \in pass : p[1] \notin exclude}
Top(q, pass, k) ==
    LET sorted == RankedOf(Hits(q, pass, k), q)
    IN  {sorted[n] : n \in 1 .. Min({k, Len(sorted)})}
Kept(q, pass, k, threshold) == {p \in Top(q, pass, k) : Score(q, RowAt(p)) >= threshold}
DueAbove(q, pass, threshold) == {p \in Due(pass) : Score(q, RowAt(p)) >= threshold}

LEMMA KeptFactsOfQuery ==
    ASSUME ViewInv, ReadersAssumption, NEW q \in Int, NEW pass, NEW k \in Nat \ {0}, NEW threshold \in Int
    PROVE  LET kept == Kept(q, pass, k, threshold)
               due == DueAbove(q, pass, threshold)
           IN  /\ BestOf(kept, due, PlaceScores(q), k)
               /\ Cardinality(kept) \in Nat /\ Cardinality(due) \in Nat
               /\ Cardinality(kept) = Min({k, Cardinality(due)})
               /\ kept \in SUBSET LivePlaces
  <1> DEFINE D == Due(pass)
             H == Hits(q, pass, k)
             L == RankedOf(H, q)
             top == Top(q, pass, k)
             m == Min({k, Len(L)})
             score == PlaceScores(q)
  <1>1. IsFiniteSet(D) /\ D \in SUBSET LivePlaces /\ H \in SUBSET D
    BY DueFacts, HitsFacts
  <1>2. \A p \in LivePlaces : score[p] \in Int /\ score[p] = Score(q, RowAt(p))
    BY PlaceScoresFacts
  <1>3. H \in SUBSET LivePlaces
    BY <1>1
  <1>4. /\ IsFiniteSet(H) /\ IsOrder(RankPairs(H, q), H) /\ IsListing(L, H, RankPairs(H, q))
        /\ \A a, b \in H : <<a, b>> \in RankPairs(H, q) => score[a] >= score[b]
    BY <1>3, RankedLists
  <1>5. \A p \in D \ H : \E T \in SUBSET H : Cardinality(T) = k /\ \A t \in T : score[t] >= score[p]
    BY HitsFacts
  <1>6. top = {L[n] : n \in 1 .. m}
    BY DEF Top
  <1> HIDE DEF D, H, L, top, score
  <1>7. Len(L) = Cardinality(H) /\ Cardinality(H) \in Nat
    <2>1. Cardinality(H) \in Nat
      BY <1>4, FS_CardinalityType
    <2> QED
      BY <1>4, <2>1, ListingFacts
  <1>8. m \in Nat /\ m = IF k <= Cardinality(H) THEN k ELSE Cardinality(H)
    BY <1>7, MinOfTwo
  <1> HIDE DEF m
  <1>9. \A p \in D : score[p] \in Int
    BY <1>1, <1>2
  <1>10. BestOf({L[n] : n \in 1 .. m}, D, score, k)
    BY <1>1, <1>4, <1>5, <1>8, <1>9, CutIsBest
  <1>11. BestOf(top, D, score, k)
    BY <1>6, <1>10
  <1> DEFINE kept == Above(top, score, threshold)
             due == Above(D, score, threshold)
  <1>12. /\ BestOf(kept, due, score, k)
         /\ Cardinality(kept) \in Nat /\ Cardinality(due) \in Nat
         /\ Cardinality(kept) = IF k <= Cardinality(due) THEN k ELSE Cardinality(due)
    BY <1>1, <1>9, <1>11, ThresholdKeepsBest
  <1>13. top \in SUBSET LivePlaces
    BY <1>1, <1>11 DEF BestOf
  <1>14. kept = Kept(q, pass, k, threshold)
    BY <1>2, <1>13 DEF Kept, top, Above
  <1>15. due = DueAbove(q, pass, threshold)
    BY <1>1, <1>2 DEF DueAbove, D, Above
  <1>16. kept \in SUBSET LivePlaces
    BY <1>13 DEF Above
  <1> HIDE DEF kept, due
  <1>17. Cardinality(kept) = Min({k, Cardinality(due)})
    BY <1>12, MinOfTwo
  <1> QED
    BY <1>12, <1>14, <1>15, <1>16, <1>17 DEF score

LEMMA QueryIs ==
    ASSUME NEW q, NEW exclude, NEW pass, NEW k, NEW threshold
    PROVE  LET passing == RankedOf(Kept(q, Others(pass, exclude), k, threshold), q)
           IN  Query(q, exclude, pass, k, threshold) = [n \in DOMAIN passing |-> RowAt(passing[n])]
  BY DEF Query, Listed, RankedOf, Kept, Top, Others

RowsAbove(q, exclude, pass, threshold) ==
    {r \in LiveRowsOf(pass) : Score(q, r) >= threshold /\ r.id \notin exclude}

LEMMA DueOthers ==
    ASSUME ViewInv, ReadersAssumption, NEW q \in Int, NEW exclude, NEW pass, NEW threshold \in Int
    PROVE  LET D == DueAbove(q, Others(pass, exclude), threshold)
               due == RowsAbove(q, exclude, pass, threshold)
           IN  /\ D \in SUBSET LivePlaces
               /\ due = {RowAt(p) : p \in D} /\ Cardinality(due) = Cardinality(D)
  <1> DEFINE D == DueAbove(q, Others(pass, exclude), threshold)
             due == RowsAbove(q, exclude, pass, threshold)
             f == [p \in D |-> RowAt(p)]
  <1>1. \A p : p \in Due(Others(pass, exclude)) <=> p \in Due(pass) /\ RowAt(p).id \notin exclude
    BY DEF Due, Passes, Others
  <1>2. due = {RowAt(p) : p \in D}
    BY <1>1 DEF DueAbove, LiveRowsOf, RowsAbove
  <1>3. D \in SUBSET LivePlaces
    BY DueFacts DEF DueAbove
  <1>4. IsFiniteSet(D)
    BY <1>3, PlaceFacts, FS_Subset
  <1> HIDE DEF D, due
  <1>5. f \in Bijection(D, due)
    <2>1. f \in [D -> due]
      BY <1>2
    <2>2. \A a, b \in D : f[a] = f[b] => a = b
      BY <1>3, PlaceFacts
    <2>3. \A r \in due : \E a \in D : f[a] = r
      BY <1>2
    <2> HIDE DEF f
    <2> QED
      BY <2>1, <2>2, <2>3 DEF Bijection, Injection, IsInjective, Surjection
  <1>6. ExistsBijection(D, due)
    BY <1>5 DEF ExistsBijection
  <1>7. Cardinality(due) = Cardinality(D)
    BY <1>4, <1>6, FS_Bijection
  <1> QED
    BY <1>2, <1>3, <1>7 DEF D, due

LEMMA QueryIsBest ==
    ASSUME ViewInv, ReadersAssumption, NEW q \in Int, NEW exclude, NEW pass,
           NEW k \in Nat \ {0}, NEW threshold \in Int
    PROVE  IsBest(q, exclude, pass, k, threshold)
  <1> DEFINE others == Others(pass, exclude)
             K == Kept(q, others, k, threshold)
             D == DueAbove(q, others, threshold)
             L == RankedOf(K, q)
             n == Cardinality(K)
             score == PlaceScores(q)
             hits == Query(q, exclude, pass, k, threshold)
             due == RowsAbove(q, exclude, pass, threshold)
  <1>1. /\ BestOf(K, D, score, k) /\ n \in Nat /\ n = Min({k, Cardinality(D)})
        /\ K \in SUBSET LivePlaces
    BY KeptFactsOfQuery
  <1>2. due = {RowAt(p) : p \in D} /\ Cardinality(due) = Cardinality(D) /\ D \in SUBSET LivePlaces
    BY DueOthers
  <1>3. hits = [i \in DOMAIN L |-> RowAt(L[i])]
    BY QueryIs
  <1>4. /\ IsOrder(RankPairs(K, q), K) /\ IsListing(L, K, RankPairs(K, q))
        /\ \A a, b \in K : <<a, b>> \in RankPairs(K, q) => score[a] >= score[b]
    BY <1>1, RankedLists
  <1>5. \A p \in LivePlaces : score[p] \in Int /\ score[p] = Score(q, RowAt(p))
    BY PlaceScoresFacts
  <1> HIDE DEF K, D, L, score, hits, due
  <1>6. /\ DOMAIN L = 1 .. n
        /\ \A i \in 1 .. n : L[i] \in K
        /\ \A p \in K : \E i \in 1 .. n : L[i] = p
        /\ \A i, j \in 1 .. n : i < j => <<L[i], L[j]>> \in RankPairs(K, q)
        /\ \A i, j \in 1 .. n : L[i] = L[j] => i = j
    BY <1>4, ListingFacts DEF IsListing
  <1> HIDE DEF n
  <1>7. DOMAIN hits = 1 .. n /\ \A i \in 1 .. n : hits[i] = RowAt(L[i])
    BY <1>3, <1>6
  <1>8. Len(hits) = n
    <2>1. hits \in Seq({RowAt(p) : p \in K}) /\ Len(hits) = n
      <3>1. hits \in [1 .. n -> {RowAt(p) : p \in K}]
        BY <1>3, <1>6
      <3> QED
        BY <1>1, <3>1, IsSequence
    <2> QED
      BY <2>1
  <1>9. ToSet(hits) = {RowAt(p) : p \in K}
    <2>1. ToSet(hits) = {RowAt(L[i]) : i \in 1 .. n}
      BY <1>7 DEF ToSet
    <2> QED
      BY <1>6, <2>1
  <1>10. /\ K \in SUBSET D
         /\ \A p \in D \ K : \A x \in K : score[x] >= score[p]
    BY <1>1 DEF BestOf
  <1>11. ToSet(hits) \in SUBSET due
    BY <1>2, <1>9, <1>10
  <1>12. ASSUME NEW i \in 1 .. n, NEW j \in 1 .. n, i < j
         PROVE  hits[i].id # hits[j].id /\ Score(q, hits[i]) >= Score(q, hits[j])
    <2>1. L[i] \in LivePlaces /\ L[j] \in LivePlaces /\ L[i] \in K /\ L[j] \in K
      BY <1>1, <1>6
    <2>2. score[L[i]] >= score[L[j]]
      BY <1>4, <1>6, <1>12, <2>1
    <2>3. i # j
      BY <1>1, <1>12
    <2>4. L[i] # L[j]
      BY <1>6, <2>3
    <2>5. RowAt(L[i]).id # RowAt(L[j]).id
      BY <2>1, <2>4, PlaceFacts
    <2> QED
      BY <1>5, <1>7, <2>1, <2>2, <2>5
  <1>13. ASSUME NEW r \in due \ ToSet(hits), NEW i \in 1 .. n PROVE Score(q, hits[i]) >= Score(q, r)
    <2>1. PICK p \in D : r = RowAt(p)
      BY <1>2
    <2>2. p \notin K
      BY <1>9, <1>13, <2>1
    <2>3. score[L[i]] >= score[p]
      BY <1>6, <1>10, <2>2
    <2>4. L[i] \in LivePlaces /\ p \in LivePlaces
      BY <1>1, <1>2, <1>6
    <2> QED
      BY <1>5, <1>7, <2>1, <2>3, <2>4
  <1>14. Len(hits) = Min({k, Cardinality(due)})
    BY <1>1, <1>2, <1>8
  <1> QED
    BY <1>7, <1>11, <1>12, <1>13, <1>14 DEF IsBest, hits, due, RowsAbove

(* Collection::query returns the best points, whatever the segments the    *)
(* upserts, deletes, flushes and compactions (engine.rs) left them in: the *)
(* k best of each segment (flat.rs), merged, cut to k and then held to the *)
(* threshold.                                                              *)
THEOREM QueryBest == Spec => []QueryReturnsTheBest
  <1>1. ASSUME IInv PROVE QueryReturnsTheBest
    <2>1. ViewInv
      BY <1>1 DEF IInv
    <2>2. Target \in SUBSET Int /\ TopK \in SUBSET (Nat \ {0})
      BY ReadersAssumption DEF ReadersAssumption
    <2>3. ASSUME NEW q \in Int, NEW v \in Int PROVE -((q - v) * (q - v)) \in Int
      OBVIOUS
    <2>4. \A v : Score(0, [vector |-> v]) = -((0 - v) * (0 - v))
      BY DEF Score
    <2>5. Scores \in SUBSET Int
      <3>1. Vector \in SUBSET Int
        BY ReadersAssumption DEF ReadersAssumption
      <3>2. ASSUME NEW q \in Target, NEW v \in Vector PROVE Score(q, [vector |-> v]) \in Int
        <4>1. q \in Int /\ v \in Int
          BY <2>2, <3>1
        <4>2. Score(q, [vector |-> v]) = -((q - v) * (q - v))
          BY DEF Score
        <4> QED
          BY <2>3, <4>1, <4>2
      <3>3. ASSUME NEW x \in Scores PROVE x \in Int
        <4>1. PICK q \in Target, v \in Vector : x = Score(q, [vector |-> v])
          BY SMT DEF Scores
        <4> QED
          BY <3>2, <4>1
      <3> QED
        BY <3>3
    <2>6. \A q \in Target, k \in TopK, threshold \in Scores : \A exclude, pass :
            IsBest(q, exclude, pass, k, threshold)
      BY <2>1, <2>2, <2>5, QueryIsBest, ReadersAssumption
    <2> QED
      BY <2>6 DEF QueryReturnsTheBest
  <1> QED
    BY <1>1, InvHolds, PTL
=============================================================================
