---------------------------- MODULE IndexProofs ----------------------------
(***************************************************************************)
(* Proofs about the HNSW index, for segments of any number of rows, any    *)
(* coordinates, levels and widths, and either metric; and about the loops  *)
(* of the kernels, for vectors of every length.                            *)
(***************************************************************************)
EXTENDS HnswFile, SequenceTheorems, FiniteSetTheorems, TLAPS

(***************************************************************************)
(* Naturals.  The prover has no induction over an arbitrary predicate; the *)
(* set of the numbers that have the property serves as well.               *)
(***************************************************************************)

(* The intervals 0..x are well-founded by inclusion, hence the numbers. *)
LEMMA LeastExists ==
    ASSUME NEW T \in SUBSET Nat, T # {}
    PROVE  \E x \in T : \A y \in T : x <= y
  <1> DEFINE U == {0..x : x \in T}
  <1>1. U \in SUBSET FiniteSubsetsOf(Nat)
    <2>1. \A x \in T : IsFiniteSet(0..x) /\ 0..x \in SUBSET Nat
      BY FS_Interval
    <2> QED
      BY <2>1 DEF FiniteSubsetsOf
  <1>2. IsWellFoundedOn(StrictSubsetOrdering(Nat), FiniteSubsetsOf(Nat))
    BY FS_StrictSubsetOrderingWellFounded
  <1>3. U # {}
    OBVIOUS
  <1> HIDE DEF U
  <1>4. \E a \in U : \A b \in U : ~(<<b, a>> \in StrictSubsetOrdering(Nat))
    BY <1>1, <1>2, <1>3, WFMin, Zenon
  <1>5. PICK a \in U : \A b \in U : ~(<<b, a>> \in StrictSubsetOrdering(Nat))
    BY <1>4
  <1>6. PICK x \in T : a = 0..x
    BY DEF U
  <1>7. ASSUME NEW y \in T, y < x PROVE FALSE
    <2>1. 0..y \in U
      BY DEF U
    <2>2. ~(<<0..y, 0..x>> \in StrictSubsetOrdering(Nat))
      BY <2>1, <1>5, <1>6
    <2>3. 0..y \in SUBSET Nat /\ 0..x \in SUBSET Nat
      OBVIOUS
    <2>4. x \in 0..x /\ x \notin 0..y /\ 0..y \subseteq 0..x
      BY <1>7
    <2> QED
      BY <2>2, <2>3, <2>4 DEF StrictSubsetOrdering
  <1> QED
    BY <1>7

LEMMA InductionOnSet ==
    ASSUME NEW S \in SUBSET Nat, 0 \in S, \A n \in S : n + 1 \in S
    PROVE  S = Nat
  <1>1. SUFFICES ASSUME Nat \ S # {} PROVE FALSE
    OBVIOUS
  <1>2. PICK x \in Nat \ S : \A y \in Nat \ S : x <= y
    BY <1>1, LeastExists
  <1>3. x - 1 \in S
    BY <1>2
  <1> QED
    BY <1>2, <1>3

(* A loop is understood when its state after each iteration is. *)
LEMMA LoopInduction ==
    ASSUME NEW n \in Nat, NEW S, 0 \in S, \A k \in 0..(n - 1) : k \in S => k + 1 \in S
    PROVE  \A k \in 0..n : k \in S
  <1> DEFINE N == {k \in Nat : k <= n => k \in S}
  <1>1. N \in SUBSET Nat /\ 0 \in N
    OBVIOUS
  <1>2. \A k \in N : k + 1 \in N
    OBVIOUS
  <1>3. \A k \in N : k <= n => k \in S
    OBVIOUS
  <1> HIDE DEF N
  <1>4. N = Nat
    BY <1>1, <1>2, InductionOnSet
  <1> QED
    BY <1>3, <1>4

LEMMA GreatestExists ==
    ASSUME NEW T \in SUBSET Nat, T # {}, NEW n \in Nat, \A t \in T : t <= n
    PROVE  \E m \in T : \A t \in T : t <= m
  <1> DEFINE U == {d \in Nat : \E t \in T : d = n - t}
  <1>1. \A t \in T : t \in Nat /\ n - t \in U
    OBVIOUS
  <1>2. U # {} /\ U \in SUBSET Nat
    BY <1>1
  <1>3. \A d \in U : \E t \in T : d = n - t
    OBVIOUS
  <1> HIDE DEF U
  <1>4. PICK d \in U : \A e \in U : d <= e
    BY <1>2, LeastExists
  <1>5. PICK m \in T : d = n - m
    BY <1>3
  <1>6. \A t \in T : n - m <= n - t
    BY <1>1, <1>4, <1>5
  <1>7. \A t \in T : t <= m
    BY <1>1, <1>6
  <1> QED
    BY <1>7

LEMMA MaxIsGreatest ==
    ASSUME NEW T \in SUBSET Nat, T # {}, NEW n \in Nat, \A t \in T : t <= n
    PROVE  Max(T) \in T /\ \A t \in T : t <= Max(T)
  <1>1. PICK m \in T : \A t \in T : t <= m
    BY GreatestExists
  <1>2. \A x, y \in T : (x >= y) <=> (y <= x)
    OBVIOUS
  <1>3. \E x \in T : \A y \in T : x >= y
    BY <1>1, <1>2
  <1>4. Max(T) \in T /\ \A y \in T : Max(T) >= y
    BY <1>3 DEF Max
  <1> QED
    BY <1>2, <1>4

LEMMA MaxIs ==
    ASSUME NEW T \in SUBSET Nat, NEW n \in T, \A t \in T : t <= n
    PROVE  Max(T) = n
  <1>1. n \in Nat /\ T # {}
    OBVIOUS
  <1>2. Max(T) \in T /\ \A t \in T : t <= Max(T)
    BY <1>1, MaxIsGreatest
  <1>3. Max(T) \in Nat /\ n <= Max(T) /\ Max(T) <= n
    BY <1>2
  <1> QED
    BY <1>1, <1>3

-----------------------------------------------------------------------------
(* Listings.  Orders are sets of pairs here, which a lemma can be about.   *)

IsOrder(R, S) ==
    /\ \A x \in S : <<x, x>> \notin R
    /\ \A x, y \in S : x # y => <<x, y>> \in R \/ <<y, x>> \in R
    /\ \A x, y, z \in S : <<x, y>> \in R /\ <<y, z>> \in R => <<x, z>> \in R

Below(S, R, x) == {y \in S : <<y, x>> \in R}
InOrder(S, R) == [k \in 1 .. Cardinality(S) |-> CHOOSE x \in S : Cardinality(Below(S, R, x)) = k - 1]

IsListing(L, S, R) ==
    /\ Cardinality(S) \in Nat
    /\ L \in [1 .. Cardinality(S) -> S]
    /\ \A x \in S : \E k \in 1 .. Cardinality(S) : L[k] = x
    /\ \A i, j \in 1 .. Cardinality(S) : i < j <=> <<L[i], L[j]>> \in R

(* What comes before an element that comes earlier is less.                *)
LEMMA BelowGrows ==
    ASSUME NEW S, IsFiniteSet(S), NEW R, IsOrder(R, S)
    PROVE  /\ \A x \in S : Cardinality(Below(S, R, x)) \in 0 .. Cardinality(S) - 1
           /\ \A x, y \in S : <<x, y>> \in R =>
                Cardinality(Below(S, R, x)) < Cardinality(Below(S, R, y))
  <1>1. Cardinality(S) \in Nat
    BY FS_CardinalityType
  <1>2. ASSUME NEW x \in S PROVE IsFiniteSet(Below(S, R, x)) /\ Cardinality(Below(S, R, x)) \in Nat
    <2>1. Below(S, R, x) \in SUBSET S
      BY DEF Below
    <2> QED
      BY <2>1, FS_Subset, FS_CardinalityType
  <1>3. ASSUME NEW x \in S PROVE Cardinality(Below(S, R, x)) \in 0 .. Cardinality(S) - 1
    <2>1. Below(S, R, x) \in SUBSET S /\ Below(S, R, x) # S
      BY DEF Below, IsOrder
    <2>2. Cardinality(Below(S, R, x)) <= Cardinality(S) /\ Cardinality(Below(S, R, x)) # Cardinality(S)
      BY <2>1, FS_Subset
    <2> QED
      BY <1>1, <1>2, <2>2
  <1>4. ASSUME NEW x \in S, NEW y \in S, <<x, y>> \in R
        PROVE  Cardinality(Below(S, R, x)) < Cardinality(Below(S, R, y))
    <2>1. Below(S, R, x) \in SUBSET Below(S, R, y)
      BY <1>4 DEF Below, IsOrder
    <2>2. x \in Below(S, R, y) /\ x \notin Below(S, R, x)
      BY <1>4 DEF Below, IsOrder
    <2>3. /\ Cardinality(Below(S, R, x)) <= Cardinality(Below(S, R, y))
          /\ Cardinality(Below(S, R, x)) # Cardinality(Below(S, R, y))
      BY <1>2, <2>1, <2>2, FS_Subset
    <2> QED
      BY <1>2, <2>3
  <1> QED
    BY <1>3, <1>4

(* The numbers of those before are all different, hence take every value.  *)
LEMMA InOrderLists ==
    ASSUME NEW S, IsFiniteSet(S), NEW R, IsOrder(R, S)
    PROVE  IsListing(InOrder(S, R), S, R)
  <1> DEFINE n == Cardinality(S)
             Place == [x \in S |-> Cardinality(Below(S, R, x))]
             L == InOrder(S, R)
  <1>1. n \in Nat
    BY FS_CardinalityType
  <1>2. \A x \in S : Place[x] \in 0 .. n - 1
    BY BelowGrows
  <1>3. \A x, y \in S : <<x, y>> \in R => Place[x] < Place[y]
    BY BelowGrows
  <1> HIDE DEF Place
  <1>4. Place \in [S -> 0 .. n - 1]
    BY <1>2 DEF Place
  <1>5. \A x, y \in S : Place[x] = Place[y] => x = y
    <2> TAKE x, y \in S
    <2>1. x # y => Place[x] < Place[y] \/ Place[y] < Place[x]
      BY <1>3 DEF IsOrder
    <2>2. Place[x] \in Int /\ Place[y] \in Int
      BY <1>2
    <2> QED
      BY <2>1, <2>2
  <1>6. Place \in Injection(S, 0 .. n - 1)
    BY <1>4, <1>5 DEF Injection, IsInjective
  <1>7. IsFiniteSet(0 .. n - 1) /\ Cardinality(0 .. n - 1) = n
    <2>1. 0 \in Int /\ n - 1 \in Int /\ (IF 0 > n - 1 THEN 0 ELSE n - 1 - 0 + 1) = n
      BY <1>1
    <2> QED
      BY <2>1, FS_Interval
  <1>8. Place \in Surjection(S, 0 .. n - 1)
    BY <1>6, <1>7, FS_Injection
  <1>9. \A m \in 0 .. n - 1 : \E x \in S : Place[x] = m
    BY <1>8 DEF Surjection
  <1>10. ASSUME NEW k \in 1 .. n PROVE L[k] \in S /\ Place[L[k]] = k - 1
    <2>1. k - 1 \in 0 .. n - 1
      BY <1>1
    <2>2. \E x \in S : Cardinality(Below(S, R, x)) = k - 1
      BY <1>9, <2>1 DEF Place
    <2>3. L[k] \in S /\ Cardinality(Below(S, R, L[k])) = k - 1
      BY <2>2 DEF InOrder
    <2> QED
      BY <2>3 DEF Place
  <1>11. L \in [1 .. n -> S]
    <2>1. L = [k \in 1 .. n |-> L[k]]
      BY DEF InOrder
    <2> QED
      BY <1>10, <2>1
  <1>12. ASSUME NEW x \in S PROVE \E k \in 1 .. n : L[k] = x
    <2> HIDE DEF L
    <2>1. PICK k \in 1 .. n : k - 1 = Place[x]
      <3>1. \A m \in 0 .. n - 1 : \E k \in 1 .. n : k - 1 = m
        <4> TAKE m \in 0 .. n - 1
        <4>1. m + 1 \in 1 .. n /\ m + 1 - 1 = m
          BY <1>1
        <4> QED
          BY <4>1
      <3> HIDE DEF n
      <3> QED
        BY <1>2, <3>1
    <2>2. Place[L[k]] = Place[x] /\ L[k] \in S
      BY <1>10, <2>1
    <2> QED
      BY <1>5, <2>2
  <1>13. ASSUME NEW i \in 1 .. n, NEW j \in 1 .. n PROVE i < j <=> <<L[i], L[j]>> \in R
    <2>1. L[i] \in S /\ L[j] \in S /\ Place[L[i]] = i - 1 /\ Place[L[j]] = j - 1
      BY <1>10
    <2>2. <<L[i], L[j]>> \in R => i < j
      <3>1. <<L[i], L[j]>> \in R => Place[L[i]] < Place[L[j]]
        BY <1>3, <2>1
      <3> QED
        BY <1>1, <2>1, <3>1
    <2>3. <<L[j], L[i]>> \in R => j < i
      <3>1. <<L[j], L[i]>> \in R => Place[L[j]] < Place[L[i]]
        BY <1>3, <2>1
      <3> QED
        BY <1>1, <2>1, <3>1
    <2>4. i # j => L[i] # L[j]
      BY <1>1, <2>1
    <2>5. i < j => <<L[i], L[j]>> \in R
      BY <1>1, <2>1, <2>3, <2>4 DEF IsOrder
    <2> QED
      BY <2>2, <2>5
  <1> QED
    BY <1>1, <1>11, <1>12, <1>13 DEF IsListing

LEMMA ListingFacts ==
    ASSUME NEW S, NEW R, IsOrder(R, S), NEW L, IsListing(L, S, R)
    PROVE  /\ L \in Seq(S) /\ Len(L) = Cardinality(S) /\ DOMAIN L = 1 .. Cardinality(S)
           /\ \A i, j \in 1 .. Cardinality(S) : L[i] = L[j] => i = j
  <1>1. Cardinality(S) \in Nat /\ L \in [1 .. Cardinality(S) -> S]
    BY DEF IsListing
  <1>2. L \in Seq(S) /\ Len(L) = Cardinality(S) /\ DOMAIN L = 1 .. Cardinality(S)
    BY <1>1
  <1>3. ASSUME NEW i \in 1 .. Cardinality(S), NEW j \in 1 .. Cardinality(S), i < j
        PROVE  L[i] # L[j]
    <2>1. L[i] \in S /\ <<L[i], L[j]>> \in R
      BY <1>1, <1>3 DEF IsListing
    <2> QED
      BY <2>1 DEF IsOrder
  <1>4. \A i, j \in 1 .. Cardinality(S) : L[i] = L[j] => i = j
    <2> TAKE i, j \in 1 .. Cardinality(S)
    <2>1. i < j \/ j < i \/ i = j
      BY <1>1
    <2> QED
      BY <1>3, <2>1
  <1> QED
    BY <1>2, <1>4

-----------------------------------------------------------------------------
(* FoldLeft is the value at the whole domain of a function on the sets of  *)
(* positions; one unfolding of it, for a body h given as a function.       *)
FoldStep(h, base, seq, F) ==
    [s \in SUBSET DOMAIN seq |->
       IF s = {} THEN base ELSE h[<<F[s \ {Max(s)}], seq[Max(s)]>>]]

IsBody(h, S, T) == h \in [T \X S -> T]
IsFold(F, seq, T) == F \in [SUBSET DOMAIN seq -> T]

LEMMA LastOf ==
    ASSUME NEW n \in Nat, NEW s \in SUBSET (1..n), s # {}
    PROVE  Max(s) \in s
  BY MaxIsGreatest

(* Such a function exists: take one that unfolds on the sets of up to n    *)
(* positions; its unfolding does on those of n + 1.                        *)
LEMMA FoldExists ==
    ASSUME NEW S, NEW T, NEW base \in T, NEW h, IsBody(h, S, T), NEW seq \in Seq(S)
    PROVE  \E F : IsFold(F, seq, T) /\ F = FoldStep(h, base, seq, F)
  <1> DEFINE D == DOMAIN seq
             Fold == [SUBSET D -> T]
             Unfolds(F, n) == \A s \in SUBSET D :
                                Cardinality(s) <= n => F[s] = FoldStep(h, base, seq, F)[s]
             N == {n \in Nat : \E F \in Fold : Unfolds(F, n)}
  <1>1. PICK size \in Nat : D = 1..size /\ \A i \in D : seq[i] \in S
    BY LenProperties, ElementOfSeq
  <1>2. \A s \in SUBSET D : IsFiniteSet(s) /\ Cardinality(s) \in Nat
    <2>1. IsFiniteSet(D)
      BY <1>1, FS_Interval
    <2> QED
      BY <2>1, FS_Subset, FS_CardinalityType
  <1>3. \A s \in SUBSET D : s # {} => Max(s) \in s
    BY <1>1, LastOf
  <1>4. ASSUME NEW F \in Fold PROVE FoldStep(h, base, seq, F) \in Fold
    <2>1. ASSUME NEW s \in SUBSET D, s # {} PROVE h[<<F[s \ {Max(s)}], seq[Max(s)]>>] \in T
      <3>1. F[s \ {Max(s)}] \in T /\ seq[Max(s)] \in S
        BY <1>1, <1>3, <2>1
      <3> QED
        BY <3>1 DEF IsBody
    <2> QED
      BY <2>1 DEF FoldStep
  <1>5. ASSUME NEW n \in Nat, NEW F \in Fold, Unfolds(F, n)
        PROVE  Unfolds(FoldStep(h, base, seq, F), n + 1)
    <2> DEFINE G == FoldStep(h, base, seq, F)
    <2> SUFFICES ASSUME NEW s \in SUBSET D, Cardinality(s) <= n + 1
                 PROVE  G[s] = FoldStep(h, base, seq, G)[s]
      OBVIOUS
    <2>1. CASE s = {}
      BY <2>1 DEF FoldStep
    <2>2. CASE s # {}
      <3>1. Max(s) \in s
        BY <1>3, <2>2
      <3>2. Cardinality(s \ {Max(s)}) = Cardinality(s) - 1
        BY <1>2, <3>1, FS_RemoveElement
      <3>3. Cardinality(s \ {Max(s)}) <= n /\ s \ {Max(s)} \in SUBSET D
        BY <1>2, <3>2
      <3>4. F[s \ {Max(s)}] = G[s \ {Max(s)}]
        BY <1>5, <3>3
      <3>5. G[s] = h[<<F[s \ {Max(s)}], seq[Max(s)]>>]
        BY <2>2 DEF FoldStep
      <3> HIDE DEF G
      <3>6. FoldStep(h, base, seq, G)[s] = h[<<G[s \ {Max(s)}], seq[Max(s)]>>]
        BY <2>2 DEF FoldStep
      <3> QED
        BY <3>4, <3>5, <3>6
    <2> QED
      BY <2>1, <2>2
  <1>6. 0 \in N
    <2> DEFINE F == [s \in SUBSET D |-> base]
    <2>1. F \in Fold
      OBVIOUS
    <2>2. Unfolds(F, 0)
      <3> SUFFICES ASSUME NEW s \in SUBSET D, Cardinality(s) <= 0
                   PROVE  F[s] = FoldStep(h, base, seq, F)[s]
        OBVIOUS
      <3>1. s = {}
        BY <1>2, FS_EmptySet
      <3> QED
        BY <3>1 DEF FoldStep
    <2> HIDE DEF F, Unfolds
    <2> QED
      BY <2>1, <2>2
  <1>7. Cardinality(D) \in N => \E F \in Fold : Unfolds(F, Cardinality(D))
    OBVIOUS
  <1>8. \A n \in N : n + 1 \in N
    <2> HIDE DEF Unfolds, Fold
    <2> QED
      BY <1>4, <1>5
  <1>9. N \in SUBSET Nat
    OBVIOUS
  <1>10. Cardinality(D) \in Nat
    BY <1>2
  <1> HIDE DEF N
  <1>11. PICK F \in Fold : Unfolds(F, Cardinality(D))
    <2>1. N = Nat
      BY <1>6, <1>8, <1>9, InductionOnSet
    <2> QED
      BY <1>7, <1>10, <2>1
  <1>12. \A s \in SUBSET D : F[s] = FoldStep(h, base, seq, F)[s]
    <2>1. \A s \in SUBSET D : Cardinality(s) <= Cardinality(D)
      <3>1. IsFiniteSet(D)
        BY <1>2
      <3> QED
        BY <3>1, FS_Subset
    <2> QED
      BY <1>11, <2>1
  <1>13. F = FoldStep(h, base, seq, F)
    <2>1. F = [s \in SUBSET D |-> F[s]]
      OBVIOUS
    <2> QED
      BY <1>12, <2>1 DEF FoldStep
  <1> QED
    BY <1>13 DEF IsFold

LEMMA PrefixFacts ==
    ASSUME NEW k \in Nat
    PROVE  /\ 1..(k + 1) # {}
           /\ Max(1..(k + 1)) = k + 1
           /\ (1..(k + 1)) \ {k + 1} = 1..k
  <1>1. k + 1 \in 1..(k + 1) /\ \A t \in 1..(k + 1) : t <= k + 1
    OBVIOUS
  <1>2. Max(1..(k + 1)) = k + 1
    BY <1>1, MaxIs
  <1> QED
    BY <1>1, <1>2
(* The rounds of a fold, if its function F unfolds as it should.           *)
IsFoldRun(R, h, base, seq, T) ==
    /\ R \in [0 .. Len(seq) -> T]
    /\ R[0] = base
    /\ \A k \in 1 .. Len(seq) : R[k] = h[<<R[k - 1], seq[k]>>]

LEMMA RunOfFold ==
    ASSUME NEW S, NEW T, NEW base \in T, NEW h, IsBody(h, S, T), NEW seq \in Seq(S), NEW F,
           F[{}] = base,
           \A k \in 0 .. Len(seq) - 1 :
             F[1 .. k] \in T => F[1 .. (k + 1)] = h[<<F[1 .. k], seq[k + 1]>>]
    PROVE  \E R : IsFoldRun(R, h, base, seq, T) /\ R[Len(seq)] = F[DOMAIN seq]
  <1> DEFINE R == [k \in 0 .. Len(seq) |-> F[1 .. k]]
             In == {k \in 0 .. Len(seq) : R[k] \in T}
  <1>1. /\ Len(seq) \in Nat /\ DOMAIN seq = 1 .. Len(seq) /\ \A i \in 1 .. Len(seq) : seq[i] \in S
        /\ 1 .. 0 = {}
    OBVIOUS
  <1>2. 0 \in In
    BY <1>1
  <1>3. ASSUME NEW k \in 0 .. Len(seq) - 1, k \in In PROVE k + 1 \in In
    <2>1. k + 1 \in 1 .. Len(seq) /\ k \in 0 .. Len(seq) /\ k + 1 \in 0 .. Len(seq)
      BY <1>1
    <2>2. F[1 .. (k + 1)] = h[<<F[1 .. k], seq[k + 1]>>] /\ F[1 .. k] \in T /\ seq[k + 1] \in S
      BY <1>1, <1>3, <2>1
    <2> QED
      BY <2>1, <2>2 DEF IsBody
  <1>4. \A k \in 0 .. Len(seq) : k \in In
    <2> HIDE DEF In
    <2> QED
      BY <1>1, <1>2, <1>3, LoopInduction
  <1>5. \A k \in 0 .. Len(seq) : R[k] \in T /\ R[k] = F[1 .. k]
    BY <1>4
  <1>6. R \in [0 .. Len(seq) -> T]
    BY <1>5
  <1> HIDE DEF R, In
  <1>7. ASSUME NEW k \in 1 .. Len(seq) PROVE R[k] = h[<<R[k - 1], seq[k]>>]
    <2>1. k - 1 \in 0 .. Len(seq) - 1 /\ k - 1 \in 0 .. Len(seq) /\ (k - 1) + 1 = k /\ k \in 0 .. Len(seq)
      BY <1>1
    <2>2. R[k] = F[1 .. k] /\ R[k - 1] = F[1 .. (k - 1)] /\ F[1 .. (k - 1)] \in T
      BY <1>5, <2>1
    <2>3. F[1 .. ((k - 1) + 1)] = h[<<F[1 .. (k - 1)], seq[(k - 1) + 1]>>]
      BY <2>1, <2>2
    <2> QED
      BY <2>1, <2>2, <2>3
  <1>8. R[0] = base /\ R[Len(seq)] = F[DOMAIN seq]
    BY <1>1, <1>5
  <1> QED
    BY <1>6, <1>7, <1>8 DEF IsFoldRun

-----------------------------------------------------------------------------
(***************************************************************************)
(* The folds of the index.  Each has a lemma that gives the states that it *)
(* passes through, and some one that says that it stays in a set.  The     *)
(* lemmas are alike: a single one would have the step of the fold as a     *)
(* parameter, and the provers cannot instantiate operators.  FoldExists    *)
(* and RunOfFold above are what could be stated of a function.             *)
(***************************************************************************)

Nearest(q, b, seq) == FoldLeft(LAMBDA best, n : Closer(q, best, n), b, seq)
Walked(g, q, b, level, seq) == FoldLeft(LAMBDA ep, round : WalkOn(g, q, ep, level), b, seq)
VisitAll(q, b, seq, ef, pass) == FoldLeft(LAMBDA t, x : VisitNeighbour(q, t, x, ef, pass), b, seq)
VisitFirst(q, b, seq, ef, pass) == FoldLeft(LAMBDA s, n : Visit(q, s, n, ef, pass), b, seq)
ExpandAll(g, q, b, ef, level, pass, seq) ==
    FoldLeft(LAMBDA s, round : Expand(g, q, s, ef, level, pass), b, seq)
ChooseAll(q, b, seq, m) == FoldLeft(LAMBDA s, c : Choose(q, s, c, m), b, seq)
LinkAll(b, seq, level, idx) == FoldLeft(LAMBDA g, n : LinkBack(g, n, level, idx), b, seq)
DescendAll(g, q, b, seq) == FoldLeft(LAMBDA e, cur : GreedyDescend(g, q, e, cur), b, seq)
RetryAll(g, q, ep, b, k, cap, pass, seq) ==
    FoldLeft(LAMBDA s, try : Retry(g, q, ep, s, k, cap, pass), b, seq)
FurtherAll(b, seq) == FoldLeft(LAMBDA S, round : Further(S), b, seq)
ConnectAll(b, idx, seq) == FoldLeft(LAMBDA s, cur : ConnectLayer(s, idx, cur), b, seq)

IsNearestRun(R, q, b, seq, T) ==
    /\ R \in [0 .. Len(seq) -> T]
    /\ R[0] = b /\ R[Len(seq)] = Nearest(q, b, seq)
    /\ \A k \in 1 .. Len(seq) : R[k] = Closer(q, R[k - 1], seq[k])

LEMMA NearestRun ==
    ASSUME NEW q, NEW S, NEW T, NEW b \in T, NEW seq \in Seq(S),
           \A t \in T, c \in S : Closer(q, t, c) \in T
    PROVE  \E R : IsNearestRun(R, q, b, seq, T)
  <1> DEFINE D == DOMAIN seq
             h == [x \in T \X S |-> Closer(q, x[1], x[2])]
             Unfolded(F) == [s \in SUBSET D |-> IF s = {} THEN b
                               ELSE Closer(q, F[s \ {Max(s)}], seq[Max(s)])]
             F0 == CHOOSE F : F = Unfolded(F)
  <1>1. Len(seq) \in Nat /\ D = 1 .. Len(seq) /\ \A i \in 1 .. Len(seq) : seq[i] \in S
    OBVIOUS
  <1>2. IsBody(h, S, T) /\ \A t \in T, c \in S : h[<<t, c>>] = Closer(q, t, c)
    BY DEF IsBody
  <1>3. Nearest(q, b, seq) = F0[D]
    BY DEF Nearest, FoldLeft, MapThenFoldSet
  <1> HIDE DEF h
  <1>4. ASSUME NEW F, IsFold(F, seq, T) PROVE FoldStep(h, b, seq, F) = Unfolded(F)
    <2>1. ASSUME NEW s \in SUBSET D, s # {} PROVE F[s \ {Max(s)}] \in T /\ seq[Max(s)] \in S
      BY <1>1, <1>4, <2>1, LastOf DEF IsFold
    <2> QED
      BY <1>2, <2>1 DEF FoldStep
  <1> HIDE DEF Unfolded
  <1>5. \E F : F = Unfolded(F)
    <2>1. \E F : IsFold(F, seq, T) /\ F = FoldStep(h, b, seq, F)
      BY <1>2, FoldExists
    <2> QED
      BY <1>4, <2>1, Zenon
  <1>6. F0 = Unfolded(F0)
    BY <1>5, Zenon
  <1> HIDE DEF F0
  <1>7. \A s \in SUBSET D : F0[s] = IF s = {} THEN b ELSE Closer(q, F0[s \ {Max(s)}], seq[Max(s)])
    BY <1>6 DEF Unfolded
  <1>8. ASSUME NEW k \in 0 .. Len(seq) - 1, F0[1 .. k] \in T
        PROVE  F0[1 .. (k + 1)] = h[<<F0[1 .. k], seq[k + 1]>>]
    <2>1. 1 .. (k + 1) \in SUBSET D /\ k \in Nat /\ seq[k + 1] \in S
      BY <1>1
    <2>2. 1 .. (k + 1) # {} /\ Max(1 .. (k + 1)) = k + 1 /\ (1 .. (k + 1)) \ {k + 1} = 1 .. k
      BY <2>1, PrefixFacts
    <2>3. F0[1 .. (k + 1)] = Closer(q, F0[(1 .. (k + 1)) \ {Max(1 .. (k + 1))}], seq[Max(1 .. (k + 1))])
      BY <1>7, <2>1, <2>2, Zenon
    <2>4. F0[1 .. (k + 1)] = Closer(q, F0[1 .. k], seq[k + 1])
      BY <2>2, <2>3, Zenon
    <2> QED
      BY <1>2, <1>8, <2>1, <2>4
  <1>9. F0[{}] = b
    BY <1>7
  <1>10. PICK R : IsFoldRun(R, h, b, seq, T) /\ R[Len(seq)] = F0[D]
    BY <1>2, <1>8, <1>9, RunOfFold
  <1>11. ASSUME NEW k \in 1 .. Len(seq) PROVE R[k] = Closer(q, R[k - 1], seq[k])
    <2>1. R[k - 1] \in T /\ seq[k] \in S
      BY <1>1, <1>10 DEF IsFoldRun
    <2> QED
      BY <1>2, <1>10, <2>1 DEF IsFoldRun
  <1> QED
    BY <1>3, <1>10, <1>11 DEF IsFoldRun, IsNearestRun

LEMMA NearestStays ==
    ASSUME NEW q, NEW S, NEW T, NEW b \in T, NEW seq \in Seq(S),
           \A t \in T, c \in S : Closer(q, t, c) \in T
    PROVE  Nearest(q, b, seq) \in T
  <1>1. PICK R : IsNearestRun(R, q, b, seq, T)
    BY NearestRun
  <1>2. Len(seq) \in 0 .. Len(seq)
    OBVIOUS
  <1> QED
    BY <1>1, <1>2 DEF IsNearestRun


IsWalkedRun(R, g, q, level, b, seq, T) ==
    /\ R \in [0 .. Len(seq) -> T]
    /\ R[0] = b /\ R[Len(seq)] = Walked(g, q, b, level, seq)
    /\ \A k \in 1 .. Len(seq) : R[k] = WalkOn(g, q, R[k - 1], level)

LEMMA WalkedRun ==
    ASSUME NEW g, NEW q, NEW level, NEW S, NEW T, NEW b \in T, NEW seq \in Seq(S),
           \A t \in T, c \in S : WalkOn(g, q, t, level) \in T
    PROVE  \E R : IsWalkedRun(R, g, q, level, b, seq, T)
  <1> DEFINE D == DOMAIN seq
             h == [x \in T \X S |-> WalkOn(g, q, x[1], level)]
             Unfolded(F) == [s \in SUBSET D |-> IF s = {} THEN b
                               ELSE WalkOn(g, q, F[s \ {Max(s)}], level)]
             F0 == CHOOSE F : F = Unfolded(F)
  <1>1. Len(seq) \in Nat /\ D = 1 .. Len(seq) /\ \A i \in 1 .. Len(seq) : seq[i] \in S
    OBVIOUS
  <1>2. IsBody(h, S, T) /\ \A t \in T, c \in S : h[<<t, c>>] = WalkOn(g, q, t, level)
    BY DEF IsBody
  <1>3. Walked(g, q, b, level, seq) = F0[D]
    BY DEF Walked, FoldLeft, MapThenFoldSet
  <1> HIDE DEF h
  <1>4. ASSUME NEW F, IsFold(F, seq, T) PROVE FoldStep(h, b, seq, F) = Unfolded(F)
    <2>1. ASSUME NEW s \in SUBSET D, s # {} PROVE F[s \ {Max(s)}] \in T /\ seq[Max(s)] \in S
      BY <1>1, <1>4, <2>1, LastOf DEF IsFold
    <2> QED
      BY <1>2, <2>1 DEF FoldStep
  <1> HIDE DEF Unfolded
  <1>5. \E F : F = Unfolded(F)
    <2>1. \E F : IsFold(F, seq, T) /\ F = FoldStep(h, b, seq, F)
      BY <1>2, FoldExists
    <2> QED
      BY <1>4, <2>1, Zenon
  <1>6. F0 = Unfolded(F0)
    BY <1>5, Zenon
  <1> HIDE DEF F0
  <1>7. \A s \in SUBSET D : F0[s] = IF s = {} THEN b ELSE WalkOn(g, q, F0[s \ {Max(s)}], level)
    BY <1>6 DEF Unfolded
  <1>8. ASSUME NEW k \in 0 .. Len(seq) - 1, F0[1 .. k] \in T
        PROVE  F0[1 .. (k + 1)] = h[<<F0[1 .. k], seq[k + 1]>>]
    <2>1. 1 .. (k + 1) \in SUBSET D /\ k \in Nat /\ seq[k + 1] \in S
      BY <1>1
    <2>2. 1 .. (k + 1) # {} /\ Max(1 .. (k + 1)) = k + 1 /\ (1 .. (k + 1)) \ {k + 1} = 1 .. k
      BY <2>1, PrefixFacts
    <2>3. F0[1 .. (k + 1)] = WalkOn(g, q, F0[(1 .. (k + 1)) \ {Max(1 .. (k + 1))}], level)
      BY <1>7, <2>1, <2>2, Zenon
    <2>4. F0[1 .. (k + 1)] = WalkOn(g, q, F0[1 .. k], level)
      BY <2>2, <2>3, Zenon
    <2> QED
      BY <1>2, <1>8, <2>1, <2>4
  <1>9. F0[{}] = b
    BY <1>7
  <1>10. PICK R : IsFoldRun(R, h, b, seq, T) /\ R[Len(seq)] = F0[D]
    BY <1>2, <1>8, <1>9, RunOfFold
  <1>11. ASSUME NEW k \in 1 .. Len(seq) PROVE R[k] = WalkOn(g, q, R[k - 1], level)
    <2>1. R[k - 1] \in T /\ seq[k] \in S
      BY <1>1, <1>10 DEF IsFoldRun
    <2> QED
      BY <1>2, <1>10, <2>1 DEF IsFoldRun
  <1> QED
    BY <1>3, <1>10, <1>11 DEF IsFoldRun, IsWalkedRun

LEMMA WalkedStays ==
    ASSUME NEW g, NEW q, NEW level, NEW S, NEW T, NEW b \in T, NEW seq \in Seq(S),
           \A t \in T, c \in S : WalkOn(g, q, t, level) \in T
    PROVE  Walked(g, q, b, level, seq) \in T
  <1>1. PICK R : IsWalkedRun(R, g, q, level, b, seq, T)
    BY WalkedRun
  <1>2. Len(seq) \in 0 .. Len(seq)
    OBVIOUS
  <1> QED
    BY <1>1, <1>2 DEF IsWalkedRun


IsVisitAllRun(R, q, ef, pass, b, seq, T) ==
    /\ R \in [0 .. Len(seq) -> T]
    /\ R[0] = b /\ R[Len(seq)] = VisitAll(q, b, seq, ef, pass)
    /\ \A k \in 1 .. Len(seq) : R[k] = VisitNeighbour(q, R[k - 1], seq[k], ef, pass)

LEMMA VisitAllRun ==
    ASSUME NEW q, NEW ef, NEW pass, NEW S, NEW T, NEW b \in T, NEW seq \in Seq(S),
           \A t \in T, c \in S : VisitNeighbour(q, t, c, ef, pass) \in T
    PROVE  \E R : IsVisitAllRun(R, q, ef, pass, b, seq, T)
  <1> DEFINE D == DOMAIN seq
             h == [x \in T \X S |-> VisitNeighbour(q, x[1], x[2], ef, pass)]
             Unfolded(F) == [s \in SUBSET D |-> IF s = {} THEN b
                               ELSE VisitNeighbour(q, F[s \ {Max(s)}], seq[Max(s)], ef, pass)]
             F0 == CHOOSE F : F = Unfolded(F)
  <1>1. Len(seq) \in Nat /\ D = 1 .. Len(seq) /\ \A i \in 1 .. Len(seq) : seq[i] \in S
    OBVIOUS
  <1>2. IsBody(h, S, T) /\ \A t \in T, c \in S : h[<<t, c>>] = VisitNeighbour(q, t, c, ef, pass)
    BY DEF IsBody
  <1>3. VisitAll(q, b, seq, ef, pass) = F0[D]
    BY DEF VisitAll, FoldLeft, MapThenFoldSet
  <1> HIDE DEF h
  <1>4. ASSUME NEW F, IsFold(F, seq, T) PROVE FoldStep(h, b, seq, F) = Unfolded(F)
    <2>1. ASSUME NEW s \in SUBSET D, s # {} PROVE F[s \ {Max(s)}] \in T /\ seq[Max(s)] \in S
      BY <1>1, <1>4, <2>1, LastOf DEF IsFold
    <2> QED
      BY <1>2, <2>1 DEF FoldStep
  <1> HIDE DEF Unfolded
  <1>5. \E F : F = Unfolded(F)
    <2>1. \E F : IsFold(F, seq, T) /\ F = FoldStep(h, b, seq, F)
      BY <1>2, FoldExists
    <2> QED
      BY <1>4, <2>1, Zenon
  <1>6. F0 = Unfolded(F0)
    BY <1>5, Zenon
  <1> HIDE DEF F0
  <1>7. \A s \in SUBSET D : F0[s] = IF s = {} THEN b ELSE VisitNeighbour(q, F0[s \ {Max(s)}], seq[Max(s)], ef, pass)
    BY <1>6 DEF Unfolded
  <1>8. ASSUME NEW k \in 0 .. Len(seq) - 1, F0[1 .. k] \in T
        PROVE  F0[1 .. (k + 1)] = h[<<F0[1 .. k], seq[k + 1]>>]
    <2>1. 1 .. (k + 1) \in SUBSET D /\ k \in Nat /\ seq[k + 1] \in S
      BY <1>1
    <2>2. 1 .. (k + 1) # {} /\ Max(1 .. (k + 1)) = k + 1 /\ (1 .. (k + 1)) \ {k + 1} = 1 .. k
      BY <2>1, PrefixFacts
    <2>3. F0[1 .. (k + 1)] = VisitNeighbour(q, F0[(1 .. (k + 1)) \ {Max(1 .. (k + 1))}], seq[Max(1 .. (k + 1))], ef, pass)
      BY <1>7, <2>1, <2>2, Zenon
    <2>4. F0[1 .. (k + 1)] = VisitNeighbour(q, F0[1 .. k], seq[k + 1], ef, pass)
      BY <2>2, <2>3, Zenon
    <2> QED
      BY <1>2, <1>8, <2>1, <2>4
  <1>9. F0[{}] = b
    BY <1>7
  <1>10. PICK R : IsFoldRun(R, h, b, seq, T) /\ R[Len(seq)] = F0[D]
    BY <1>2, <1>8, <1>9, RunOfFold
  <1>11. ASSUME NEW k \in 1 .. Len(seq) PROVE R[k] = VisitNeighbour(q, R[k - 1], seq[k], ef, pass)
    <2>1. R[k - 1] \in T /\ seq[k] \in S
      BY <1>1, <1>10 DEF IsFoldRun
    <2> QED
      BY <1>2, <1>10, <2>1 DEF IsFoldRun
  <1> QED
    BY <1>3, <1>10, <1>11 DEF IsFoldRun, IsVisitAllRun

LEMMA VisitAllStays ==
    ASSUME NEW q, NEW ef, NEW pass, NEW S, NEW T, NEW b \in T, NEW seq \in Seq(S),
           \A t \in T, c \in S : VisitNeighbour(q, t, c, ef, pass) \in T
    PROVE  VisitAll(q, b, seq, ef, pass) \in T
  <1>1. PICK R : IsVisitAllRun(R, q, ef, pass, b, seq, T)
    BY VisitAllRun
  <1>2. Len(seq) \in 0 .. Len(seq)
    OBVIOUS
  <1> QED
    BY <1>1, <1>2 DEF IsVisitAllRun


IsVisitFirstRun(R, q, ef, pass, b, seq, T) ==
    /\ R \in [0 .. Len(seq) -> T]
    /\ R[0] = b /\ R[Len(seq)] = VisitFirst(q, b, seq, ef, pass)
    /\ \A k \in 1 .. Len(seq) : R[k] = Visit(q, R[k - 1], seq[k], ef, pass)

LEMMA VisitFirstRun ==
    ASSUME NEW q, NEW ef, NEW pass, NEW S, NEW T, NEW b \in T, NEW seq \in Seq(S),
           \A t \in T, c \in S : Visit(q, t, c, ef, pass) \in T
    PROVE  \E R : IsVisitFirstRun(R, q, ef, pass, b, seq, T)
  <1> DEFINE D == DOMAIN seq
             h == [x \in T \X S |-> Visit(q, x[1], x[2], ef, pass)]
             Unfolded(F) == [s \in SUBSET D |-> IF s = {} THEN b
                               ELSE Visit(q, F[s \ {Max(s)}], seq[Max(s)], ef, pass)]
             F0 == CHOOSE F : F = Unfolded(F)
  <1>1. Len(seq) \in Nat /\ D = 1 .. Len(seq) /\ \A i \in 1 .. Len(seq) : seq[i] \in S
    OBVIOUS
  <1>2. IsBody(h, S, T) /\ \A t \in T, c \in S : h[<<t, c>>] = Visit(q, t, c, ef, pass)
    BY DEF IsBody
  <1>3. VisitFirst(q, b, seq, ef, pass) = F0[D]
    BY DEF VisitFirst, FoldLeft, MapThenFoldSet
  <1> HIDE DEF h
  <1>4. ASSUME NEW F, IsFold(F, seq, T) PROVE FoldStep(h, b, seq, F) = Unfolded(F)
    <2>1. ASSUME NEW s \in SUBSET D, s # {} PROVE F[s \ {Max(s)}] \in T /\ seq[Max(s)] \in S
      BY <1>1, <1>4, <2>1, LastOf DEF IsFold
    <2> QED
      BY <1>2, <2>1 DEF FoldStep
  <1> HIDE DEF Unfolded
  <1>5. \E F : F = Unfolded(F)
    <2>1. \E F : IsFold(F, seq, T) /\ F = FoldStep(h, b, seq, F)
      BY <1>2, FoldExists
    <2> QED
      BY <1>4, <2>1, Zenon
  <1>6. F0 = Unfolded(F0)
    BY <1>5, Zenon
  <1> HIDE DEF F0
  <1>7. \A s \in SUBSET D : F0[s] = IF s = {} THEN b ELSE Visit(q, F0[s \ {Max(s)}], seq[Max(s)], ef, pass)
    BY <1>6 DEF Unfolded
  <1>8. ASSUME NEW k \in 0 .. Len(seq) - 1, F0[1 .. k] \in T
        PROVE  F0[1 .. (k + 1)] = h[<<F0[1 .. k], seq[k + 1]>>]
    <2>1. 1 .. (k + 1) \in SUBSET D /\ k \in Nat /\ seq[k + 1] \in S
      BY <1>1
    <2>2. 1 .. (k + 1) # {} /\ Max(1 .. (k + 1)) = k + 1 /\ (1 .. (k + 1)) \ {k + 1} = 1 .. k
      BY <2>1, PrefixFacts
    <2>3. F0[1 .. (k + 1)] = Visit(q, F0[(1 .. (k + 1)) \ {Max(1 .. (k + 1))}], seq[Max(1 .. (k + 1))], ef, pass)
      BY <1>7, <2>1, <2>2, Zenon
    <2>4. F0[1 .. (k + 1)] = Visit(q, F0[1 .. k], seq[k + 1], ef, pass)
      BY <2>2, <2>3, Zenon
    <2> QED
      BY <1>2, <1>8, <2>1, <2>4
  <1>9. F0[{}] = b
    BY <1>7
  <1>10. PICK R : IsFoldRun(R, h, b, seq, T) /\ R[Len(seq)] = F0[D]
    BY <1>2, <1>8, <1>9, RunOfFold
  <1>11. ASSUME NEW k \in 1 .. Len(seq) PROVE R[k] = Visit(q, R[k - 1], seq[k], ef, pass)
    <2>1. R[k - 1] \in T /\ seq[k] \in S
      BY <1>1, <1>10 DEF IsFoldRun
    <2> QED
      BY <1>2, <1>10, <2>1 DEF IsFoldRun
  <1> QED
    BY <1>3, <1>10, <1>11 DEF IsFoldRun, IsVisitFirstRun


IsExpandAllRun(R, g, q, ef, level, pass, b, seq, T) ==
    /\ R \in [0 .. Len(seq) -> T]
    /\ R[0] = b /\ R[Len(seq)] = ExpandAll(g, q, b, ef, level, pass, seq)
    /\ \A k \in 1 .. Len(seq) : R[k] = Expand(g, q, R[k - 1], ef, level, pass)

LEMMA ExpandAllRun ==
    ASSUME NEW g, NEW q, NEW ef, NEW level, NEW pass, NEW S, NEW T, NEW b \in T, NEW seq \in Seq(S),
           \A t \in T, c \in S : Expand(g, q, t, ef, level, pass) \in T
    PROVE  \E R : IsExpandAllRun(R, g, q, ef, level, pass, b, seq, T)
  <1> DEFINE D == DOMAIN seq
             h == [x \in T \X S |-> Expand(g, q, x[1], ef, level, pass)]
             Unfolded(F) == [s \in SUBSET D |-> IF s = {} THEN b
                               ELSE Expand(g, q, F[s \ {Max(s)}], ef, level, pass)]
             F0 == CHOOSE F : F = Unfolded(F)
  <1>1. Len(seq) \in Nat /\ D = 1 .. Len(seq) /\ \A i \in 1 .. Len(seq) : seq[i] \in S
    OBVIOUS
  <1>2. IsBody(h, S, T) /\ \A t \in T, c \in S : h[<<t, c>>] = Expand(g, q, t, ef, level, pass)
    BY DEF IsBody
  <1>3. ExpandAll(g, q, b, ef, level, pass, seq) = F0[D]
    BY DEF ExpandAll, FoldLeft, MapThenFoldSet
  <1> HIDE DEF h
  <1>4. ASSUME NEW F, IsFold(F, seq, T) PROVE FoldStep(h, b, seq, F) = Unfolded(F)
    <2>1. ASSUME NEW s \in SUBSET D, s # {} PROVE F[s \ {Max(s)}] \in T /\ seq[Max(s)] \in S
      BY <1>1, <1>4, <2>1, LastOf DEF IsFold
    <2> QED
      BY <1>2, <2>1 DEF FoldStep
  <1> HIDE DEF Unfolded
  <1>5. \E F : F = Unfolded(F)
    <2>1. \E F : IsFold(F, seq, T) /\ F = FoldStep(h, b, seq, F)
      BY <1>2, FoldExists
    <2> QED
      BY <1>4, <2>1, Zenon
  <1>6. F0 = Unfolded(F0)
    BY <1>5, Zenon
  <1> HIDE DEF F0
  <1>7. \A s \in SUBSET D : F0[s] = IF s = {} THEN b ELSE Expand(g, q, F0[s \ {Max(s)}], ef, level, pass)
    BY <1>6 DEF Unfolded
  <1>8. ASSUME NEW k \in 0 .. Len(seq) - 1, F0[1 .. k] \in T
        PROVE  F0[1 .. (k + 1)] = h[<<F0[1 .. k], seq[k + 1]>>]
    <2>1. 1 .. (k + 1) \in SUBSET D /\ k \in Nat /\ seq[k + 1] \in S
      BY <1>1
    <2>2. 1 .. (k + 1) # {} /\ Max(1 .. (k + 1)) = k + 1 /\ (1 .. (k + 1)) \ {k + 1} = 1 .. k
      BY <2>1, PrefixFacts
    <2>3. F0[1 .. (k + 1)] = Expand(g, q, F0[(1 .. (k + 1)) \ {Max(1 .. (k + 1))}], ef, level, pass)
      BY <1>7, <2>1, <2>2, Zenon
    <2>4. F0[1 .. (k + 1)] = Expand(g, q, F0[1 .. k], ef, level, pass)
      BY <2>2, <2>3, Zenon
    <2> QED
      BY <1>2, <1>8, <2>1, <2>4
  <1>9. F0[{}] = b
    BY <1>7
  <1>10. PICK R : IsFoldRun(R, h, b, seq, T) /\ R[Len(seq)] = F0[D]
    BY <1>2, <1>8, <1>9, RunOfFold
  <1>11. ASSUME NEW k \in 1 .. Len(seq) PROVE R[k] = Expand(g, q, R[k - 1], ef, level, pass)
    <2>1. R[k - 1] \in T /\ seq[k] \in S
      BY <1>1, <1>10 DEF IsFoldRun
    <2> QED
      BY <1>2, <1>10, <2>1 DEF IsFoldRun
  <1> QED
    BY <1>3, <1>10, <1>11 DEF IsFoldRun, IsExpandAllRun

LEMMA ExpandAllStays ==
    ASSUME NEW g, NEW q, NEW ef, NEW level, NEW pass, NEW S, NEW T, NEW b \in T, NEW seq \in Seq(S),
           \A t \in T, c \in S : Expand(g, q, t, ef, level, pass) \in T
    PROVE  ExpandAll(g, q, b, ef, level, pass, seq) \in T
  <1>1. PICK R : IsExpandAllRun(R, g, q, ef, level, pass, b, seq, T)
    BY ExpandAllRun
  <1>2. Len(seq) \in 0 .. Len(seq)
    OBVIOUS
  <1> QED
    BY <1>1, <1>2 DEF IsExpandAllRun


IsChooseAllRun(R, q, m, b, seq, T) ==
    /\ R \in [0 .. Len(seq) -> T]
    /\ R[0] = b /\ R[Len(seq)] = ChooseAll(q, b, seq, m)
    /\ \A k \in 1 .. Len(seq) : R[k] = Choose(q, R[k - 1], seq[k], m)

LEMMA ChooseAllRun ==
    ASSUME NEW q, NEW m \in Nat, NEW S, NEW T, NEW b \in T, NEW seq \in Seq(S),
           \A t \in T, c \in S : Choose(q, t, c, m) \in T
    PROVE  \E R : IsChooseAllRun(R, q, m, b, seq, T)
  <1> DEFINE D == DOMAIN seq
             h == [x \in T \X S |-> Choose(q, x[1], x[2], m)]
             Unfolded(F) == [s \in SUBSET D |-> IF s = {} THEN b
                               ELSE Choose(q, F[s \ {Max(s)}], seq[Max(s)], m)]
             F0 == CHOOSE F : F = Unfolded(F)
  <1>1. Len(seq) \in Nat /\ D = 1 .. Len(seq) /\ \A i \in 1 .. Len(seq) : seq[i] \in S
    OBVIOUS
  <1>2. IsBody(h, S, T) /\ \A t \in T, c \in S : h[<<t, c>>] = Choose(q, t, c, m)
    BY DEF IsBody
  <1>3. ChooseAll(q, b, seq, m) = F0[D]
    BY DEF ChooseAll, FoldLeft, MapThenFoldSet
  <1> HIDE DEF h
  <1>4. ASSUME NEW F, IsFold(F, seq, T) PROVE FoldStep(h, b, seq, F) = Unfolded(F)
    <2>1. ASSUME NEW s \in SUBSET D, s # {} PROVE F[s \ {Max(s)}] \in T /\ seq[Max(s)] \in S
      BY <1>1, <1>4, <2>1, LastOf DEF IsFold
    <2> QED
      BY <1>2, <2>1 DEF FoldStep
  <1> HIDE DEF Unfolded
  <1>5. \E F : F = Unfolded(F)
    <2>1. \E F : IsFold(F, seq, T) /\ F = FoldStep(h, b, seq, F)
      BY <1>2, FoldExists
    <2> QED
      BY <1>4, <2>1, Zenon
  <1>6. F0 = Unfolded(F0)
    BY <1>5, Zenon
  <1> HIDE DEF F0
  <1>7. \A s \in SUBSET D : F0[s] = IF s = {} THEN b ELSE Choose(q, F0[s \ {Max(s)}], seq[Max(s)], m)
    BY <1>6 DEF Unfolded
  <1>8. ASSUME NEW k \in 0 .. Len(seq) - 1, F0[1 .. k] \in T
        PROVE  F0[1 .. (k + 1)] = h[<<F0[1 .. k], seq[k + 1]>>]
    <2>1. 1 .. (k + 1) \in SUBSET D /\ k \in Nat /\ seq[k + 1] \in S
      BY <1>1
    <2>2. 1 .. (k + 1) # {} /\ Max(1 .. (k + 1)) = k + 1 /\ (1 .. (k + 1)) \ {k + 1} = 1 .. k
      BY <2>1, PrefixFacts
    <2>3. F0[1 .. (k + 1)] = Choose(q, F0[(1 .. (k + 1)) \ {Max(1 .. (k + 1))}], seq[Max(1 .. (k + 1))], m)
      BY <1>7, <2>1, <2>2, Zenon
    <2>4. F0[1 .. (k + 1)] = Choose(q, F0[1 .. k], seq[k + 1], m)
      BY <2>2, <2>3, Zenon
    <2> QED
      BY <1>2, <1>8, <2>1, <2>4
  <1>9. F0[{}] = b
    BY <1>7
  <1>10. PICK R : IsFoldRun(R, h, b, seq, T) /\ R[Len(seq)] = F0[D]
    BY <1>2, <1>8, <1>9, RunOfFold
  <1>11. ASSUME NEW k \in 1 .. Len(seq) PROVE R[k] = Choose(q, R[k - 1], seq[k], m)
    <2>1. R[k - 1] \in T /\ seq[k] \in S
      BY <1>1, <1>10 DEF IsFoldRun
    <2> QED
      BY <1>2, <1>10, <2>1 DEF IsFoldRun
  <1> QED
    BY <1>3, <1>10, <1>11 DEF IsFoldRun, IsChooseAllRun


IsLinkAllRun(R, level, idx, b, seq, T) ==
    /\ R \in [0 .. Len(seq) -> T]
    /\ R[0] = b /\ R[Len(seq)] = LinkAll(b, seq, level, idx)
    /\ \A k \in 1 .. Len(seq) : R[k] = LinkBack(R[k - 1], seq[k], level, idx)

LEMMA LinkAllRun ==
    ASSUME NEW level, NEW idx, NEW S, NEW T, NEW b \in T, NEW seq \in Seq(S),
           \A t \in T, c \in S : LinkBack(t, c, level, idx) \in T
    PROVE  \E R : IsLinkAllRun(R, level, idx, b, seq, T)
  <1> DEFINE D == DOMAIN seq
             h == [x \in T \X S |-> LinkBack(x[1], x[2], level, idx)]
             Unfolded(F) == [s \in SUBSET D |-> IF s = {} THEN b
                               ELSE LinkBack(F[s \ {Max(s)}], seq[Max(s)], level, idx)]
             F0 == CHOOSE F : F = Unfolded(F)
  <1>1. Len(seq) \in Nat /\ D = 1 .. Len(seq) /\ \A i \in 1 .. Len(seq) : seq[i] \in S
    OBVIOUS
  <1>2. IsBody(h, S, T) /\ \A t \in T, c \in S : h[<<t, c>>] = LinkBack(t, c, level, idx)
    BY DEF IsBody
  <1>3. LinkAll(b, seq, level, idx) = F0[D]
    BY DEF LinkAll, FoldLeft, MapThenFoldSet
  <1> HIDE DEF h
  <1>4. ASSUME NEW F, IsFold(F, seq, T) PROVE FoldStep(h, b, seq, F) = Unfolded(F)
    <2>1. ASSUME NEW s \in SUBSET D, s # {} PROVE F[s \ {Max(s)}] \in T /\ seq[Max(s)] \in S
      BY <1>1, <1>4, <2>1, LastOf DEF IsFold
    <2> QED
      BY <1>2, <2>1 DEF FoldStep
  <1> HIDE DEF Unfolded
  <1>5. \E F : F = Unfolded(F)
    <2>1. \E F : IsFold(F, seq, T) /\ F = FoldStep(h, b, seq, F)
      BY <1>2, FoldExists
    <2> QED
      BY <1>4, <2>1, Zenon
  <1>6. F0 = Unfolded(F0)
    BY <1>5, Zenon
  <1> HIDE DEF F0
  <1>7. \A s \in SUBSET D : F0[s] = IF s = {} THEN b ELSE LinkBack(F0[s \ {Max(s)}], seq[Max(s)], level, idx)
    BY <1>6 DEF Unfolded
  <1>8. ASSUME NEW k \in 0 .. Len(seq) - 1, F0[1 .. k] \in T
        PROVE  F0[1 .. (k + 1)] = h[<<F0[1 .. k], seq[k + 1]>>]
    <2>1. 1 .. (k + 1) \in SUBSET D /\ k \in Nat /\ seq[k + 1] \in S
      BY <1>1
    <2>2. 1 .. (k + 1) # {} /\ Max(1 .. (k + 1)) = k + 1 /\ (1 .. (k + 1)) \ {k + 1} = 1 .. k
      BY <2>1, PrefixFacts
    <2>3. F0[1 .. (k + 1)] = LinkBack(F0[(1 .. (k + 1)) \ {Max(1 .. (k + 1))}], seq[Max(1 .. (k + 1))], level, idx)
      BY <1>7, <2>1, <2>2, Zenon
    <2>4. F0[1 .. (k + 1)] = LinkBack(F0[1 .. k], seq[k + 1], level, idx)
      BY <2>2, <2>3, Zenon
    <2> QED
      BY <1>2, <1>8, <2>1, <2>4
  <1>9. F0[{}] = b
    BY <1>7
  <1>10. PICK R : IsFoldRun(R, h, b, seq, T) /\ R[Len(seq)] = F0[D]
    BY <1>2, <1>8, <1>9, RunOfFold
  <1>11. ASSUME NEW k \in 1 .. Len(seq) PROVE R[k] = LinkBack(R[k - 1], seq[k], level, idx)
    <2>1. R[k - 1] \in T /\ seq[k] \in S
      BY <1>1, <1>10 DEF IsFoldRun
    <2> QED
      BY <1>2, <1>10, <2>1 DEF IsFoldRun
  <1> QED
    BY <1>3, <1>10, <1>11 DEF IsFoldRun, IsLinkAllRun

LEMMA LinkAllStays ==
    ASSUME NEW level, NEW idx, NEW S, NEW T, NEW b \in T, NEW seq \in Seq(S),
           \A t \in T, c \in S : LinkBack(t, c, level, idx) \in T
    PROVE  LinkAll(b, seq, level, idx) \in T
  <1>1. PICK R : IsLinkAllRun(R, level, idx, b, seq, T)
    BY LinkAllRun
  <1>2. Len(seq) \in 0 .. Len(seq)
    OBVIOUS
  <1> QED
    BY <1>1, <1>2 DEF IsLinkAllRun


IsDescendAllRun(R, g, q, b, seq, T) ==
    /\ R \in [0 .. Len(seq) -> T]
    /\ R[0] = b /\ R[Len(seq)] = DescendAll(g, q, b, seq)
    /\ \A k \in 1 .. Len(seq) : R[k] = GreedyDescend(g, q, R[k - 1], seq[k])

LEMMA DescendAllRun ==
    ASSUME NEW g, NEW q, NEW S, NEW T, NEW b \in T, NEW seq \in Seq(S),
           \A t \in T, c \in S : GreedyDescend(g, q, t, c) \in T
    PROVE  \E R : IsDescendAllRun(R, g, q, b, seq, T)
  <1> DEFINE D == DOMAIN seq
             h == [x \in T \X S |-> GreedyDescend(g, q, x[1], x[2])]
             Unfolded(F) == [s \in SUBSET D |-> IF s = {} THEN b
                               ELSE GreedyDescend(g, q, F[s \ {Max(s)}], seq[Max(s)])]
             F0 == CHOOSE F : F = Unfolded(F)
  <1>1. Len(seq) \in Nat /\ D = 1 .. Len(seq) /\ \A i \in 1 .. Len(seq) : seq[i] \in S
    OBVIOUS
  <1>2. IsBody(h, S, T) /\ \A t \in T, c \in S : h[<<t, c>>] = GreedyDescend(g, q, t, c)
    BY DEF IsBody
  <1>3. DescendAll(g, q, b, seq) = F0[D]
    BY DEF DescendAll, FoldLeft, MapThenFoldSet
  <1> HIDE DEF h
  <1>4. ASSUME NEW F, IsFold(F, seq, T) PROVE FoldStep(h, b, seq, F) = Unfolded(F)
    <2>1. ASSUME NEW s \in SUBSET D, s # {} PROVE F[s \ {Max(s)}] \in T /\ seq[Max(s)] \in S
      BY <1>1, <1>4, <2>1, LastOf DEF IsFold
    <2> QED
      BY <1>2, <2>1 DEF FoldStep
  <1> HIDE DEF Unfolded
  <1>5. \E F : F = Unfolded(F)
    <2>1. \E F : IsFold(F, seq, T) /\ F = FoldStep(h, b, seq, F)
      BY <1>2, FoldExists
    <2> QED
      BY <1>4, <2>1, Zenon
  <1>6. F0 = Unfolded(F0)
    BY <1>5, Zenon
  <1> HIDE DEF F0
  <1>7. \A s \in SUBSET D : F0[s] = IF s = {} THEN b ELSE GreedyDescend(g, q, F0[s \ {Max(s)}], seq[Max(s)])
    BY <1>6 DEF Unfolded
  <1>8. ASSUME NEW k \in 0 .. Len(seq) - 1, F0[1 .. k] \in T
        PROVE  F0[1 .. (k + 1)] = h[<<F0[1 .. k], seq[k + 1]>>]
    <2>1. 1 .. (k + 1) \in SUBSET D /\ k \in Nat /\ seq[k + 1] \in S
      BY <1>1
    <2>2. 1 .. (k + 1) # {} /\ Max(1 .. (k + 1)) = k + 1 /\ (1 .. (k + 1)) \ {k + 1} = 1 .. k
      BY <2>1, PrefixFacts
    <2>3. F0[1 .. (k + 1)] = GreedyDescend(g, q, F0[(1 .. (k + 1)) \ {Max(1 .. (k + 1))}], seq[Max(1 .. (k + 1))])
      BY <1>7, <2>1, <2>2, Zenon
    <2>4. F0[1 .. (k + 1)] = GreedyDescend(g, q, F0[1 .. k], seq[k + 1])
      BY <2>2, <2>3, Zenon
    <2> QED
      BY <1>2, <1>8, <2>1, <2>4
  <1>9. F0[{}] = b
    BY <1>7
  <1>10. PICK R : IsFoldRun(R, h, b, seq, T) /\ R[Len(seq)] = F0[D]
    BY <1>2, <1>8, <1>9, RunOfFold
  <1>11. ASSUME NEW k \in 1 .. Len(seq) PROVE R[k] = GreedyDescend(g, q, R[k - 1], seq[k])
    <2>1. R[k - 1] \in T /\ seq[k] \in S
      BY <1>1, <1>10 DEF IsFoldRun
    <2> QED
      BY <1>2, <1>10, <2>1 DEF IsFoldRun
  <1> QED
    BY <1>3, <1>10, <1>11 DEF IsFoldRun, IsDescendAllRun

LEMMA DescendAllStays ==
    ASSUME NEW g, NEW q, NEW S, NEW T, NEW b \in T, NEW seq \in Seq(S),
           \A t \in T, c \in S : GreedyDescend(g, q, t, c) \in T
    PROVE  DescendAll(g, q, b, seq) \in T
  <1>1. PICK R : IsDescendAllRun(R, g, q, b, seq, T)
    BY DescendAllRun
  <1>2. Len(seq) \in 0 .. Len(seq)
    OBVIOUS
  <1> QED
    BY <1>1, <1>2 DEF IsDescendAllRun


IsConnectAllRun(R, idx, b, seq, T) ==
    /\ R \in [0 .. Len(seq) -> T]
    /\ R[0] = b /\ R[Len(seq)] = ConnectAll(b, idx, seq)
    /\ \A k \in 1 .. Len(seq) : R[k] = ConnectLayer(R[k - 1], idx, seq[k])

LEMMA ConnectAllRun ==
    ASSUME NEW idx, NEW S, NEW T, NEW b \in T, NEW seq \in Seq(S),
           \A t \in T, c \in S : ConnectLayer(t, idx, c) \in T
    PROVE  \E R : IsConnectAllRun(R, idx, b, seq, T)
  <1> DEFINE D == DOMAIN seq
             h == [x \in T \X S |-> ConnectLayer(x[1], idx, x[2])]
             Unfolded(F) == [s \in SUBSET D |-> IF s = {} THEN b
                               ELSE ConnectLayer(F[s \ {Max(s)}], idx, seq[Max(s)])]
             F0 == CHOOSE F : F = Unfolded(F)
  <1>1. Len(seq) \in Nat /\ D = 1 .. Len(seq) /\ \A i \in 1 .. Len(seq) : seq[i] \in S
    OBVIOUS
  <1>2. IsBody(h, S, T) /\ \A t \in T, c \in S : h[<<t, c>>] = ConnectLayer(t, idx, c)
    BY DEF IsBody
  <1>3. ConnectAll(b, idx, seq) = F0[D]
    BY DEF ConnectAll, FoldLeft, MapThenFoldSet
  <1> HIDE DEF h
  <1>4. ASSUME NEW F, IsFold(F, seq, T) PROVE FoldStep(h, b, seq, F) = Unfolded(F)
    <2>1. ASSUME NEW s \in SUBSET D, s # {} PROVE F[s \ {Max(s)}] \in T /\ seq[Max(s)] \in S
      BY <1>1, <1>4, <2>1, LastOf DEF IsFold
    <2> QED
      BY <1>2, <2>1 DEF FoldStep
  <1> HIDE DEF Unfolded
  <1>5. \E F : F = Unfolded(F)
    <2>1. \E F : IsFold(F, seq, T) /\ F = FoldStep(h, b, seq, F)
      BY <1>2, FoldExists
    <2> QED
      BY <1>4, <2>1, Zenon
  <1>6. F0 = Unfolded(F0)
    BY <1>5, Zenon
  <1> HIDE DEF F0
  <1>7. \A s \in SUBSET D : F0[s] = IF s = {} THEN b ELSE ConnectLayer(F0[s \ {Max(s)}], idx, seq[Max(s)])
    BY <1>6 DEF Unfolded
  <1>8. ASSUME NEW k \in 0 .. Len(seq) - 1, F0[1 .. k] \in T
        PROVE  F0[1 .. (k + 1)] = h[<<F0[1 .. k], seq[k + 1]>>]
    <2>1. 1 .. (k + 1) \in SUBSET D /\ k \in Nat /\ seq[k + 1] \in S
      BY <1>1
    <2>2. 1 .. (k + 1) # {} /\ Max(1 .. (k + 1)) = k + 1 /\ (1 .. (k + 1)) \ {k + 1} = 1 .. k
      BY <2>1, PrefixFacts
    <2>3. F0[1 .. (k + 1)] = ConnectLayer(F0[(1 .. (k + 1)) \ {Max(1 .. (k + 1))}], idx, seq[Max(1 .. (k + 1))])
      BY <1>7, <2>1, <2>2, Zenon
    <2>4. F0[1 .. (k + 1)] = ConnectLayer(F0[1 .. k], idx, seq[k + 1])
      BY <2>2, <2>3, Zenon
    <2> QED
      BY <1>2, <1>8, <2>1, <2>4
  <1>9. F0[{}] = b
    BY <1>7
  <1>10. PICK R : IsFoldRun(R, h, b, seq, T) /\ R[Len(seq)] = F0[D]
    BY <1>2, <1>8, <1>9, RunOfFold
  <1>11. ASSUME NEW k \in 1 .. Len(seq) PROVE R[k] = ConnectLayer(R[k - 1], idx, seq[k])
    <2>1. R[k - 1] \in T /\ seq[k] \in S
      BY <1>1, <1>10 DEF IsFoldRun
    <2> QED
      BY <1>2, <1>10, <2>1 DEF IsFoldRun
  <1> QED
    BY <1>3, <1>10, <1>11 DEF IsFoldRun, IsConnectAllRun


IsRetryAllRun(R, g, q, ep, want, cap, pass, b, seq, T) ==
    /\ R \in [0 .. Len(seq) -> T]
    /\ R[0] = b /\ R[Len(seq)] = RetryAll(g, q, ep, b, want, cap, pass, seq)
    /\ \A k \in 1 .. Len(seq) : R[k] = Retry(g, q, ep, R[k - 1], want, cap, pass)

LEMMA RetryAllRun ==
    ASSUME NEW g, NEW q, NEW ep, NEW want, NEW cap, NEW pass, NEW S, NEW T, NEW b \in T, NEW seq \in Seq(S),
           \A t \in T, c \in S : Retry(g, q, ep, t, want, cap, pass) \in T
    PROVE  \E R : IsRetryAllRun(R, g, q, ep, want, cap, pass, b, seq, T)
  <1> DEFINE D == DOMAIN seq
             h == [x \in T \X S |-> Retry(g, q, ep, x[1], want, cap, pass)]
             Unfolded(F) == [s \in SUBSET D |-> IF s = {} THEN b
                               ELSE Retry(g, q, ep, F[s \ {Max(s)}], want, cap, pass)]
             F0 == CHOOSE F : F = Unfolded(F)
  <1>1. Len(seq) \in Nat /\ D = 1 .. Len(seq) /\ \A i \in 1 .. Len(seq) : seq[i] \in S
    OBVIOUS
  <1>2. IsBody(h, S, T) /\ \A t \in T, c \in S : h[<<t, c>>] = Retry(g, q, ep, t, want, cap, pass)
    BY DEF IsBody
  <1>3. RetryAll(g, q, ep, b, want, cap, pass, seq) = F0[D]
    BY DEF RetryAll, FoldLeft, MapThenFoldSet
  <1> HIDE DEF h
  <1>4. ASSUME NEW F, IsFold(F, seq, T) PROVE FoldStep(h, b, seq, F) = Unfolded(F)
    <2>1. ASSUME NEW s \in SUBSET D, s # {} PROVE F[s \ {Max(s)}] \in T /\ seq[Max(s)] \in S
      BY <1>1, <1>4, <2>1, LastOf DEF IsFold
    <2> QED
      BY <1>2, <2>1 DEF FoldStep
  <1> HIDE DEF Unfolded
  <1>5. \E F : F = Unfolded(F)
    <2>1. \E F : IsFold(F, seq, T) /\ F = FoldStep(h, b, seq, F)
      BY <1>2, FoldExists
    <2> QED
      BY <1>4, <2>1, Zenon
  <1>6. F0 = Unfolded(F0)
    BY <1>5, Zenon
  <1> HIDE DEF F0
  <1>7. \A s \in SUBSET D : F0[s] = IF s = {} THEN b ELSE Retry(g, q, ep, F0[s \ {Max(s)}], want, cap, pass)
    BY <1>6 DEF Unfolded
  <1>8. ASSUME NEW k \in 0 .. Len(seq) - 1, F0[1 .. k] \in T
        PROVE  F0[1 .. (k + 1)] = h[<<F0[1 .. k], seq[k + 1]>>]
    <2>1. 1 .. (k + 1) \in SUBSET D /\ k \in Nat /\ seq[k + 1] \in S
      BY <1>1
    <2>2. 1 .. (k + 1) # {} /\ Max(1 .. (k + 1)) = k + 1 /\ (1 .. (k + 1)) \ {k + 1} = 1 .. k
      BY <2>1, PrefixFacts
    <2>3. F0[1 .. (k + 1)] = Retry(g, q, ep, F0[(1 .. (k + 1)) \ {Max(1 .. (k + 1))}], want, cap, pass)
      BY <1>7, <2>1, <2>2, Zenon
    <2>4. F0[1 .. (k + 1)] = Retry(g, q, ep, F0[1 .. k], want, cap, pass)
      BY <2>2, <2>3, Zenon
    <2> QED
      BY <1>2, <1>8, <2>1, <2>4
  <1>9. F0[{}] = b
    BY <1>7
  <1>10. PICK R : IsFoldRun(R, h, b, seq, T) /\ R[Len(seq)] = F0[D]
    BY <1>2, <1>8, <1>9, RunOfFold
  <1>11. ASSUME NEW k \in 1 .. Len(seq) PROVE R[k] = Retry(g, q, ep, R[k - 1], want, cap, pass)
    <2>1. R[k - 1] \in T /\ seq[k] \in S
      BY <1>1, <1>10 DEF IsFoldRun
    <2> QED
      BY <1>2, <1>10, <2>1 DEF IsFoldRun
  <1> QED
    BY <1>3, <1>10, <1>11 DEF IsFoldRun, IsRetryAllRun

LEMMA RetryAllStays ==
    ASSUME NEW g, NEW q, NEW ep, NEW want, NEW cap, NEW pass, NEW S, NEW T, NEW b \in T, NEW seq \in Seq(S),
           \A t \in T, c \in S : Retry(g, q, ep, t, want, cap, pass) \in T
    PROVE  RetryAll(g, q, ep, b, want, cap, pass, seq) \in T
  <1>1. PICK R : IsRetryAllRun(R, g, q, ep, want, cap, pass, b, seq, T)
    BY RetryAllRun
  <1>2. Len(seq) \in 0 .. Len(seq)
    OBVIOUS
  <1> QED
    BY <1>1, <1>2 DEF IsRetryAllRun


IsFurtherAllRun(R, b, seq, T) ==
    /\ R \in [0 .. Len(seq) -> T]
    /\ R[0] = b /\ R[Len(seq)] = FurtherAll(b, seq)
    /\ \A k \in 1 .. Len(seq) : R[k] = Further(R[k - 1])

LEMMA FurtherAllRun ==
    ASSUME NEW S, NEW T, NEW b \in T, NEW seq \in Seq(S),
           \A t \in T, c \in S : Further(t) \in T
    PROVE  \E R : IsFurtherAllRun(R, b, seq, T)
  <1> DEFINE D == DOMAIN seq
             h == [x \in T \X S |-> Further(x[1])]
             Unfolded(F) == [s \in SUBSET D |-> IF s = {} THEN b
                               ELSE Further(F[s \ {Max(s)}])]
             F0 == CHOOSE F : F = Unfolded(F)
  <1>1. Len(seq) \in Nat /\ D = 1 .. Len(seq) /\ \A i \in 1 .. Len(seq) : seq[i] \in S
    OBVIOUS
  <1>2. IsBody(h, S, T) /\ \A t \in T, c \in S : h[<<t, c>>] = Further(t)
    BY DEF IsBody
  <1>3. FurtherAll(b, seq) = F0[D]
    BY DEF FurtherAll, FoldLeft, MapThenFoldSet
  <1> HIDE DEF h
  <1>4. ASSUME NEW F, IsFold(F, seq, T) PROVE FoldStep(h, b, seq, F) = Unfolded(F)
    <2>1. ASSUME NEW s \in SUBSET D, s # {} PROVE F[s \ {Max(s)}] \in T /\ seq[Max(s)] \in S
      BY <1>1, <1>4, <2>1, LastOf DEF IsFold
    <2> QED
      BY <1>2, <2>1 DEF FoldStep
  <1> HIDE DEF Unfolded
  <1>5. \E F : F = Unfolded(F)
    <2>1. \E F : IsFold(F, seq, T) /\ F = FoldStep(h, b, seq, F)
      BY <1>2, FoldExists
    <2> QED
      BY <1>4, <2>1, Zenon
  <1>6. F0 = Unfolded(F0)
    BY <1>5, Zenon
  <1> HIDE DEF F0
  <1>7. \A s \in SUBSET D : F0[s] = IF s = {} THEN b ELSE Further(F0[s \ {Max(s)}])
    BY <1>6 DEF Unfolded
  <1>8. ASSUME NEW k \in 0 .. Len(seq) - 1, F0[1 .. k] \in T
        PROVE  F0[1 .. (k + 1)] = h[<<F0[1 .. k], seq[k + 1]>>]
    <2>1. 1 .. (k + 1) \in SUBSET D /\ k \in Nat /\ seq[k + 1] \in S
      BY <1>1
    <2>2. 1 .. (k + 1) # {} /\ Max(1 .. (k + 1)) = k + 1 /\ (1 .. (k + 1)) \ {k + 1} = 1 .. k
      BY <2>1, PrefixFacts
    <2>3. F0[1 .. (k + 1)] = Further(F0[(1 .. (k + 1)) \ {Max(1 .. (k + 1))}])
      BY <1>7, <2>1, <2>2, Zenon
    <2>4. F0[1 .. (k + 1)] = Further(F0[1 .. k])
      BY <2>2, <2>3, Zenon
    <2> QED
      BY <1>2, <1>8, <2>1, <2>4
  <1>9. F0[{}] = b
    BY <1>7
  <1>10. PICK R : IsFoldRun(R, h, b, seq, T) /\ R[Len(seq)] = F0[D]
    BY <1>2, <1>8, <1>9, RunOfFold
  <1>11. ASSUME NEW k \in 1 .. Len(seq) PROVE R[k] = Further(R[k - 1])
    <2>1. R[k - 1] \in T /\ seq[k] \in S
      BY <1>1, <1>10 DEF IsFoldRun
    <2> QED
      BY <1>2, <1>10, <2>1 DEF IsFoldRun
  <1> QED
    BY <1>3, <1>10, <1>11 DEF IsFoldRun, IsFurtherAllRun

-----------------------------------------------------------------------------
(* Sorting and choosing.                                                   *)

Vectors == pos \in [Node -> Coord]

LEMMA KeyType ==
    ASSUME NEW a \in Int, NEW b \in Int
    PROVE  Key(a, b) \in Int
  BY DEF Key

LEMMA NodeFacts ==
    ASSUME Vectors
    PROVE  /\ Count \in Nat /\ Node \in SUBSET Nat /\ IsFiniteSet(Node)
           /\ \A n \in Node : pos[n] \in Int
  <1>1. Count \in Nat /\ Coord \in SUBSET Int
    BY HnswAssumption
  <1>2. IsFiniteSet(0 .. Count - 1)
    BY <1>1, FS_Interval
  <1>3. \A n \in Node : pos[n] \in Int
    BY <1>1 DEF Vectors
  <1>4. 0 .. Count - 1 \in SUBSET Nat
    BY <1>1
  <1> QED
    BY <1>1, <1>2, <1>3, <1>4 DEF Node

NearerPairs(q, S) == {p \in S \X S : Nearer(q, p[1], p[2])}

(* The order of Kf is strict and total, whatever the keys.                 *)
LEMMA NearerIsOrder ==
    ASSUME Vectors, NEW q \in Int, NEW S \in SUBSET Node
    PROVE  IsOrder(NearerPairs(q, S), S)
  <1> DEFINE K(a) == Key(q, pos[a])
  <1>1. \A a \in S : K(a) \in Int /\ a \in Nat
    BY NodeFacts, KeyType
  <1>2. \A a, b \in S : <<a, b>> \in NearerPairs(q, S) <=> K(a) < K(b) \/ (K(a) = K(b) /\ a < b)
    BY DEF NearerPairs, Nearer
  <1> HIDE DEF K
  <1>3. \A a \in S : <<a, a>> \notin NearerPairs(q, S)
    BY <1>1, <1>2
  <1>4. \A a, b \in S : a # b => <<a, b>> \in NearerPairs(q, S) \/ <<b, a>> \in NearerPairs(q, S)
    BY <1>1, <1>2
  <1>5. ASSUME NEW a \in S, NEW b \in S, NEW c \in S,
               <<a, b>> \in NearerPairs(q, S), <<b, c>> \in NearerPairs(q, S)
        PROVE  <<a, c>> \in NearerPairs(q, S)
    BY <1>1, <1>2, <1>5
  <1> QED
    BY <1>3, <1>4, <1>5 DEF IsOrder

LEMMA SortedLists ==
    ASSUME Vectors, NEW q \in Int, NEW S \in SUBSET Node
    PROVE  IsListing(Sorted(q, S), S, NearerPairs(q, S))
  <1> DEFINE Places == InOrder(S, NearerPairs(q, S))
  <1>1. IsFiniteSet(S)
    BY NodeFacts, FS_Subset
  <1>2. IsListing(Places, S, NearerPairs(q, S))
    BY <1>1, NearerIsOrder, InOrderLists
  <1>3. Sorted(q, S) = Places
    <2>1. \A x \in S : {y \in S : Nearer(q, y, x)} = Below(S, NearerPairs(q, S), x)
      BY DEF Below, NearerPairs
    <2>2. Places = [k \in 1 .. Cardinality(S) |-> Places[k]]
      BY DEF InOrder
    <2>3. ASSUME NEW k \in 1 .. Cardinality(S)
          PROVE  Places[k] = CHOOSE x \in S : Cardinality({y \in S : Nearer(q, y, x)}) = k - 1
      <3>1. Places[k] = CHOOSE x \in S : Cardinality(Below(S, NearerPairs(q, S), x)) = k - 1
        BY DEF InOrder
      <3> HIDE DEF Places
      <3> QED
        BY <2>1, <3>1
    <2> HIDE DEF Places
    <2>4. Sorted(q, S) = [k \in 1 .. Cardinality(S) |-> Places[k]]
      BY <2>3, Zenon DEF Sorted, Listed
    <2> QED
      BY <2>2, <2>4
  <1> QED
    BY <1>2, <1>3

(* What is used of a list: it has each element of a set once. *)
Lists(L, S) == L \in Seq(S) /\ ToSet(L) = S /\ IsInjective(L)

(* A sorted set has each of its elements once.                             *)
LEMMA SortedIsList ==
    ASSUME Vectors, NEW q \in Int, NEW S \in SUBSET Node
    PROVE  Lists(Sorted(q, S), S) /\ Len(Sorted(q, S)) = Cardinality(S)
  <1> DEFINE L == Sorted(q, S)
  <1>1. IsListing(L, S, NearerPairs(q, S)) /\ IsOrder(NearerPairs(q, S), S)
    BY SortedLists, NearerIsOrder
  <1> HIDE DEF L
  <1>2. /\ L \in Seq(S) /\ Len(L) = Cardinality(S) /\ DOMAIN L = 1 .. Cardinality(S)
        /\ \A i, j \in 1 .. Cardinality(S) : L[i] = L[j] => i = j
    BY <1>1, ListingFacts
  <1>3. \A x \in S : \E k \in DOMAIN L : L[k] = x
    BY <1>1, <1>2 DEF IsListing
  <1>4. ToSet(L) = S
    BY <1>2, <1>3 DEF ToSet
  <1> QED
    BY <1>2, <1>4 DEF Lists, IsInjective, L

(* sort_by permutes. *)
LEMMA ByDistanceFacts ==
    ASSUME Vectors, NEW n \in Node, NEW pool \in Seq(Node)
    PROVE  /\ ByDistance(n, pool) \in Seq(Node)
           /\ Len(ByDistance(n, pool)) = Len(pool)
           /\ ToSet(ByDistance(n, pool)) = ToSet(pool)
           /\ IsInjective(pool) => IsInjective(ByDistance(n, pool))
  <1> DEFINE K(i) == Key(pos[n], pos[pool[i]])
             S == DOMAIN pool
             Before(i, j) == K(i) < K(j) \/ (K(i) = K(j) /\ i < j)
             R == {p \in S \X S : Before(p[1], p[2])}
             Places == InOrder(S, R)
             order == Listed(S, LAMBDA i, j : K(i) < K(j) \/ (K(i) = K(j) /\ i < j))
  <1>1. Len(pool) \in Nat /\ S = 1 .. Len(pool) /\ \A i \in S : pool[i] \in Node
    OBVIOUS
  <1>2. IsFiniteSet(S) /\ Cardinality(S) = Len(pool)
    BY <1>1, FS_Interval
  <1>3. \A i \in S : K(i) \in Int /\ i \in Nat
    <2> TAKE i \in S
    <2>1. pos[n] \in Int /\ pos[pool[i]] \in Int
      BY <1>1, NodeFacts
    <2>2. Key(pos[n], pos[pool[i]]) \in Int
      BY <2>1, KeyType
    <2> QED
      BY <1>1, <2>2
  <1>4. IsOrder(R, S)
    <2>1. \A i, j \in S : <<i, j>> \in R <=> K(i) < K(j) \/ (K(i) = K(j) /\ i < j)
      OBVIOUS
    <2> HIDE DEF K, R, S
    <2>2. \A i \in S : <<i, i>> \notin R
      BY <1>3, <2>1
    <2>3. \A i, j \in S : i # j => <<i, j>> \in R \/ <<j, i>> \in R
      BY <1>3, <2>1
    <2>4. \A i, j, k \in S : <<i, j>> \in R /\ <<j, k>> \in R => <<i, k>> \in R
      BY <1>3, <2>1
    <2> QED
      BY <2>2, <2>3, <2>4 DEF IsOrder
  <1>5. order = Places
    <2>1. \A x \in S : {y \in S : Before(y, x)} = Below(S, R, x)
      BY DEF Below
    <2>2. Places = [k \in 1 .. Cardinality(S) |-> Places[k]]
      <3> HIDE DEF R
      <3> QED
        BY DEF InOrder
    <2>3. ASSUME NEW k \in 1 .. Cardinality(S)
          PROVE  Places[k] = CHOOSE x \in S : Cardinality({y \in S : Before(y, x)}) = k - 1
      <3>1. Places[k] = CHOOSE x \in S : Cardinality(Below(S, R, x)) = k - 1
        BY DEF InOrder
      <3> HIDE DEF Places, R
      <3> QED
        BY <2>1, <3>1
    <2> HIDE DEF Places, R
    <2>4. order = [k \in 1 .. Cardinality(S) |-> Places[k]]
      BY <2>3, Zenon DEF Listed
    <2> QED
      BY <2>2, <2>4
  <1>6. ByDistance(n, pool) = [i \in S |-> pool[order[i]]]
    BY Zenon DEF ByDistance
  <1> HIDE DEF K, R, Places, order
  <1>7. IsListing(order, S, R)
    BY <1>2, <1>4, <1>5, InOrderLists DEF Places
  <1>8. /\ order \in [S -> S]
        /\ \A x \in S : \E k \in S : order[k] = x
        /\ \A i, j \in S : order[i] = order[j] => i = j
    <2>1. 1 .. Cardinality(S) = S
      BY <1>1, <1>2
    <2> QED
      BY <1>4, <1>7, <2>1, ListingFacts DEF IsListing
  <1> DEFINE L == ByDistance(n, pool)
  <1>9. DOMAIN L = S /\ \A i \in S : L[i] = pool[order[i]] /\ order[i] \in S
    BY <1>6, <1>8
  <1> HIDE DEF L, S
  <1>10. L \in Seq(Node) /\ Len(L) = Len(pool)
    <2>1. L = [i \in 1 .. Len(pool) |-> pool[order[i]]]
      BY <1>1, <1>6 DEF L
    <2> QED
      BY <1>1, <1>9, <2>1
  <1>11. ToSet(L) = ToSet(pool)
    <2>1. \A i \in S : L[i] \in {pool[k] : k \in S}
      BY <1>9
    <2>2. \A k \in S : pool[k] \in {L[i] : i \in S}
      BY <1>8, <1>9
    <2> QED
      BY <1>9, <2>1, <2>2 DEF ToSet, S
  <1>12. IsInjective(pool) => IsInjective(L)
    BY <1>8, <1>9 DEF IsInjective, S
  <1> QED
    BY <1>10, <1>11, <1>12 DEF L

Selection(S, m) == {s \in [sel : Seq(S), discarded : Seq(S)] : Len(s.sel) <= m}
NothingChosen == [sel |-> <<>>, discarded |-> <<>>]

LEMMA ChooseType ==
    ASSUME NEW S, NEW q, NEW m \in Nat, NEW s \in Selection(S, m), NEW c \in S
    PROVE  Choose(q, s, c, m) \in Selection(S, m)
  <1>1. /\ s \in [sel : Seq(S), discarded : Seq(S)] /\ Len(s.sel) <= m /\ Len(s.sel) \in Nat
        /\ s.sel \in Seq(S) /\ s.discarded \in Seq(S)
    BY DEF Selection
  <1>2. /\ Append(s.sel, c) \in Seq(S) /\ Len(Append(s.sel, c)) = Len(s.sel) + 1
        /\ Append(s.discarded, c) \in Seq(S)
    BY <1>1
  <1>3. [s EXCEPT !.discarded = Append(@, c)] \in Selection(S, m)
    BY <1>1, <1>2 DEF Selection
  <1>4. Len(s.sel) # m => [s EXCEPT !.sel = Append(@, c)] \in Selection(S, m)
    <2>1. Len(s.sel) # m => Len(Append(s.sel, c)) <= m
      BY <1>1, <1>2
    <2>2. /\ [s EXCEPT !.sel = Append(@, c)] \in [sel : Seq(S), discarded : Seq(S)]
          /\ [s EXCEPT !.sel = Append(@, c)].sel = Append(s.sel, c)
      BY <1>1, <1>2
    <2> QED
      BY <2>1, <2>2 DEF Selection
  <1> QED
    BY <1>3, <1>4 DEF Choose

(* Room for those that fill the selection up. *)
LEMMA RoomFacts ==
    ASSUME NEW S, NEW m \in Nat, NEW s \in Selection(S, m)
    PROVE  LET room == Min({m - Len(s.sel), Len(s.discarded)})
           IN  room \in Nat /\ room <= m - Len(s.sel) /\ room <= Len(s.discarded)
  <1> DEFINE a == m - Len(s.sel)
             d == Len(s.discarded)
  <1>1. a \in Nat /\ d \in Nat
    BY DEF Selection
  <1> HIDE DEF a, d
  <1>2. \E x \in {a, d} : \A y \in {a, d} : x <= y
    BY <1>1
  <1>3. Min({a, d}) \in {a, d} /\ \A y \in {a, d} : Min({a, d}) <= y
    BY <1>2 DEF Min
  <1> QED
    BY <1>1, <1>3 DEF a, d

LEMMA SelectionType ==
    ASSUME NEW S, NEW q, NEW m \in Nat, NEW cands \in Seq(S)
    PROVE  Chosen(q, cands, m) \in Selection(S, m)
  <1>1. NothingChosen \in Selection(S, m)
    BY DEF Selection, NothingChosen
  <1>2. \A s \in Selection(S, m), c \in S : Choose(q, s, c, m) \in Selection(S, m)
    BY ChooseType
  <1>3. PICK R : IsChooseAllRun(R, q, m, NothingChosen, cands, Selection(S, m))
    BY <1>1, <1>2, ChooseAllRun
  <1>4. Len(cands) \in 0 .. Len(cands)
    OBVIOUS
  <1>5. Chosen(q, cands, m) = ChooseAll(q, NothingChosen, cands, m)
    BY DEF Chosen, ChooseAll, NothingChosen
  <1> QED
    BY <1>3, <1>4, <1>5 DEF IsChooseAllRun

(* select_heuristic returns at most m of the candidates, ...               *)
LEMMA SelectType ==
    ASSUME NEW S, NEW q, NEW m \in Nat, NEW cands \in Seq(S)
    PROVE  /\ SelectHeuristic(q, cands, m) \in Seq(S)
           /\ Len(SelectHeuristic(q, cands, m)) <= m
  <1> DEFINE s == Chosen(q, cands, m)
             room == Min({m - Len(s.sel), Len(s.discarded)})
  <1>1. s \in Selection(S, m)
    BY SelectionType
  <1>2. room \in Nat /\ room <= m - Len(s.sel) /\ room <= Len(s.discarded)
    BY <1>1, RoomFacts
  <1>3. SelectHeuristic(q, cands, m) = IF Len(cands) <= m THEN cands ELSE s.sel \o SubSeq(s.discarded, 1, room)
    BY DEF SelectHeuristic
  <1> HIDE DEF room, s
  <1>4. s.sel \in Seq(S) /\ s.discarded \in Seq(S) /\ Len(s.sel) <= m
    BY <1>1 DEF Selection
  <1>5. /\ SubSeq(s.discarded, 1, room) \in Seq(S)
        /\ Len(SubSeq(s.discarded, 1, room)) = room
    <2>1. \A i \in 1 .. room : s.discarded[i] \in S
      BY <1>2, <1>4
    <2> QED
      BY <1>2, <2>1, SubSeqProperties
  <1> DEFINE rest == SubSeq(s.discarded, 1, room)
  <1> HIDE DEF rest
  <1>6. s.sel \o rest \in Seq(S) /\ Len(s.sel \o rest) = Len(s.sel) + Len(rest)
    BY <1>4, <1>5, ConcatProperties DEF rest
  <1>7. Len(s.sel) \in Nat /\ Len(s.sel) + room <= m
    BY <1>2, <1>4
  <1> QED
    BY <1>3, <1>5, <1>6, <1>7 DEF rest

(* Each candidate goes to one place at most. *)
Apart(s) == /\ IsInjective(s.sel) /\ IsInjective(s.discarded)
            /\ \A i \in DOMAIN s.sel, j \in DOMAIN s.discarded : s.sel[i] # s.discarded[j]

Among(s, cands, k) ==
    /\ \A i \in DOMAIN s.sel : \E j \in 1 .. k : s.sel[i] = cands[j]
    /\ \A i \in DOMAIN s.discarded : \E j \in 1 .. k : s.discarded[i] = cands[j]

(* A list stays without duplicates when what is appended is not in it.     *)
LEMMA AppendedOnce ==
    ASSUME NEW S, NEW L \in Seq(S), NEW c \in S, IsInjective(L), \A i \in DOMAIN L : L[i] # c
    PROVE  IsInjective(Append(L, c))
  <1>1. /\ DOMAIN Append(L, c) = 1 .. Len(L) + 1 /\ DOMAIN L = 1 .. Len(L) /\ Len(L) \in Nat
        /\ \A i \in 1 .. Len(L) : Append(L, c)[i] = L[i]
        /\ Append(L, c)[Len(L) + 1] = c
    OBVIOUS
  <1>2. ASSUME NEW i \in 1 .. Len(L) + 1, NEW j \in 1 .. Len(L) + 1, Append(L, c)[i] = Append(L, c)[j]
        PROVE  i = j
    <2>1. (i \in 1 .. Len(L) \/ i = Len(L) + 1) /\ (j \in 1 .. Len(L) \/ j = Len(L) + 1)
      BY <1>1
    <2>2. \A x, y \in 1 .. Len(L) : L[x] = L[y] => x = y
      BY <1>1 DEF IsInjective
    <2>3. \A x \in 1 .. Len(L) : L[x] # c
      BY <1>1
    <2> HIDE DEF IsInjective
    <2> QED
      BY <1>1, <1>2, <2>1, <2>2, <2>3
  <1> QED
    BY <1>1, <1>2 DEF IsInjective

(* What is selected and what is discarded have nothing in common, and none *)
(* of them is yet to come.                                                 *)
LEMMA ChooseApart ==
    ASSUME NEW S, NEW q, NEW m \in Nat, NEW cands \in Seq(S), IsInjective(cands),
           NEW k \in 1 .. Len(cands), NEW s \in Selection(S, m), Apart(s), Among(s, cands, k - 1)
    PROVE  Apart(Choose(q, s, cands[k], m)) /\ Among(Choose(q, s, cands[k], m), cands, k)
  <1> DEFINE c == cands[k]
  <1>1. c \in S /\ s.sel \in Seq(S) /\ s.discarded \in Seq(S) /\ k \in 1 .. k
        /\ \A j \in 1 .. k - 1 : j \in 1 .. k /\ cands[j] # c
    BY DEF Selection, IsInjective
  <1>2. /\ \A i \in DOMAIN s.sel : s.sel[i] # c
        /\ \A i \in DOMAIN s.discarded : s.discarded[i] # c
    BY <1>1 DEF Among
  <1>3. Among(s, cands, k)
    BY <1>1 DEF Among
  <1>4. ASSUME NEW L \in Seq(S)
        PROVE  /\ DOMAIN Append(L, c) = 1 .. Len(L) + 1 /\ DOMAIN L = 1 .. Len(L)
               /\ \A i \in DOMAIN Append(L, c) : (i \in DOMAIN L /\ Append(L, c)[i] = L[i]) \/ Append(L, c)[i] = c
    BY <1>1
  <1> HIDE DEF c
  <1>5. ASSUME NEW t, t = [s EXCEPT !.sel = Append(@, c)] PROVE Apart(t) /\ Among(t, cands, k)
    <2>1. t.sel = Append(s.sel, c) /\ t.discarded = s.discarded
      BY <1>5 DEF Selection
    <2>2. IsInjective(t.sel)
      BY <1>1, <1>2, <2>1, AppendedOnce DEF Apart
    <2>3. \A i \in DOMAIN t.sel : (i \in DOMAIN s.sel /\ t.sel[i] = s.sel[i]) \/ t.sel[i] = c
      BY <1>1, <1>4, <2>1
    <2>4. Apart(t)
      BY <1>2, <2>1, <2>2, <2>3 DEF Apart
    <2>5. Among(t, cands, k)
      BY <1>1, <1>3, <2>1, <2>3 DEF Among, c
    <2> QED
      BY <2>4, <2>5
  <1>6. ASSUME NEW t, t = [s EXCEPT !.discarded = Append(@, c)] PROVE Apart(t) /\ Among(t, cands, k)
    <2>1. t.discarded = Append(s.discarded, c) /\ t.sel = s.sel
      BY <1>6 DEF Selection
    <2>2. IsInjective(t.discarded)
      BY <1>1, <1>2, <2>1, AppendedOnce DEF Apart
    <2>3. \A i \in DOMAIN t.discarded : (i \in DOMAIN s.discarded /\ t.discarded[i] = s.discarded[i]) \/ t.discarded[i] = c
      BY <1>1, <1>4, <2>1
    <2>4. Apart(t)
      BY <1>2, <2>1, <2>2, <2>3 DEF Apart
    <2>5. Among(t, cands, k)
      BY <1>1, <1>3, <2>1, <2>3 DEF Among, c
    <2> QED
      BY <2>4, <2>5
  <1>7. Choose(q, s, c, m) \in {s, [s EXCEPT !.sel = Append(@, c)], [s EXCEPT !.discarded = Append(@, c)]}
    BY DEF Choose
  <1> QED
    BY <1>3, <1>5, <1>6, <1>7 DEF c

(* ... each once, since the candidates are different.                      *)
LEMMA SelectInjective ==
    ASSUME NEW S, NEW q, NEW m \in Nat, NEW cands \in Seq(S), IsInjective(cands)
    PROVE  IsInjective(SelectHeuristic(q, cands, m))
  <1> DEFINE s == Chosen(q, cands, m)
             room == Min({m - Len(s.sel), Len(s.discarded)})
  <1>1. NothingChosen \in Selection(S, m) /\ Apart(NothingChosen) /\ Among(NothingChosen, cands, 0)
    BY DEF Selection, NothingChosen, Apart, Among, IsInjective
  <1>2. PICK R : IsChooseAllRun(R, q, m, NothingChosen, cands, Selection(S, m))
    <2>1. \A s0 \in Selection(S, m), c \in S : Choose(q, s0, c, m) \in Selection(S, m)
      BY ChooseType
    <2> QED
      BY <1>1, <2>1, ChooseAllRun
  <1> DEFINE Good == {k \in 0 .. Len(cands) : Apart(R[k]) /\ Among(R[k], cands, k)}
  <1>3. Len(cands) \in Nat
    OBVIOUS
  <1>4. 0 \in Good
    BY <1>1, <1>2, <1>3 DEF IsChooseAllRun
  <1>5. ASSUME NEW k \in 0 .. Len(cands) - 1, k \in Good PROVE k + 1 \in Good
    <2>1. /\ k + 1 \in 1 .. Len(cands) /\ (k + 1) - 1 = k /\ k + 1 \in 0 .. Len(cands) /\ k \in 0 .. Len(cands)
          /\ R[k] \in Selection(S, m)
      BY <1>2, <1>3 DEF IsChooseAllRun
    <2>2. R[k + 1] = Choose(q, R[k], cands[k + 1], m)
      BY <1>2, <2>1 DEF IsChooseAllRun
    <2> QED
      BY <1>5, <2>1, <2>2, ChooseApart
  <1>6. Len(cands) \in Good => Apart(s)
    BY <1>2 DEF IsChooseAllRun, Chosen, ChooseAll, NothingChosen
  <1> HIDE DEF Good
  <1>7. Apart(s)
    <2>1. \A k \in 0 .. Len(cands) : k \in Good
      BY <1>3, <1>4, <1>5, LoopInduction
    <2> QED
      BY <1>3, <1>6, <2>1
  <1>8. s \in Selection(S, m)
    BY SelectionType
  <1>9. room \in Nat /\ room <= Len(s.discarded)
    BY <1>8, RoomFacts
  <1>10. SelectHeuristic(q, cands, m) = IF Len(cands) <= m THEN cands ELSE s.sel \o SubSeq(s.discarded, 1, room)
    BY DEF SelectHeuristic
  <1> HIDE DEF room, s
  <1> DEFINE L == s.sel \o SubSeq(s.discarded, 1, room)
  <1>11. IsInjective(L)
    <2>1. s.sel \in Seq(S) /\ s.discarded \in Seq(S)
      BY <1>8 DEF Selection
    <2> DEFINE rest == SubSeq(s.discarded, 1, room)
    <2>0. \A i \in 1 .. room : i \in DOMAIN s.discarded /\ s.discarded[i] \in S
      BY <1>9, <2>1
    <2>2. /\ rest \in Seq(S) /\ Len(rest) = room
          /\ \A i \in 1 .. room : rest[i] = s.discarded[i]
      BY <1>9, <2>0, SubSeqProperties
    <2> HIDE DEF rest
    <2>3. /\ DOMAIN L = 1 .. Len(s.sel) + room /\ DOMAIN s.sel = 1 .. Len(s.sel) /\ Len(s.sel) \in Nat
          /\ \A i \in 1 .. Len(s.sel) : L[i] = s.sel[i]
          /\ \A i \in 1 .. room : L[Len(s.sel) + i] = s.discarded[i] /\ i \in DOMAIN s.discarded
      <3> DEFINE n == Len(s.sel)
                 K == s.sel \o rest
      <3>1. n \in Nat /\ DOMAIN s.sel = 1 .. n
        BY <2>1
      <3>2. K \in Seq(S) /\ Len(K) = n + room
            /\ \A i \in 1 .. n + room : K[i] = IF i <= n THEN s.sel[i] ELSE rest[i - n]
        BY <2>1, <2>2, ConcatProperties
      <3> HIDE DEF n, K
      <3>3. DOMAIN K = 1 .. n + room
        BY <3>2
      <3>4. \A i \in 1 .. n : K[i] = s.sel[i]
        BY <1>9, <3>1, <3>2
      <3>5. ASSUME NEW i \in 1 .. room PROVE K[n + i] = s.discarded[i]
        <4>1. n + i \in 1 .. n + room /\ ~(n + i <= n) /\ (n + i) - n = i
          BY <1>9, <3>1
        <4> QED
          BY <2>2, <3>2, <4>1
      <3> QED
        BY <2>0, <3>1, <3>3, <3>4, <3>5 DEF n, K, rest
    <2>4. /\ \A i, j \in 1 .. Len(s.sel) : s.sel[i] = s.sel[j] => i = j
          /\ \A i, j \in 1 .. room : s.discarded[i] = s.discarded[j] => i = j
          /\ \A i \in 1 .. Len(s.sel), j \in 1 .. room : s.sel[i] # s.discarded[j]
      BY <1>7, <2>3 DEF Apart, IsInjective
    <2>5. \A i \in DOMAIN L : i \in 1 .. Len(s.sel) \/ \E x \in 1 .. room : i = Len(s.sel) + x
      <3> TAKE i \in DOMAIN L
      <3>0. \A n \in Nat : \A x \in 1 .. n + room :
              x \in 1 .. n \/ (x - n \in 1 .. room /\ x = n + (x - n))
        BY <1>9
      <3>1. i \in 1 .. Len(s.sel) \/ (i - Len(s.sel) \in 1 .. room /\ i = Len(s.sel) + (i - Len(s.sel)))
        BY <2>3, <3>0
      <3> QED
        BY <3>1
    <2> DEFINE n == Len(s.sel)
    <2> HIDE DEF L
    <2>6. ASSUME NEW i \in DOMAIN L, NEW j \in DOMAIN L, L[i] = L[j] PROVE i = j
      <3>1. CASE i \in 1 .. Len(s.sel) /\ j \in 1 .. Len(s.sel)
        BY <2>3, <2>4, <2>6, <3>1
      <3>2. ASSUME NEW x \in 1 .. room, NEW y \in 1 .. room, i = n + x, j = n + y PROVE i = j
        <4>1. s.discarded[x] = s.discarded[y]
          BY <2>3, <2>6, <3>2
        <4> QED
          BY <2>4, <3>2, <4>1
      <3>3. ASSUME NEW x \in 1 .. room, i = n + x, j \in 1 .. n PROVE FALSE
        BY <2>3, <2>4, <2>6, <3>3
      <3>4. ASSUME NEW x \in 1 .. room, j = n + x, i \in 1 .. n PROVE FALSE
        BY <2>3, <2>4, <2>6, <3>4
      <3> HIDE DEF n
      <3> QED
        BY <2>5, <3>1, <3>2, <3>3, <3>4 DEF n
    <2> QED
      BY <2>6 DEF IsInjective
  <1> QED
    BY <1>10, <1>11

-----------------------------------------------------------------------------
(* Searching a layer.                                                      *)

(* The links of the layer do not lead out of X. *)
Closed(g, X, level) == \A n \in X : Links(g, n, level) \in Seq(X)

(* The greedy walk stays where the links of the level lead.                *)
LEMMA WalkStays ==
    ASSUME NEW g, NEW q, NEW level, NEW X, Closed(g, X, level), NEW e \in X
    PROVE  GreedyDescend(g, q, e, level) \in X
  <1>1. ASSUME NEW t \in X PROVE WalkOn(g, q, t, level) \in X
    <2>1. \A best \in X, n \in X : Closer(q, best, n) \in X
      BY DEF Closer
    <2>2. Links(g, t, level) \in Seq(X)
      BY DEF Closed
    <2>3. WalkOn(g, q, t, level) = Nearest(q, t, Links(g, t, level))
      BY DEF WalkOn, Nearest
    <2> QED
      BY <2>1, <2>2, <2>3, NearestStays
  <1>2. Rounds \in Seq(1 .. Count)
    BY HnswAssumption DEF Rounds
  <1>3. \A t \in X, c \in 1 .. Count : WalkOn(g, q, t, level) \in X
    BY <1>1
  <1>4. Walked(g, q, e, level, Rounds) \in X
    BY <1>2, <1>3, WalkedStays
  <1> QED
    BY <1>4 DEF GreedyDescend, Walked

LEMMA NearestExists ==
    ASSUME Vectors, NEW q \in Int, NEW S \in SUBSET Node, S # {}
    PROVE  \E c \in S : \A x \in S : x = c \/ Nearer(q, c, x)
  <1> DEFINE L == Sorted(q, S)
             n == Cardinality(S)
  <1>1. IsListing(L, S, NearerPairs(q, S))
    BY SortedLists
  <1> HIDE DEF L, n
  <1>2. n \in Nat /\ L \in [1 .. n -> S] /\ \A x \in S : \E k \in 1 .. n : L[k] = x
    BY <1>1 DEF IsListing, n
  <1>3. \A i, j \in 1 .. n : i < j => <<L[i], L[j]>> \in NearerPairs(q, S)
    BY <1>1 DEF IsListing, n
  <1>4. 1 \in 1 .. n /\ L[1] \in S
    BY <1>2
  <1>5. ASSUME NEW x \in S PROVE x = L[1] \/ Nearer(q, L[1], x)
    <2>1. PICK k \in 1 .. n : L[k] = x
      BY <1>2
    <2>2. k = 1 \/ 1 < k
      OBVIOUS
    <2>3. 1 < k => <<L[1], L[k]>> \in NearerPairs(q, S)
      BY <1>3, <1>4
    <2> QED
      BY <2>1, <2>2, <2>3 DEF NearerPairs
  <1> QED
    BY <1>4, <1>5

(* A search of X that has visited V; what it visits first is a result.     *)
SearchOf(X, V) ==
    {s \in [visited : SUBSET X, cand : SUBSET X, res : SUBSET X] :
       V \subseteq s.visited /\ (s.visited # {} => s.res # {})}

LEMMA PushFacts ==
    ASSUME Vectors, NEW X \in SUBSET Node, NEW res \in SUBSET X, NEW q, NEW n \in X, NEW ef \in Nat \ {0}
    PROVE  PushResult(q, res, n, ef) \in SUBSET X /\ PushResult(q, res, n, ef) # {}
  <1>1. IsFiniteSet(res) /\ Cardinality(res) \in Nat /\ (res = {} <=> Cardinality(res) = 0)
    BY NodeFacts, FS_Subset, FS_CardinalityType, FS_EmptySet
  <1>2. ~(Cardinality(res) < ef) => res # {}
    BY <1>1
  <1> QED
    BY <1>2 DEF PushResult

LEMMA VisitType ==
    ASSUME Vectors, NEW X \in SUBSET Node, NEW V, NEW s \in SearchOf(X, V), NEW q, NEW n \in X,
           NEW ef \in Nat \ {0}
    PROVE  /\ Visit(q, s, n, ef, Node) \in SearchOf(X, V)
           /\ n \in Visit(q, s, n, ef, Node).visited
           /\ VisitNeighbour(q, s, n, ef, Node) \in SearchOf(X, V)
  <1>1. /\ s \in [visited : SUBSET X, cand : SUBSET X, res : SUBSET X]
        /\ V \subseteq s.visited /\ (s.visited # {} => s.res # {})
    BY DEF SearchOf
  <1>2. Offered(q, s.res, n, ef, Node) \in SUBSET X /\ Offered(q, s.res, n, ef, Node) # {}
    <2>1. n \in Node /\ s.res \in SUBSET X
      BY <1>1
    <2>2. PushResult(q, s.res, n, ef) \in SUBSET X /\ PushResult(q, s.res, n, ef) # {}
      BY <2>1, PushFacts
    <2> QED
      BY <2>1, <2>2 DEF Offered
  <1> DEFINE r == Offered(q, s.res, n, ef, Node)
  <1> HIDE DEF r
  <1>3. Visit(q, s, n, ef, Node) \in SearchOf(X, V) /\ n \in Visit(q, s, n, ef, Node).visited
    <2>1. Visit(q, s, n, ef, Node) =
            IF n \in s.visited THEN s
            ELSE [visited |-> s.visited \cup {n}, cand |-> s.cand \cup {n}, res |-> r]
      BY Zenon DEF Visit, r
    <2>2. [visited |-> s.visited \cup {n}, cand |-> s.cand \cup {n}, res |-> r] \in SearchOf(X, V)
      BY <1>1, <1>2 DEF SearchOf, r
    <2> QED
      BY <2>1, <2>2
  <1>4. Cardinality(s.res) = ef => [s EXCEPT !.visited = @ \cup {n}] \in SearchOf(X, V)
    <2>1. Cardinality(s.res) = ef => s.res # {}
      BY FS_EmptySet
    <2>2. /\ [s EXCEPT !.visited = @ \cup {n}] \in [visited : SUBSET X, cand : SUBSET X, res : SUBSET X]
          /\ [s EXCEPT !.visited = @ \cup {n}].visited = s.visited \cup {n}
          /\ [s EXCEPT !.visited = @ \cup {n}].res = s.res
      BY <1>1
    <2> QED
      BY <1>1, <2>1, <2>2 DEF SearchOf
  <1> QED
    BY <1>3, <1>4 DEF VisitNeighbour

(* A round of the search stays in X, and has a result as soon as one node  *)
(* was visited.                                                            *)
LEMMA ExpandType ==
    ASSUME Vectors, NEW X \in SUBSET Node, NEW V, NEW s \in SearchOf(X, V), NEW q \in Int,
           NEW ef \in Nat \ {0}, NEW g, NEW level, Closed(g, X, level)
    PROVE  Expand(g, q, s, ef, level, Node) \in SearchOf(X, V)
  <1> DEFINE n == CHOOSE c \in s.cand : \A x \in s.cand : x = c \/ Nearer(q, c, x)
             b == [s EXCEPT !.cand = @ \ {n}]
  <1>1. /\ s \in [visited : SUBSET X, cand : SUBSET X, res : SUBSET X]
        /\ V \subseteq s.visited /\ (s.visited # {} => s.res # {})
    BY DEF SearchOf
  <1>2. s.cand # {} => n \in X
    <2>1. s.cand \in SUBSET Node /\ s.cand \in SUBSET X
      BY <1>1
    <2>2. s.cand # {} => \E c \in s.cand : \A x \in s.cand : x = c \/ Nearer(q, c, x)
      BY <2>1, NearestExists
    <2>3. s.cand # {} => n \in s.cand
      BY <2>2, Zenon
    <2> QED
      BY <2>1, <2>3
  <1> HIDE DEF n
  <1>3. b \in SearchOf(X, V)
    <2>1. b \in [visited : SUBSET X, cand : SUBSET X, res : SUBSET X] /\ b.visited = s.visited /\ b.res = s.res
      BY <1>1
    <2> QED
      BY <1>1, <2>1 DEF SearchOf
  <1>4. \A t \in SearchOf(X, V), x \in X : VisitNeighbour(q, t, x, ef, Node) \in SearchOf(X, V)
    BY VisitType
  <1> HIDE DEF b
  <1>5. s.cand # {} => VisitAll(q, b, Links(g, n, level), ef, Node) \in SearchOf(X, V)
    <2>1. s.cand # {} => Links(g, n, level) \in Seq(X)
      BY <1>2 DEF Closed
    <2> QED
      BY <1>3, <1>4, <2>1, VisitAllStays
  <1>6. \/ Expand(g, q, s, ef, level, Node) = s
        \/ s.cand # {} /\ Expand(g, q, s, ef, level, Node) = VisitAll(q, b, Links(g, n, level), ef, Node)
    BY Zenon DEF Expand, VisitAll, n, b
  <1> QED
    BY <1>5, <1>6

(* search_layer returns nodes of X, each once, and at least one.           *)
LEMMA SearchLayerFacts ==
    ASSUME Vectors, NEW X \in SUBSET Node, NEW g, NEW level, Closed(g, X, level), NEW q \in Int,
           NEW eps \in Seq(X), eps # <<>>, NEW ef \in Nat \ {0}
    PROVE  LET L == SearchLayer(g, q, eps, ef, level, Node)
           IN  L \in Seq(X) /\ IsInjective(L) /\ L # <<>>
  <1> DEFINE b0 == [visited |-> {}, cand |-> {}, res |-> {}]
             last == eps[Len(eps)]
             b == Begun(q, eps, ef, Node)
             s == Searched(g, q, eps, ef, level, Node)
  <1>0. Len(eps) \in Nat \ {0} /\ Len(eps) \in 1 .. Len(eps) /\ last \in X
    OBVIOUS
  <1>1. b0 \in SearchOf(X, {})
    BY DEF SearchOf
  <1>2. \A t \in SearchOf(X, {}), n \in X : Visit(q, t, n, ef, Node) \in SearchOf(X, {})
    BY VisitType
  <1> HIDE DEF b0
  <1>3. PICK R : IsVisitFirstRun(R, q, ef, Node, b0, eps, SearchOf(X, {}))
    BY <1>1, <1>2, VisitFirstRun
  <1>4. b = R[Len(eps)]
    BY <1>3 DEF IsVisitFirstRun, Begun, VisitFirst, b0
  <1>5. b \in SearchOf(X, {last})
    <2>1. R[Len(eps) - 1] \in SearchOf(X, {}) /\ R[Len(eps)] = Visit(q, R[Len(eps) - 1], last, ef, Node)
      BY <1>0, <1>3 DEF IsVisitFirstRun
    <2> DEFINE t == R[Len(eps) - 1]
    <2> HIDE DEF t, last
    <2>2. Visit(q, t, last, ef, Node) \in SearchOf(X, {}) /\ last \in Visit(q, t, last, ef, Node).visited
      BY <1>0, <2>1, VisitType DEF t
    <2> QED
      BY <1>4, <2>1, <2>2 DEF SearchOf, t
  <1> HIDE DEF last, b
  <1>6. s = ExpandAll(g, q, b, ef, level, Node, Rounds)
    BY DEF Searched, ExpandAll, b
  <1>7. Rounds \in Seq(1 .. Count)
    BY HnswAssumption DEF Rounds
  <1>8. \A t \in SearchOf(X, {last}), round \in 1 .. Count :
          Expand(g, q, t, ef, level, Node) \in SearchOf(X, {last})
    BY ExpandType
  <1>9. s \in SearchOf(X, {last})
    <2> DEFINE T == SearchOf(X, {last})
               rounds == 1 .. Count
    <2>1. \A t \in T, round \in rounds : Expand(g, q, t, ef, level, Node) \in T
      BY <1>8
    <2>2. b \in T /\ Rounds \in Seq(rounds)
      BY <1>5, <1>7
    <2> HIDE DEF T, rounds
    <2>3. ExpandAll(g, q, b, ef, level, Node, Rounds) \in T
      BY <2>1, <2>2, ExpandAllStays
    <2> QED
      BY <1>6, <2>3 DEF T
  <1> HIDE DEF s
  <1>10. s.res \in SUBSET X /\ s.res # {} /\ s.res \in SUBSET Node
    BY <1>9 DEF SearchOf
  <1>11. SearchLayer(g, q, eps, ef, level, Node) = Sorted(q, s.res)
    BY DEF SearchLayer, s
  <1>12. Lists(Sorted(q, s.res), s.res)
    BY <1>10, SortedIsList
  <1> DEFINE L == Sorted(q, s.res)
  <1> HIDE DEF L
  <1>13. L \in Seq(X) /\ IsInjective(L) /\ L # <<>>
    <2>1. L \in Seq(s.res) /\ ToSet(L) = s.res /\ IsInjective(L)
      BY <1>12 DEF Lists, L
    <2>2. L \in Seq(X)
      BY <1>10, <2>1
    <2>3. L # <<>>
      BY <1>10, <2>1 DEF ToSet
    <2> QED
      BY <2>1, <2>2, <2>3
  <1> QED
    BY <1>11, <1>13 DEF L

-----------------------------------------------------------------------------
(* The links of a graph.                                                   *)

Level == 0 .. MaxLevel

Graphs ==
    [inserted : 0 .. Count, entry : Node \cup {EMPTY}, maxLevel : -1 .. MaxLevel,
     levels : [Node -> Level], layer0 : [Node -> Seq(Node)], upper : [Node -> Seq(Seq(Node))]]

(* All but the links. *)
SameHeader(g, h) ==
    /\ h.inserted = g.inserted /\ h.entry = g.entry
    /\ h.maxLevel = g.maxLevel /\ h.levels = g.levels

LEMMA MaxOfTwo ==
    ASSUME NEW a \in Int, NEW b \in Int
    PROVE  Max({a, b}) = IF a >= b THEN a ELSE b
  <1>1. \E x \in {a, b} : \A y \in {a, b} : x >= y
    OBVIOUS
  <1>2. Max({a, b}) \in {a, b} /\ \A y \in {a, b} : Max({a, b}) >= y
    BY <1>1 DEF Max
  <1> QED
    BY <1>2

LEMMA MinOfTwo ==
    ASSUME NEW a \in Int, NEW b \in Int
    PROVE  Min({a, b}) = IF a <= b THEN a ELSE b
  <1>1. \E x \in {a, b} : \A y \in {a, b} : x <= y
    OBVIOUS
  <1>2. Min({a, b}) \in {a, b} /\ \A y \in {a, b} : Min({a, b}) <= y
    BY <1>1 DEF Min
  <1> QED
    BY <1>2

LEMMA ConstantFacts ==
    /\ Count \in Nat /\ MaxLevel \in Nat /\ Level \in SUBSET Nat
    /\ \A level : MaxLinks(level) \in Nat \ {0}
    /\ Max({EfConstruct, 1}) \in Nat \ {0}
  <1>1. /\ Count \in Nat /\ MaxLevel \in Nat /\ EfConstruct \in Nat
        /\ M \in Nat \ {0} /\ M0 \in Nat \ {0}
    BY HnswAssumption
  <1>2. Max({EfConstruct, 1}) \in Nat \ {0}
    BY <1>1, MaxOfTwo
  <1>3. \A level : MaxLinks(level) \in Nat \ {0}
    BY <1>1 DEF MaxLinks
  <1> QED
    BY <1>1, <1>2, <1>3 DEF Level

(* Resized adds empty layers, and takes none away.                         *)
LEMMA ResizedFacts ==
    ASSUME NEW S, NEW layers \in Seq(Seq(S)), NEW level \in Nat
    PROVE  /\ Resized(layers, level) \in Seq(Seq(S))
           /\ Len(Resized(layers, level)) = IF level > Len(layers) THEN level ELSE Len(layers)
           /\ \A i \in 1 .. Len(Resized(layers, level)) :
                Resized(layers, level)[i] = IF i <= Len(layers) THEN layers[i] ELSE <<>>
  <1> DEFINE extra == Max({0, level - Len(layers)})
             e == [i \in 1 .. extra |-> <<>>]
  <1>1. Len(layers) \in Nat
    OBVIOUS
  <1>2. extra = IF level > Len(layers) THEN level - Len(layers) ELSE 0
    BY <1>1, MaxOfTwo
  <1>3. extra \in Nat
    BY <1>1, <1>2
  <1> HIDE DEF extra
  <1>4. e \in Seq(Seq(S)) /\ Len(e) = extra /\ \A i \in 1 .. extra : e[i] = <<>>
    <2>1. <<>> \in Seq(S)
      OBVIOUS
    <2> QED
      BY <1>3, <2>1
  <1> HIDE DEF e
  <1>5. /\ layers \o e \in Seq(Seq(S)) /\ Len(layers \o e) = Len(layers) + extra
        /\ \A i \in 1 .. Len(layers) + extra :
             (layers \o e)[i] = IF i <= Len(layers) THEN layers[i] ELSE e[i - Len(layers)]
    BY <1>4, ConcatProperties
  <1>6. \A i \in 1 .. Len(layers) + extra : ~(i <= Len(layers)) => e[i - Len(layers)] = <<>>
    BY <1>1, <1>3, <1>4
  <1>7. Len(layers) + extra = IF level > Len(layers) THEN level ELSE Len(layers)
    BY <1>1, <1>2
  <1>8. Resized(layers, level) = layers \o e
    BY DEF Resized, extra, e
  <1> QED
    BY <1>5, <1>6, <1>7, <1>8

(* set_links changes the links of one node at one level. *)
LEMMA SetLinksFacts ==
    ASSUME NEW g \in Graphs, NEW n \in Node, NEW level \in Level, level <= g.levels[n],
           NEW links \in Seq(Node), NEW h, h = SetLinks(g, n, level, links)
    PROVE  /\ h \in Graphs /\ SameHeader(g, h)
           /\ \A x \in Node, l \in Level :
                Links(h, x, l) = IF x = n /\ l = level THEN links ELSE Links(g, x, l)
           /\ \A x \in Node : Len(h.upper[x]) =
                IF x = n /\ level > Len(g.upper[x]) THEN level ELSE Len(g.upper[x])
  <1>1. /\ g.layer0 \in [Node -> Seq(Node)] /\ g.upper \in [Node -> Seq(Seq(Node))]
        /\ \A x \in Node : g.upper[x] \in Seq(Seq(Node)) /\ Len(g.upper[x]) \in Nat
    BY DEF Graphs
  <1>2. level \in Nat /\ \A l \in Level : l \in Nat
    BY ConstantFacts
  <1>3. CASE level = 0
    <2>1. h = [g EXCEPT !.layer0[n] = links]
      BY <1>3 DEF SetLinks
    <2> DEFINE new0 == [g.layer0 EXCEPT ![n] = links]
    <2>0. new0 \in [Node -> Seq(Node)] /\ \A x \in Node : new0[x] = IF x = n THEN links ELSE g.layer0[x]
      BY <1>1
    <2> HIDE DEF new0
    <2>2. h \in Graphs /\ SameHeader(g, h) /\ h.upper = g.upper /\ h.layer0 = new0
      <3>1. h = [g EXCEPT !.layer0 = new0]
        BY <2>1 DEF new0
      <3> QED
        BY <2>0, <3>1 DEF Graphs, SameHeader
    <2>3. \A x \in Node, l \in Level :
            Links(h, x, l) = IF x = n /\ l = level THEN links ELSE Links(g, x, l)
      BY <1>1, <1>3, <2>0, <2>2 DEF Links, SameHeader
    <2>4. \A x \in Node : ~(level > Len(g.upper[x]))
      BY <1>1, <1>3
    <2> QED
      BY <2>2, <2>3, <2>4
  <1>4. CASE level # 0
    <2> DEFINE old == g.upper[n]
               sized == Resized(old, level)
               new == [sized EXCEPT ![level] = links]
    <2>1. h = [g EXCEPT !.upper[n] = new]
      BY <1>4 DEF SetLinks
    <2>2. old \in Seq(Seq(Node)) /\ Len(old) \in Nat
      BY <1>1
    <2> HIDE DEF old
    <2>3. /\ sized \in Seq(Seq(Node)) /\ Len(sized) = IF level > Len(old) THEN level ELSE Len(old)
          /\ \A i \in 1 .. Len(sized) : sized[i] = IF i <= Len(old) THEN old[i] ELSE <<>>
      BY <1>2, <2>2, ResizedFacts
    <2> HIDE DEF sized
    <2>4. level \in 1 .. Len(sized)
      BY <1>2, <1>4, <2>2, <2>3
    <2>5. /\ new \in Seq(Seq(Node)) /\ Len(new) = Len(sized)
          /\ \A i \in 1 .. Len(sized) : new[i] = IF i = level THEN links ELSE sized[i]
      <3>1. new \in Seq(Seq(Node)) /\ Len(new) = Len(sized)
        BY <2>3, <2>4, ExceptSeq
      <3> QED
        BY <2>3, <2>4, <3>1
    <2> HIDE DEF new
    <2>6. /\ h \in Graphs /\ SameHeader(g, h) /\ h.layer0 = g.layer0
          /\ h.upper = [g.upper EXCEPT ![n] = new]
      BY <1>1, <2>1, <2>5 DEF Graphs, SameHeader
    <2>7. \A x \in Node : h.upper[x] = IF x = n THEN new ELSE g.upper[x]
      BY <1>1, <2>6
    <2>8. ASSUME NEW l \in Level, l # level PROVE Links(h, n, l) = Links(g, n, l)
      <3>1. l = 0 => Links(h, n, l) = Links(g, n, l)
        BY <2>6 DEF Links
      <3>2. l # 0 => (Links(h, n, l) = IF l \in DOMAIN new /\ l <= g.levels[n] THEN new[l] ELSE <<>>)
        BY <2>6, <2>7 DEF Links, SameHeader
      <3>3. l # 0 => (Links(g, n, l) = IF l \in DOMAIN old /\ l <= g.levels[n] THEN old[l] ELSE <<>>)
        BY DEF Links, old
      <3>4. DOMAIN new = 1 .. Len(sized) /\ DOMAIN old = 1 .. Len(old) /\ Len(sized) \in Nat
        BY <2>2, <2>3, <2>5
      <3>5. l \in 1 .. Len(old) => l \in 1 .. Len(sized) /\ new[l] = old[l]
        <4>1. l \in 1 .. Len(old) => l \in 1 .. Len(sized) /\ l <= Len(old)
          BY <1>2, <2>2, <2>3
        <4> QED
          BY <2>3, <2>5, <2>8, <4>1
      <3>6. l \in 1 .. Len(sized) /\ l \notin 1 .. Len(old) => new[l] = <<>>
        BY <1>2, <2>2, <2>3, <2>5, <2>8
      <3> QED
        BY <3>1, <3>2, <3>3, <3>4, <3>5, <3>6
    <2>9. Links(h, n, level) = links
      <3>1. level \in DOMAIN new /\ new[level] = links /\ h.levels = g.levels
        BY <2>4, <2>5, <2>6 DEF SameHeader
      <3> QED
        BY <1>4, <2>7, <3>1 DEF Links
    <2>10. \A x \in Node, l \in Level : x # n => Links(h, x, l) = Links(g, x, l)
      BY <2>6, <2>7 DEF Links, SameHeader
    <2>11. \A x \in Node : Len(h.upper[x]) =
             IF x = n /\ level > Len(g.upper[x]) THEN level ELSE Len(g.upper[x])
      BY <2>3, <2>5, <2>7 DEF old
    <2> QED
      BY <2>6, <2>8, <2>9, <2>10, <2>11
  <1> QED
    BY <1>3, <1>4

LEMMA LinksType ==
    ASSUME NEW g \in Graphs, NEW n \in Node, NEW level \in Level
    PROVE  Links(g, n, level) \in Seq(Node)
  <1>1. /\ g.layer0[n] \in Seq(Node) /\ g.upper[n] \in Seq(Seq(Node))
        /\ \A l \in DOMAIN g.upper[n] : g.upper[n][l] \in Seq(Node)
    BY DEF Graphs
  <1> QED
    BY <1>1 DEF Links

(* add_link appends to the links. *)
LEMMA PushLinkFacts ==
    ASSUME NEW g \in Graphs, NEW n \in Node, NEW level \in Level, level <= g.levels[n],
           NEW idx \in Node
    PROVE  PushLink(g, n, level, idx) = SetLinks(g, n, level, Append(Links(g, n, level), idx))
  <1>1. CASE level = 0
    BY <1>1 DEF PushLink, SetLinks, Links
  <1>2. CASE level # 0
    <2> DEFINE old == g.upper[n]
               sized == Resized(old, level)
    <2>1. old \in Seq(Seq(Node)) /\ Len(old) \in Nat /\ level \in Nat
      BY ConstantFacts DEF Graphs
    <2>2. Links(g, n, level) = IF level \in DOMAIN old THEN old[level] ELSE <<>>
      BY <1>2 DEF Links
    <2>6. PushLink(g, n, level, idx) = [g EXCEPT !.upper[n] = [sized EXCEPT ![level] = Append(sized[level], idx)]]
      BY <1>2 DEF PushLink
    <2> HIDE DEF old
    <2>3. /\ sized \in Seq(Seq(Node)) /\ Len(sized) = IF level > Len(old) THEN level ELSE Len(old)
          /\ \A i \in 1 .. Len(sized) : sized[i] = IF i <= Len(old) THEN old[i] ELSE <<>>
      BY <2>1, ResizedFacts
    <2> HIDE DEF sized
    <2>4. level \in 1 .. Len(sized) /\ (level \in DOMAIN old <=> level <= Len(old))
      BY <1>2, <2>1, <2>3
    <2>5. sized[level] = Links(g, n, level)
      BY <2>2, <2>3, <2>4
    <2>7. SetLinks(g, n, level, Append(Links(g, n, level), idx))
            = [g EXCEPT !.upper[n] = [sized EXCEPT ![level] = Append(Links(g, n, level), idx)]]
      BY <1>2 DEF SetLinks, sized, old
    <2> QED
      BY <2>5, <2>6, <2>7
  <1> QED
    BY <1>1, <1>2

(* The links of n after idx is linked from it: no more than there may be,  *)
(* each of them once.                                                      *)
LEMMA LinkBackFacts ==
    ASSUME Vectors, NEW g \in Graphs, NEW n \in Node, NEW level \in Level, level <= g.levels[n],
           NEW Y \in SUBSET Node, Links(g, n, level) \in Seq(Y), IsInjective(Links(g, n, level)),
           NEW idx \in Y, idx \notin ToSet(Links(g, n, level))
    PROVE  \E links \in Seq(Y) :
             /\ LinkBack(g, n, level, idx) = SetLinks(g, n, level, links)
             /\ IsInjective(links) /\ Len(links) <= MaxLinks(level)
  <1> DEFINE old == Links(g, n, level)
             pool == Append(old, idx)
             m == MaxLinks(level)
             chosen == SelectHeuristic(pos[n], ByDistance(n, pool), m)
  <1>1. \A i \in DOMAIN old : old[i] # idx
    BY DEF ToSet
  <1>2. LinkBack(g, n, level, idx) = IF Len(pool) <= m THEN PushLink(g, n, level, idx)
                                     ELSE SetLinks(g, n, level, chosen)
    BY DEF LinkBack
  <1>3. PushLink(g, n, level, idx) = SetLinks(g, n, level, pool)
    BY PushLinkFacts
  <1>4. m \in Nat
    BY ConstantFacts
  <1> HIDE DEF old, m
  <1>5. pool \in Seq(Y) /\ IsInjective(pool)
    <2>1. old \in Seq(Y) /\ IsInjective(old)
      BY DEF old
    <2> QED
      BY <1>1, <2>1, AppendedOnce
  <1> HIDE DEF pool
  <1>6. ByDistance(n, pool) \in Seq(Y) /\ IsInjective(ByDistance(n, pool))
    <2> DEFINE L == ByDistance(n, pool)
    <2>1. pool \in Seq(Node)
      BY <1>5
    <2>2. L \in Seq(Node) /\ ToSet(L) = ToSet(pool) /\ IsInjective(L)
      BY <1>5, <2>1, ByDistanceFacts
    <2> HIDE DEF L
    <2>3. ToSet(pool) \in SUBSET Y
      BY <1>5 DEF ToSet
    <2>4. \A i \in 1 .. Len(L) : L[i] \in Y
      <3>1. \A i \in DOMAIN L : L[i] \in ToSet(L)
        BY DEF ToSet
      <3>2. DOMAIN L = 1 .. Len(L)
        BY <2>2
      <3> QED
        BY <2>2, <2>3, <3>1, <3>2, Zenon
    <2>5. L \in Seq(Y)
      BY <2>2, <2>4
    <2> QED
      BY <2>2, <2>5 DEF L
  <1>7. chosen \in Seq(Y) /\ Len(chosen) <= m /\ IsInjective(chosen)
    BY <1>4, <1>6, SelectType, SelectInjective
  <1> HIDE DEF chosen
  <1> QED
    BY <1>2, <1>3, <1>5, <1>7 DEF m

LEMMA SetLinksType ==
    ASSUME NEW g \in Graphs, NEW n \in Node, NEW level \in Level, NEW links \in Seq(Node)
    PROVE  /\ SetLinks(g, n, level, links) \in Graphs
           /\ SameHeader(g, SetLinks(g, n, level, links))
  <1>1. g.layer0 \in [Node -> Seq(Node)] /\ g.upper \in [Node -> Seq(Seq(Node))]
    BY DEF Graphs
  <1>2. ASSUME NEW f \in [Node -> Seq(Node)], NEW h, h = [g EXCEPT !.layer0 = f]
        PROVE  h \in Graphs /\ SameHeader(g, h)
    BY <1>2 DEF Graphs, SameHeader
  <1>3. ASSUME NEW f \in [Node -> Seq(Seq(Node))], NEW h, h = [g EXCEPT !.upper = f]
        PROVE  h \in Graphs /\ SameHeader(g, h)
    BY <1>3 DEF Graphs, SameHeader
  <1>4. CASE level = 0
    <2> DEFINE f == [g.layer0 EXCEPT ![n] = links]
    <2>1. SetLinks(g, n, level, links) = [g EXCEPT !.layer0 = f]
      BY <1>4 DEF SetLinks
    <2>2. f \in [Node -> Seq(Node)]
      BY <1>1
    <2> HIDE DEF f
    <2> QED
      BY <1>2, <2>1, <2>2
  <1>5. CASE level # 0
    <2> DEFINE sized == Resized(g.upper[n], level)
               new == [sized EXCEPT ![level] = links]
               f == [g.upper EXCEPT ![n] = new]
    <2>1. SetLinks(g, n, level, links) = [g EXCEPT !.upper = f]
      BY <1>5 DEF SetLinks
    <2>2. g.upper[n] \in Seq(Seq(Node)) /\ level \in Nat \ {0}
      BY <1>1, <1>5, ConstantFacts
    <2>3. sized \in Seq(Seq(Node)) /\ level \in 1 .. Len(sized)
      BY <2>2, ResizedFacts
    <2> HIDE DEF sized
    <2>4. new \in Seq(Seq(Node))
      BY <2>3, ExceptSeq
    <2> HIDE DEF new
    <2>5. f \in [Node -> Seq(Seq(Node))]
      BY <1>1, <2>4
    <2> HIDE DEF f
    <2> QED
      BY <1>3, <2>1, <2>5
  <1> QED
    BY <1>4, <1>5

LEMMA PushLinkType ==
    ASSUME NEW g \in Graphs, NEW n \in Node, NEW level \in Level, NEW idx \in Node
    PROVE  \E links \in Seq(Node) : PushLink(g, n, level, idx) = SetLinks(g, n, level, links)
  <1>1. g.layer0[n] \in Seq(Node) /\ g.upper[n] \in Seq(Seq(Node))
    BY DEF Graphs
  <1>2. CASE level = 0
    <2>1. Append(g.layer0[n], idx) \in Seq(Node)
      BY <1>1
    <2>2. PushLink(g, n, level, idx) = SetLinks(g, n, level, Append(g.layer0[n], idx))
      BY <1>2 DEF PushLink, SetLinks
    <2> QED
      BY <2>1, <2>2
  <1>3. CASE level # 0
    <2> DEFINE sized == Resized(g.upper[n], level)
    <2>1. level \in Nat \ {0}
      BY <1>3, ConstantFacts
    <2>2. sized \in Seq(Seq(Node)) /\ level \in 1 .. Len(sized)
      BY <1>1, <2>1, ResizedFacts
    <2>3. PushLink(g, n, level, idx) = SetLinks(g, n, level, Append(sized[level], idx))
      BY <1>3 DEF PushLink, SetLinks
    <2> HIDE DEF sized
    <2>4. Append(sized[level], idx) \in Seq(Node)
      BY <2>2
    <2> QED
      BY <2>3, <2>4
  <1> QED
    BY <1>2, <1>3

(* Graphs that differ from g in their links. *)
Relinked(g) == {h \in Graphs : SameHeader(g, h)}

LEMMA LinkBackType ==
    ASSUME Vectors, NEW g \in Graphs, NEW n \in Node, NEW level \in Level, NEW idx \in Node
    PROVE  LinkBack(g, n, level, idx) \in Graphs /\ SameHeader(g, LinkBack(g, n, level, idx))
  <1> DEFINE pool == Append(Links(g, n, level), idx)
             chosen == SelectHeuristic(pos[n], ByDistance(n, pool), MaxLinks(level))
  <1>1. pool \in Seq(Node)
    BY LinksType
  <1>2. LinkBack(g, n, level, idx) = IF Len(pool) <= MaxLinks(level) THEN PushLink(g, n, level, idx)
                                     ELSE SetLinks(g, n, level, chosen)
    BY DEF LinkBack
  <1> HIDE DEF pool
  <1>3. chosen \in Seq(Node)
    BY <1>1, ByDistanceFacts, SelectType, ConstantFacts
  <1> HIDE DEF chosen
  <1>4. \E links \in Seq(Node) : LinkBack(g, n, level, idx) = SetLinks(g, n, level, links)
    BY <1>2, <1>3, PushLinkType
  <1> QED
    BY <1>4, SetLinksType

-----------------------------------------------------------------------------
(* Graphs while idx is linked.                                             *)

Nodes(g) == 0 .. g.inserted - 1
Peers(g, n, l) == {x \in Nodes(g) : x # n /\ g.levels[x] >= l}

Linked(g) ==
    \A n \in Node, l \in Level :
      /\ Links(g, n, l) \in Seq(Peers(g, n, l))
      /\ IsInjective(Links(g, n, l)) /\ Len(Links(g, n, l)) <= MaxLinks(l)
      /\ Links(g, n, l) # <<>> => n \in Nodes(g)
Placed(g) == \A n \in Node : Len(g.upper[n]) <= g.levels[n]
Consistent(g) == g \in Graphs /\ Linked(g) /\ Placed(g)

(* h has all the layers that g has. *)
Grown(g, h) == \A x \in Node : Len(g.upper[x]) <= Len(h.upper[x])

(* Nobody links to idx from the level l. *)
Unlinked(g, idx, l) == \A n \in Node : idx \notin ToSet(Links(g, n, l))

LEMMA NodesFacts ==
    ASSUME NEW g \in Graphs
    PROVE  Nodes(g) \in SUBSET Node /\ \A n, l : Peers(g, n, l) \in SUBSET Node
  <1>1. g.inserted \in 0 .. Count /\ Count \in Nat
    BY ConstantFacts DEF Graphs
  <1>2. Nodes(g) \in SUBSET Node
    BY <1>1 DEF Nodes, Node
  <1> QED
    BY <1>2 DEF Peers

LEMMA UpperFacts ==
    ASSUME NEW g \in Graphs, NEW x \in Node
    PROVE  Len(g.upper[x]) \in Nat /\ g.levels[x] \in Level /\ g.levels[x] \in Nat
  <1>1. g.upper[x] \in Seq(Seq(Node)) /\ g.levels[x] \in Level
    BY DEF Graphs
  <1>2. \A s \in Seq(Seq(Node)) : Len(s) \in Nat
    OBVIOUS
  <1> QED
    BY <1>1, <1>2, ConstantFacts

LEMMA GrownTransitive ==
    ASSUME NEW f \in Graphs, NEW g \in Graphs, NEW h \in Graphs, Grown(f, g), Grown(g, h)
    PROVE  Grown(f, h)
  <1> SUFFICES ASSUME NEW x \in Node PROVE Len(f.upper[x]) <= Len(h.upper[x])
    BY DEF Grown
  <1> DEFINE a == Len(f.upper[x])
             b == Len(g.upper[x])
             c == Len(h.upper[x])
  <1>1. a \in Nat /\ b \in Nat /\ c \in Nat
    BY UpperFacts
  <1>2. a <= b /\ b <= c
    BY DEF Grown
  <1> HIDE DEF a, b, c
  <1>3. a <= c
    BY <1>1, <1>2
  <1> QED
    BY <1>3 DEF a, c

(* A node's links of one level are replaced by nodes of that level.        *)
LEMMA LinkStep ==
    ASSUME NEW g, Consistent(g), NEW n \in Nodes(g), NEW level \in Level, level <= g.levels[n],
           NEW links \in Seq(Peers(g, n, level)), IsInjective(links), Len(links) <= MaxLinks(level),
           NEW h, h = SetLinks(g, n, level, links)
    PROVE  /\ Consistent(h) /\ SameHeader(g, h) /\ Grown(g, h)
           /\ Len(h.upper[n]) >= level
           /\ \A x \in Node, l \in Level :
                Links(h, x, l) = IF x = n /\ l = level THEN links ELSE Links(g, x, l)
  <1>1. g \in Graphs /\ Linked(g) /\ Placed(g)
    BY DEF Consistent
  <1>2. n \in Node /\ links \in Seq(Node)
    BY <1>1, NodesFacts
  <1>3. /\ h \in Graphs /\ SameHeader(g, h)
        /\ \A x \in Node, l \in Level :
             Links(h, x, l) = IF x = n /\ l = level THEN links ELSE Links(g, x, l)
        /\ \A x \in Node : Len(h.upper[x]) =
             IF x = n /\ level > Len(g.upper[x]) THEN level ELSE Len(g.upper[x])
    BY <1>1, <1>2, SetLinksFacts
  <1>4. level \in Nat /\ \A x \in Node : Len(g.upper[x]) \in Nat /\ g.levels[x] \in Nat
    BY <1>1, UpperFacts, ConstantFacts
  <1>5. Grown(g, h) /\ Len(h.upper[n]) >= level
    BY <1>2, <1>3, <1>4 DEF Grown
  <1>6. Placed(h)
    BY <1>1, <1>3, <1>4 DEF Placed, SameHeader
  <1>7. \A x, l : Peers(h, x, l) = Peers(g, x, l) /\ Nodes(h) = Nodes(g)
    BY <1>3 DEF Peers, Nodes, SameHeader
  <1>8. Linked(h)
    <2> SUFFICES ASSUME NEW x \in Node, NEW l \in Level
                 PROVE  /\ Links(h, x, l) \in Seq(Peers(g, x, l))
                        /\ IsInjective(Links(h, x, l)) /\ Len(Links(h, x, l)) <= MaxLinks(l)
                        /\ Links(h, x, l) # <<>> => x \in Nodes(g)
      BY <1>7 DEF Linked
    <2>1. CASE x = n /\ l = level
      BY <1>3, <2>1
    <2>2. CASE ~(x = n /\ l = level)
      <3>1. Links(h, x, l) = Links(g, x, l)
        BY <1>3, <2>2
      <3> QED
        BY <1>1, <3>1 DEF Linked
    <2> QED
      BY <2>1, <2>2
  <1> QED
    BY <1>3, <1>5, <1>6, <1>8 DEF Consistent

(* All that were selected link back. *)
LEMMA LinkAllFacts ==
    ASSUME Vectors, NEW g, Consistent(g), NEW idx \in Nodes(g), NEW level \in Level,
           level <= g.levels[idx], Unlinked(g, idx, level),
           NEW selected \in Seq(Peers(g, idx, level)), IsInjective(selected),
           NEW h, h = LinkAll(g, selected, level, idx)
    PROVE  /\ Consistent(h) /\ SameHeader(g, h) /\ Grown(g, h)
           /\ \A j \in DOMAIN selected : Len(h.upper[selected[j]]) >= level
           /\ \A x \in Node, l \in Level : l # level => Links(h, x, l) = Links(g, x, l)
  <1> DEFINE P == Peers(g, idx, level)
             n == Len(selected)
             T == Relinked(g)
  <1>1. /\ g \in Graphs /\ idx \in Node /\ P \in SUBSET Node /\ n \in Nat
        /\ DOMAIN selected = 1 .. n /\ \A j \in 1 .. n : selected[j] \in P
    BY NodesFacts DEF Consistent
  <1>2. g \in T
    BY <1>1 DEF Relinked, SameHeader
  <1>3. \A t \in T, c \in P : LinkBack(t, c, level, idx) \in T
    <2> TAKE t \in T, c \in P
    <2>1. t \in Graphs /\ SameHeader(g, t) /\ c \in Node
      BY <1>1 DEF Relinked
    <2>2. LinkBack(t, c, level, idx) \in Graphs /\ SameHeader(t, LinkBack(t, c, level, idx))
      BY <1>1, <2>1, LinkBackType
    <2> QED
      BY <2>1, <2>2 DEF Relinked, SameHeader
  <1> HIDE DEF T, P
  <1>4. PICK R : IsLinkAllRun(R, level, idx, g, selected, T)
    <2>1. selected \in Seq(P)
      BY DEF P
    <2> QED
      BY <1>2, <1>3, <2>1, LinkAllRun
  <1> HIDE DEF n
  <1>5. /\ R[0] = g /\ R[n] = h
        /\ \A k \in 1 .. n : R[k] = LinkBack(R[k - 1], selected[k], level, idx)
    BY <1>4 DEF IsLinkAllRun, n
  <1> DEFINE Done2(k) ==
               /\ Consistent(R[k]) /\ SameHeader(g, R[k]) /\ Grown(g, R[k])
               /\ \A j \in 1 .. k : Len(R[k].upper[selected[j]]) >= level
               /\ \A j \in k + 1 .. n : idx \notin ToSet(Links(R[k], selected[j], level))
               /\ \A x \in Node, l \in Level : l # level => Links(R[k], x, l) = Links(g, x, l)
             Good == {k \in 0 .. n : Done2(k)}
  <1>6. 0 \in Good
    <2>1. SameHeader(g, g) /\ Grown(g, g)
      <3>1. \A x \in Node : Len(g.upper[x]) \in Nat
        BY <1>1 DEF Graphs
      <3> QED
        BY <3>1 DEF SameHeader, Grown
    <2>2. \A j \in 0 + 1 .. n : idx \notin ToSet(Links(g, selected[j], level))
      BY <1>1 DEF Unlinked
    <2>3. \A j \in 1 .. 0 : FALSE
      OBVIOUS
    <2> QED
      BY <1>1, <1>5, <2>1, <2>2, <2>3
  <1>7. ASSUME NEW k \in 0 .. n - 1, k \in Good PROVE k + 1 \in Good
    <2> DEFINE t == R[k]
               c == selected[k + 1]
               u == R[k + 1]
               Y == Peers(t, c, level)
    <2>1. k \in Nat /\ k + 1 \in 1 .. n /\ k + 1 \in 0 .. n /\ (k + 1) - 1 = k
      BY <1>1
    <2>2. u = LinkBack(t, c, level, idx)
      BY <1>5, <2>1
    <2>3. /\ Consistent(t) /\ SameHeader(g, t) /\ Grown(g, t)
          /\ \A j \in 1 .. k : Len(t.upper[selected[j]]) >= level
          /\ \A j \in k + 1 .. n : idx \notin ToSet(Links(t, selected[j], level))
          /\ \A x \in Node, l \in Level : l # level => Links(t, x, l) = Links(g, x, l)
      BY <1>7
    <2>4. c \in Nodes(g) /\ c # idx /\ g.levels[c] >= level /\ c \in Node
      BY <1>1, <2>1 DEF P, Peers
    <2> HIDE DEF t, c, u
    <2>5. /\ t \in Graphs /\ Linked(t) /\ Nodes(t) = Nodes(g) /\ t.levels = g.levels
          /\ Y \in SUBSET Node
      BY <2>3, NodesFacts DEF Consistent, SameHeader, Nodes
    <2>6. Links(t, c, level) \in Seq(Y) /\ IsInjective(Links(t, c, level))
      BY <2>4, <2>5 DEF Linked
    <2>7. idx \in Y
      BY <2>4, <2>5 DEF Peers
    <2>8. idx \notin ToSet(Links(t, c, level))
      BY <2>1, <2>3 DEF c
    <2>9. level <= t.levels[c] /\ c \in Nodes(t)
      <3>1. g.levels[c] \in Nat /\ level \in Nat
        BY <1>1, <2>4, ConstantFacts DEF Graphs
      <3> QED
        BY <2>4, <2>5, <3>1
    <2> HIDE DEF Y
    <2>10. PICK links \in Seq(Y) : /\ LinkBack(t, c, level, idx) = SetLinks(t, c, level, links)
                                   /\ IsInjective(links) /\ Len(links) <= MaxLinks(level)
      BY <2>4, <2>5, <2>6, <2>7, <2>8, <2>9, LinkBackFacts
    <2>11. /\ Consistent(u) /\ SameHeader(t, u) /\ Grown(t, u) /\ Len(u.upper[c]) >= level
           /\ \A x \in Node, l \in Level :
                Links(u, x, l) = IF x = c /\ l = level THEN links ELSE Links(t, x, l)
      <3>1. u = SetLinks(t, c, level, links) /\ links \in Seq(Peers(t, c, level))
        BY <2>2, <2>10 DEF Y
      <3> QED
        BY <2>3, <2>9, <2>10, <3>1, LinkStep
    <2>12. \A x \in Node : Len(g.upper[x]) \in Nat /\ Len(t.upper[x]) \in Nat /\ Len(u.upper[x]) \in Nat
      <3>1. g \in Graphs /\ t \in Graphs /\ u \in Graphs
        BY <1>1, <2>5, <2>11 DEF Consistent
      <3> QED
        BY <3>1, UpperFacts
    <2>13. SameHeader(g, u) /\ Grown(g, u)
      <3>1. g \in Graphs /\ t \in Graphs /\ u \in Graphs
        BY <1>1, <2>5, <2>11 DEF Consistent
      <3>2. Grown(g, u)
        BY <2>3, <2>11, <3>1, GrownTransitive
      <3> QED
        BY <2>3, <2>11, <3>2 DEF SameHeader
    <2>14. \A j \in 1 .. k + 1 : Len(u.upper[selected[j]]) >= level
      <3> TAKE j \in 1 .. k + 1
      <3>1. j \in 1 .. n /\ selected[j] \in Node
        BY <1>1, <2>1
      <3>2. CASE j = k + 1
        BY <2>11, <3>2 DEF c
      <3>3. CASE j \in 1 .. k
        <4>1. level \in Nat /\ Len(t.upper[selected[j]]) >= level
          BY <2>3, <3>3, ConstantFacts
        <4> QED
          BY <2>11, <2>12, <3>1, <4>1 DEF Grown
      <3> QED
        BY <2>1, <3>2, <3>3
    <2>15. \A j \in (k + 1) + 1 .. n : idx \notin ToSet(Links(u, selected[j], level))
      <3> TAKE j \in (k + 1) + 1 .. n
      <3>1. j \in k + 1 .. n /\ j \in 1 .. n /\ j # k + 1 /\ selected[j] \in Node
        BY <1>1, <2>1
      <3>2. selected[j] # c
        BY <1>1, <2>1, <3>1 DEF IsInjective, c
      <3> QED
        BY <2>3, <2>11, <3>1, <3>2
    <2>16. \A x \in Node, l \in Level : l # level => Links(u, x, l) = Links(g, x, l)
      BY <2>3, <2>11
    <2> QED
      BY <2>1, <2>11, <2>13, <2>14, <2>15, <2>16 DEF u
  <1>8. n \in Good => Done2(n)
    OBVIOUS
  <1> HIDE DEF Good
  <1>9. n \in Good
    BY <1>1, <1>6, <1>7, LoopInduction
  <1> QED
    BY <1>1, <1>5, <1>8, <1>9

-----------------------------------------------------------------------------
(* Linking idx at one level, and at all of them.                           *)

(* At one level idx gets neighbours and they link back; if there is but    *)
(* one, it gets its layers up to the level.                                *)
LEMMA ConnectLayerFacts ==
    ASSUME Vectors, NEW s, Consistent(s.g), NEW idx \in Nodes(s.g), NEW level \in Level,
           level <= s.g.levels[idx], Unlinked(s.g, idx, level),
           s.eps \in Seq(Peers(s.g, idx, level)), s.eps # <<>>,
           NEW r, r = ConnectLayer(s, idx, level)
    PROVE  /\ Consistent(r.g) /\ SameHeader(s.g, r.g) /\ Grown(s.g, r.g)
           /\ r.eps \in Seq(Peers(s.g, idx, level)) /\ r.eps # <<>>
           /\ Len(r.g.upper[idx]) >= level
           /\ \A e : Peers(s.g, idx, level) = {e} => Len(r.g.upper[e]) >= level
           /\ \A l \in Level : l # level /\ Unlinked(s.g, idx, l) => Unlinked(r.g, idx, l)
  <1> DEFINE g == s.g
             X == Peers(g, idx, level)
             ef == Max({EfConstruct, 1})
             m == MaxLinks(level)
             cands == SearchLayer(g, pos[idx], s.eps, ef, level, Node)
             selected == SelectHeuristic(pos[idx], cands, m)
             f == SetLinks(g, idx, level, selected)
             h == LinkAll(f, selected, level, idx)
  <1>1. r = [g |-> h, eps |-> cands]
    BY Zenon DEF ConnectLayer, LinkAll
  <1>2. /\ g \in Graphs /\ Linked(g) /\ idx \in Node /\ X \in SUBSET Node
        /\ pos[idx] \in Int /\ ef \in Nat \ {0} /\ m \in Nat \ {0}
    BY NodesFacts, NodeFacts, ConstantFacts DEF Consistent
  <1>3. /\ s.eps \in Seq(X) /\ s.eps # <<>> /\ Consistent(g) /\ idx \in Nodes(g)
        /\ level <= g.levels[idx] /\ Unlinked(g, idx, level)
    OBVIOUS
  <1> HIDE DEF g, ef, m
  <1>4. Closed(g, X, level)
    <2> SUFFICES ASSUME NEW n \in X PROVE Links(g, n, level) \in Seq(X)
      BY DEF Closed
    <2> DEFINE L == Links(g, n, level)
    <2>1. n \in Node
      BY <1>2
    <2>2. L \in Seq(Peers(g, n, level)) /\ idx \notin ToSet(L)
      BY <1>2, <1>3, <2>1 DEF Linked, Unlinked
    <2> HIDE DEF L
    <2>3. \A i \in DOMAIN L : L[i] \in Peers(g, n, level) /\ L[i] # idx
      BY <2>2 DEF ToSet
    <2>4. \A i \in DOMAIN L : L[i] \in X
      BY <2>3 DEF Peers
    <2>5. DOMAIN L = 1 .. Len(L) /\ L \in Seq(Peers(g, n, level))
      BY <2>2
    <2> QED
      BY <2>4, <2>5 DEF L
  <1> HIDE DEF X
  <1>5. cands \in Seq(X) /\ IsInjective(cands) /\ cands # <<>>
    BY <1>2, <1>3, <1>4, SearchLayerFacts
  <1> HIDE DEF cands
  <1>6. selected \in Seq(X) /\ IsInjective(selected) /\ Len(selected) <= m
    BY <1>2, <1>5, SelectType, SelectInjective
  <1>7. ASSUME NEW e, X = {e} PROVE 1 \in DOMAIN selected /\ selected[1] = e
    <2>1. Len(cands) \in Nat /\ DOMAIN cands = 1 .. Len(cands) /\ \A i \in DOMAIN cands : cands[i] = e
      BY <1>5, <1>7
    <2>2. Len(cands) # 0
      BY <1>5
    <2>3. \A i, j \in 1 .. Len(cands) : i = j
      BY <1>5, <2>1 DEF IsInjective
    <2>4. Len(cands) = 1
      <3>1. Len(cands) >= 1 => 1 \in 1 .. Len(cands) /\ Len(cands) \in 1 .. Len(cands)
        BY <2>1
      <3> QED
        BY <2>1, <2>2, <2>3, <3>1
    <2>5. selected = cands
      BY <1>2, <2>4 DEF SelectHeuristic
    <2> QED
      BY <2>1, <2>4, <2>5
  <1> HIDE DEF selected
  <1>8. /\ Consistent(f) /\ SameHeader(g, f) /\ Grown(g, f) /\ Len(f.upper[idx]) >= level
        /\ \A x \in Node, l \in Level :
             Links(f, x, l) = IF x = idx /\ l = level THEN selected ELSE Links(g, x, l)
    BY <1>3, <1>6, LinkStep DEF X, m
  <1> HIDE DEF f
  <1>9. Unlinked(f, idx, level)
    <2> SUFFICES ASSUME NEW n \in Node PROVE idx \notin ToSet(Links(f, n, level))
      BY DEF Unlinked
    <2>1. \A i \in DOMAIN selected : selected[i] # idx
      BY <1>6 DEF X, Peers
    <2>2. idx \notin ToSet(selected)
      BY <2>1 DEF ToSet
    <2> QED
      BY <1>3, <1>8, <2>2 DEF Unlinked
  <1>10. \A n, l : Peers(f, n, l) = Peers(g, n, l) /\ Nodes(f) = Nodes(g) /\ f.levels = g.levels
    BY <1>8 DEF SameHeader, Peers, Nodes
  <1>11. /\ Consistent(h) /\ SameHeader(f, h) /\ Grown(f, h)
         /\ \A j \in DOMAIN selected : Len(h.upper[selected[j]]) >= level
         /\ \A x \in Node, l \in Level : l # level => Links(h, x, l) = Links(f, x, l)
    <2>1. selected \in Seq(Peers(f, idx, level)) /\ idx \in Nodes(f) /\ level <= f.levels[idx]
      BY <1>3, <1>6, <1>10 DEF X
    <2> QED
      BY <1>6, <1>8, <1>9, <2>1, LinkAllFacts
  <1> HIDE DEF h
  <1>12. \A x \in Node : Len(g.upper[x]) \in Nat /\ Len(f.upper[x]) \in Nat /\ Len(h.upper[x]) \in Nat
    BY <1>2, <1>8, <1>11, UpperFacts DEF Consistent
  <1>13. SameHeader(g, h)
    BY <1>8, <1>11 DEF SameHeader
  <1>14. Grown(g, h) /\ Len(h.upper[idx]) >= level
    <2>1. level \in Nat
      BY ConstantFacts
    <2>2. \A x \in Node : Len(g.upper[x]) <= Len(f.upper[x]) /\ Len(f.upper[x]) <= Len(h.upper[x])
      BY <1>8, <1>11 DEF Grown
    <2>3. Grown(g, h)
      BY <1>2, <1>8, <1>11, GrownTransitive DEF Consistent
    <2>4. Len(h.upper[idx]) >= level
      BY <1>2, <1>8, <1>12, <2>1, <2>2
    <2> QED
      BY <2>3, <2>4
  <1>15. \A e : X = {e} => Len(h.upper[e]) >= level
    <2> TAKE e
    <2>1. X = {e} => 1 \in DOMAIN selected /\ selected[1] = e
      BY <1>7
    <2>2. 1 \in DOMAIN selected => Len(h.upper[selected[1]]) >= level
      BY <1>11
    <2> QED
      BY <2>1, <2>2, Zenon
  <1>16. ASSUME NEW l \in Level, l # level, Unlinked(g, idx, l) PROVE Unlinked(h, idx, l)
    BY <1>8, <1>11, <1>16 DEF Unlinked
  <1> QED
    BY <1>1, <1>5, <1>11, <1>13, <1>14, <1>15, <1>16 DEF g, X

(* The states of the insertion, whatever its levels. *)
Linking(g) == {t \in [g : Relinked(g), eps : Seq(Node)] : t.eps # <<>>}

LEMMA ConnectLayerType ==
    ASSUME Vectors, NEW g, NEW t \in Linking(g), NEW idx \in Node, NEW level \in Level
    PROVE  ConnectLayer(t, idx, level) \in Linking(g)
  <1> DEFINE ef == Max({EfConstruct, 1})
             cands == SearchLayer(t.g, pos[idx], t.eps, ef, level, Node)
             selected == SelectHeuristic(pos[idx], cands, MaxLinks(level))
             f == SetLinks(t.g, idx, level, selected)
             h == LinkAll(f, selected, level, idx)
  <1>1. ConnectLayer(t, idx, level) = [g |-> h, eps |-> cands]
    BY Zenon DEF ConnectLayer, LinkAll
  <1>2. /\ t.g \in Graphs /\ SameHeader(g, t.g) /\ t.eps \in Seq(Node) /\ t.eps # <<>>
        /\ pos[idx] \in Int /\ ef \in Nat \ {0} /\ MaxLinks(level) \in Nat
    BY NodeFacts, ConstantFacts DEF Linking, Relinked
  <1> HIDE DEF ef
  <1>3. Closed(t.g, Node, level)
    BY <1>2, LinksType DEF Closed
  <1>4. cands \in Seq(Node) /\ cands # <<>>
    BY <1>2, <1>3, SearchLayerFacts
  <1> HIDE DEF cands
  <1>5. selected \in Seq(Node)
    BY <1>2, <1>4, SelectType
  <1> HIDE DEF selected
  <1>6. f \in Graphs /\ SameHeader(t.g, f)
    BY <1>2, <1>5, SetLinksType
  <1> HIDE DEF f
  <1>7. \A u \in Relinked(f), c \in Node : LinkBack(u, c, level, idx) \in Relinked(f)
    BY LinkBackType DEF Relinked, SameHeader
  <1>8. f \in Relinked(f)
    BY <1>6 DEF Relinked, SameHeader
  <1>9. h \in Relinked(f)
    BY <1>5, <1>7, <1>8, LinkAllStays
  <1> HIDE DEF h
  <1>10. h \in Relinked(g)
    BY <1>2, <1>6, <1>9 DEF Relinked, SameHeader
  <1> QED
    BY <1>1, <1>4, <1>10 DEF Linking

LEMMA DownFacts ==
    ASSUME NEW from \in Int, NEW to \in Nat
    PROVE  /\ Down(from, to) \in Seq(to .. from)
           /\ Len(Down(from, to)) = IF from >= to THEN from - to + 1 ELSE 0
           /\ \A i \in 1 .. Len(Down(from, to)) : Down(from, to)[i] = from - i + 1
  <1> DEFINE n == Max({0, from - to + 1})
  <1>1. n = IF from >= to THEN from - to + 1 ELSE 0
    BY MaxOfTwo
  <1> HIDE DEF n
  <1>2. n \in Nat /\ \A i \in 1 .. n : from - i + 1 \in to .. from
    BY <1>1
  <1>3. Down(from, to) = [i \in 1 .. n |-> from - i + 1]
    BY DEF Down, n
  <1> QED
    BY <1>1, <1>2, <1>3

LinkedFrom(g, ep, idx, top) == ConnectAll([g |-> g, eps |-> <<ep>>], idx, Down(top, 0)).g

(* idx is linked at the levels from top down.  An entry that alone has the *)
(* level top gets its layers.                                              *)
LEMMA ConnectAllFacts ==
    ASSUME Vectors, NEW g, Consistent(g), NEW idx \in Nodes(g), NEW top \in Level,
           top <= g.levels[idx], \A l \in Level : l <= top => Unlinked(g, idx, l),
           NEW ep \in Peers(g, idx, top),
           NEW h, h = LinkedFrom(g, ep, idx, top)
    PROVE  /\ Consistent(h) /\ SameHeader(g, h) /\ Grown(g, h)
           /\ Len(h.upper[idx]) >= top
           /\ \A e : Peers(g, idx, top) = {e} => Len(h.upper[e]) >= top
  <1> DEFINE b == [g |-> g, eps |-> <<ep>>]
             levels == Down(top, 0)
             T == Linking(g)
             S == 0 .. top
             P(l) == Peers(g, idx, l)
  <1>1. g \in Graphs /\ idx \in Node /\ top \in Nat /\ ep \in Node /\ S \in SUBSET Level
    BY NodesFacts, ConstantFacts DEF Consistent, Level
  <1>2. /\ levels \in Seq(S) /\ Len(levels) = top + 1
        /\ \A i \in 1 .. top + 1 : levels[i] = top - i + 1
    <2>0. top \in Int /\ 0 \in Nat
      BY <1>1
    <2>1. Down(top, 0) \in Seq(0 .. top) /\ Len(Down(top, 0)) = IF top >= 0 THEN top - 0 + 1 ELSE 0
      BY <2>0, DownFacts, Zenon
    <2>2. \A i \in 1 .. Len(Down(top, 0)) : Down(top, 0)[i] = top - i + 1
      BY <2>0, DownFacts, Zenon
    <2>3. Len(Down(top, 0)) = top + 1
      BY <1>1, <2>1
    <2> QED
      BY <2>1, <2>2, <2>3
  <1>3. b \in T
    <2>1. g \in Relinked(g)
      BY <1>1 DEF Relinked, SameHeader
    <2>2. <<ep>> \in Seq(Node) /\ <<ep>> # <<>>
      BY <1>1
    <2> QED
      BY <2>1, <2>2 DEF Linking
  <1>4. \A t \in T, c \in S : ConnectLayer(t, idx, c) \in T
    BY <1>1, ConnectLayerType
  <1> HIDE DEF b, levels, T, S
  <1>5. PICK R : IsConnectAllRun(R, idx, b, levels, T)
    BY <1>2, <1>3, <1>4, ConnectAllRun
  <1>6. /\ R[0] = b /\ R[top + 1].g = h
        /\ \A k \in 1 .. top + 1 : R[k] = ConnectLayer(R[k - 1], idx, top - k + 1)
    BY <1>2, <1>5 DEF IsConnectAllRun, b, levels, LinkedFrom
  <1> DEFINE State(k) ==
               /\ Consistent(R[k].g) /\ SameHeader(g, R[k].g) /\ Grown(g, R[k].g)
               /\ R[k].eps \in Seq(P(top - k)) /\ R[k].eps # <<>>
               /\ \A l \in Level : l <= top - k => Unlinked(R[k].g, idx, l)
               /\ k > 0 => /\ Len(R[k].g.upper[idx]) >= top
                           /\ \A e : P(top) = {e} => Len(R[k].g.upper[e]) >= top
             Good == {k \in 0 .. top + 1 : State(k)}
  <1>7. 0 \in Good
    <2>1. R[0].g = g /\ R[0].eps = <<ep>>
      BY <1>6 DEF b
    <2>2. SameHeader(g, g) /\ Grown(g, g)
      BY <1>1, UpperFacts DEF SameHeader, Grown
    <2>3. <<ep>> \in Seq(P(top - 0)) /\ <<ep>> # <<>>
      BY <1>1
    <2>4. 0 \in 0 .. top + 1 /\ ~(0 > 0) /\ top - 0 = top
      BY <1>1
    <2> HIDE DEF P
    <2> QED
      BY <2>1, <2>2, <2>3, <2>4
  <1>8. ASSUME NEW k \in 0 .. (top + 1) - 1, k \in Good PROVE k + 1 \in Good
    <2> DEFINE s == R[k]
               r == R[k + 1]
               level == top - k
    <2>1. /\ k \in Nat /\ k + 1 \in 1 .. top + 1 /\ k + 1 \in 0 .. top + 1 /\ (k + 1) - 1 = k
          /\ top - (k + 1) + 1 = level /\ level \in S /\ level <= top
      BY <1>1 DEF S
    <2>2. r = ConnectLayer(s, idx, level)
      BY <1>6, <2>1
    <2>3. /\ Consistent(s.g) /\ SameHeader(g, s.g) /\ Grown(g, s.g)
          /\ s.eps \in Seq(P(level)) /\ s.eps # <<>>
          /\ \A l \in Level : l <= level => Unlinked(s.g, idx, l)
          /\ k > 0 => /\ Len(s.g.upper[idx]) >= top
                      /\ \A e : P(top) = {e} => Len(s.g.upper[e]) >= top
      BY <1>8
    <2>4. level \in Level /\ level \in Nat /\ (k = 0 => level = top)
      BY <1>1, <2>1
    <2> HIDE DEF s, r, level
    <2>5. \A l : Peers(s.g, idx, l) = P(l) /\ Nodes(s.g) = Nodes(g) /\ s.g.levels = g.levels
      BY <2>3 DEF SameHeader, Peers, Nodes
    <2>6. level <= s.g.levels[idx]
      <3>1. g.levels[idx] \in Nat
        BY <1>1, UpperFacts
      <3> QED
        BY <1>1, <2>1, <2>4, <2>5, <3>1
    <2>7. /\ Consistent(r.g) /\ SameHeader(s.g, r.g) /\ Grown(s.g, r.g)
          /\ r.eps \in Seq(P(level)) /\ r.eps # <<>>
          /\ Len(r.g.upper[idx]) >= level
          /\ \A e : P(level) = {e} => Len(r.g.upper[e]) >= level
          /\ \A l \in Level : l # level /\ Unlinked(s.g, idx, l) => Unlinked(r.g, idx, l)
      <3>1. s.eps \in Seq(Peers(s.g, idx, level)) /\ idx \in Nodes(s.g) /\ Unlinked(s.g, idx, level)
        BY <2>3, <2>4, <2>5
      <3>2. Peers(s.g, idx, level) = P(level)
        BY <2>5
      <3> HIDE DEF P
      <3> QED
        BY <2>2, <2>3, <2>4, <2>6, <3>1, <3>2, ConnectLayerFacts
    <2>8. \A x \in Node : Len(g.upper[x]) \in Nat /\ Len(s.g.upper[x]) \in Nat /\ Len(r.g.upper[x]) \in Nat
      BY <1>1, <2>3, <2>7, UpperFacts DEF Consistent
    <2>9. SameHeader(g, r.g)
      BY <2>3, <2>7 DEF SameHeader
    <2>10. \A x \in Node : Len(g.upper[x]) <= Len(s.g.upper[x]) /\ Len(s.g.upper[x]) <= Len(r.g.upper[x])
      BY <2>3, <2>7 DEF Grown
    <2>11. Grown(g, r.g)
      <3> DEFINE a == s.g
                 c == r.g
      <3>1. a \in Graphs /\ c \in Graphs /\ Grown(g, a) /\ Grown(a, c)
        BY <2>3, <2>7 DEF Consistent
      <3> HIDE DEF a, c
      <3>2. Grown(g, c)
        BY <1>1, <3>1, GrownTransitive
      <3> QED
        BY <3>2 DEF c
    <2>12. r.eps \in Seq(P(top - (k + 1)))
      <3>1. P(level) \in SUBSET P(top - (k + 1))
        <4>1. \A x \in Nodes(g) : g.levels[x] \in Nat
          BY <1>1, NodesFacts, UpperFacts
        <4>2. \A x \in Nodes(g) : g.levels[x] >= level => g.levels[x] >= top - (k + 1)
          BY <1>1, <2>1, <2>4, <4>1
        <4> QED
          BY <4>2 DEF Peers
      <3> HIDE DEF P
      <3> QED
        BY <2>7, <3>1
    <2>13. \A l \in Level : l <= top - (k + 1) => Unlinked(r.g, idx, l)
      <3> TAKE l \in Level
      <3>1. l <= top - (k + 1) => l <= level /\ l # level
        <4>1. l \in Nat
          BY ConstantFacts
        <4> QED
          BY <1>1, <2>1, <4>1 DEF level
      <3> QED
        BY <2>3, <2>7, <3>1
    <2>14. Len(r.g.upper[idx]) >= top
      BY <1>1, <2>1, <2>3, <2>4, <2>7, <2>8, <2>10
    <2>15. ASSUME NEW e, P(top) = {e} PROVE Len(r.g.upper[e]) >= top
      <3>1. e \in Node
        BY <1>1, <2>15, NodesFacts
      <3>2. k = 0 => Len(r.g.upper[e]) >= top
        BY <2>4, <2>7, <2>15
      <3>3. k > 0 => Len(s.g.upper[e]) >= top
        BY <2>3, <2>15
      <3> QED
        BY <1>1, <2>1, <2>8, <2>10, <3>1, <3>2, <3>3
    <2> HIDE DEF P
    <2> QED
      BY <2>1, <2>7, <2>9, <2>11, <2>12, <2>13, <2>14, <2>15 DEF r
  <1>9. top + 1 \in Good => State(top + 1)
    OBVIOUS
  <1> HIDE DEF Good
  <1>10. top + 1 \in Good
    BY <1>1, <1>7, <1>8, LoopInduction
  <1>11. R[top + 1].g = h /\ top + 1 > 0
    BY <1>1, <1>6
  <1>12. State(top + 1)
    BY <1>9, <1>10
  <1> QED
    BY <1>11, <1>12

-----------------------------------------------------------------------------
(* HnswGraph::insert.                                                      *)

(* Every node but the entry has all its layers, and so has the entry up to *)
(* the highest level of the others.                                        *)
EntryOf(g) ==
    IF Nodes(g) = {} THEN g.entry = EMPTY /\ g.maxLevel = -1
    ELSE /\ g.entry \in Nodes(g) /\ g.maxLevel = g.levels[g.entry]
         /\ \A n \in Nodes(g) : g.levels[n] <= g.maxLevel
         /\ \A n \in Nodes(g) \ {g.entry} :
              Len(g.upper[n]) = g.levels[n] /\ g.levels[n] <= Len(g.upper[g.entry])

GoodGraph(g) ==
    /\ Consistent(g) /\ EntryOf(g)
    /\ \A n \in Node \ Nodes(g) : g.levels[n] = 0

(* Nothing is known of a node that is not inserted yet. *)
LEMMA NextNode ==
    ASSUME NEW g, GoodGraph(g), NEW idx, idx = g.inserted, idx < Count
    PROVE  /\ idx \in Node /\ idx \notin Nodes(g) /\ Nodes(g) \in SUBSET Node
           /\ g.levels[idx] = 0 /\ Len(g.upper[idx]) = 0 /\ g.upper[idx] = <<>>
           /\ \A l \in Level : Links(g, idx, l) = <<>>
           /\ \A h : h.inserted = idx + 1 => Nodes(h) = Nodes(g) \cup {idx}
  <1>1. g \in Graphs /\ g.inserted \in 0 .. Count /\ Count \in Nat /\ Linked(g) /\ Placed(g)
    BY ConstantFacts DEF GoodGraph, Consistent, Graphs
  <1>2. idx \in Node /\ idx \notin Nodes(g) /\ Nodes(g) \in SUBSET Node
    BY <1>1 DEF Node, Nodes
  <1>3. g.levels[idx] = 0
    BY <1>2 DEF GoodGraph
  <1>4. Len(g.upper[idx]) = 0
    BY <1>1, <1>2, <1>3, UpperFacts DEF Placed
  <1>5. g.upper[idx] = <<>>
    <2>1. g.upper[idx] \in Seq(Seq(Node))
      BY <1>1, <1>2 DEF Graphs
    <2> QED
      BY <1>4, <2>1
  <1>6. \A l \in Level : Links(g, idx, l) = <<>>
    BY <1>1, <1>2 DEF Linked
  <1>7. \A h : h.inserted = idx + 1 => Nodes(h) = Nodes(g) \cup {idx}
    BY <1>1 DEF Nodes
  <1> QED
    BY <1>2, <1>3, <1>4, <1>5, <1>6, <1>7

LEMMA NoLinks ==
    IsInjective(<<>>) /\ Len(<<>>) = 0 /\ \A S : <<>> \in Seq(S)
  BY DEF IsInjective

(* The first node is the entry and has all its layers.                     *)
LEMMA FirstInsertedFacts ==
    ASSUME NEW g, GoodGraph(g), Nodes(g) = {}, NEW idx, idx = g.inserted, idx < Count,
           NEW level \in Level, NEW h, h = FirstInserted(g, idx, level)
    PROVE  GoodGraph(h)
  <1> DEFINE new == Resized(g.upper[idx], level)
  <1>1. /\ idx \in Node /\ g.levels[idx] = 0 /\ g.upper[idx] = <<>> /\ Len(g.upper[idx]) = 0
    BY NextNode
  <1>2. g \in Graphs /\ Linked(g) /\ Placed(g) /\ level \in Nat /\ idx \in Nat
    BY <1>1, ConstantFacts DEF GoodGraph, Consistent, Node
  <1>3. /\ new \in Seq(Seq(Node)) /\ Len(new) = level
        /\ \A i \in 1 .. Len(new) : new[i] = <<>>
    <2> DEFINE old == g.upper[idx]
    <2>1. old \in Seq(Seq(Node)) /\ Len(old) = 0
      BY <1>1
    <2> HIDE DEF old
    <2>2. /\ Resized(old, level) \in Seq(Seq(Node))
          /\ Len(Resized(old, level)) = IF level > Len(old) THEN level ELSE Len(old)
          /\ \A i \in 1 .. Len(Resized(old, level)) :
               Resized(old, level)[i] = IF i <= Len(old) THEN old[i] ELSE <<>>
      BY <1>2, <2>1, ResizedFacts
    <2>3. Len(Resized(old, level)) = level
      BY <1>2, <2>1, <2>2
    <2>4. \A i \in 1 .. level : ~(i <= 0)
      BY <1>2
    <2> QED
      BY <2>1, <2>2, <2>3, <2>4 DEF old
  <1>4. h = [g EXCEPT !.inserted = idx + 1, !.levels[idx] = level, !.entry = idx, !.maxLevel = level,
                      !.upper[idx] = new]
    BY DEF FirstInserted
  <1> HIDE DEF new
  <1>5. idx = 0 /\ idx + 1 \in 0 .. Count
    <2>1. g.inserted \in 0 .. Count /\ Count \in Nat
      BY <1>2, ConstantFacts DEF Graphs
    <2> QED
      BY <2>1 DEF Nodes
  <1> DEFINE levels == [g.levels EXCEPT ![idx] = level]
             upper == [g.upper EXCEPT ![idx] = new]
  <1>6. /\ levels \in [Node -> Level] /\ \A x \in Node : levels[x] = IF x = idx THEN level ELSE g.levels[x]
        /\ upper \in [Node -> Seq(Seq(Node))]
        /\ \A x \in Node : upper[x] = IF x = idx THEN new ELSE g.upper[x]
    BY <1>1, <1>2, <1>3 DEF Graphs
  <1>7. h = [g EXCEPT !.inserted = idx + 1, !.levels = levels, !.entry = idx, !.maxLevel = level, !.upper = upper]
    BY <1>4
  <1> HIDE DEF levels, upper
  <1>8. /\ h \in Graphs /\ h.inserted = idx + 1 /\ h.levels = levels /\ h.entry = idx /\ h.maxLevel = level
        /\ h.upper = upper /\ h.layer0 = g.layer0
    <2>1. level \in -1 .. MaxLevel
      BY ConstantFacts DEF Level
    <2> QED
      BY <1>1, <1>2, <1>5, <1>6, <1>7, <2>1 DEF Graphs
  <1>9. Nodes(h) = {idx}
    BY <1>5, <1>8 DEF Nodes
  <1>10. ASSUME NEW n \in Node, NEW l \in Level PROVE Links(h, n, l) = <<>>
    <2>1. Links(g, n, l) = <<>>
      BY <1>2 DEF Linked
    <2>2. l = 0 => Links(h, n, l) = <<>>
      BY <1>8, <2>1 DEF Links
    <2>3. n # idx => Links(h, n, l) = <<>>
      BY <1>6, <1>8, <2>1 DEF Links
    <2>4. n = idx /\ l # 0 => Links(h, n, l) = <<>>
      <3>1. DOMAIN new = 1 .. Len(new)
        BY <1>3
      <3> QED
        BY <1>1, <1>3, <1>6, <1>8, <3>1 DEF Links
    <2> QED
      BY <2>2, <2>3, <2>4
  <1>11. Linked(h)
    <2>1. \A l : 0 <= MaxLinks(l)
      BY ConstantFacts
    <2> QED
      BY <1>10, <2>1, NoLinks DEF Linked
  <1>12. Placed(h)
    <2> SUFFICES ASSUME NEW x \in Node PROVE Len(upper[x]) <= levels[x]
      BY <1>8 DEF Placed
    <2>1. x = idx => Len(upper[x]) <= levels[x]
      BY <1>2, <1>3, <1>6
    <2>2. x # idx => Len(upper[x]) <= levels[x]
      BY <1>2, <1>6 DEF Placed
    <2> QED
      BY <2>1, <2>2
  <1>13. EntryOf(h)
    <2>1. h.levels[idx] = level /\ level <= level
      BY <1>1, <1>2, <1>6, <1>8
    <2> QED
      BY <1>8, <1>9, <2>1 DEF EntryOf
  <1>14. \A n \in Node \ Nodes(h) : h.levels[n] = 0
    BY <1>6, <1>8, <1>9 DEF GoodGraph
  <1> QED
    BY <1>8, <1>11, <1>12, <1>13, <1>14 DEF GoodGraph, Consistent

(* The graph with the level of the new node, before it has any link.       *)
Leveled(g, idx, level) == [g EXCEPT !.inserted = idx + 1, !.levels[idx] = level]

(* With its level and without links the new node changes nothing for the   *)
(* others.                                                                 *)
LEMMA LeveledFacts ==
    ASSUME NEW g, GoodGraph(g), NEW idx, idx = g.inserted, idx < Count, NEW level \in Level,
           NEW h, h = Leveled(g, idx, level)
    PROVE  /\ Consistent(h) /\ Nodes(h) = Nodes(g) \cup {idx}
           /\ h.entry = g.entry /\ h.maxLevel = g.maxLevel /\ h.upper = g.upper
           /\ h.inserted = idx + 1
           /\ \A x \in Node : h.levels[x] = IF x = idx THEN level ELSE g.levels[x]
           /\ \A n \in Node, l \in Level : Links(h, n, l) \in Seq(Peers(g, n, l))
           /\ \A l \in Level : Unlinked(h, idx, l)
  <1> DEFINE levels == [g.levels EXCEPT ![idx] = level]
  <1>1. /\ idx \in Node /\ idx \notin Nodes(g) /\ Nodes(g) \in SUBSET Node
        /\ g.levels[idx] = 0 /\ g.upper[idx] = <<>> /\ Len(g.upper[idx]) = 0
        /\ \A l \in Level : Links(g, idx, l) = <<>>
    BY NextNode
  <1>2. g \in Graphs /\ Linked(g) /\ Placed(g) /\ level \in Nat /\ idx \in Nat /\ Count \in Nat
    BY <1>1, ConstantFacts DEF GoodGraph, Consistent, Node
  <1>3. levels \in [Node -> Level] /\ \A x \in Node : levels[x] = IF x = idx THEN level ELSE g.levels[x]
    BY <1>1, <1>2 DEF Graphs
  <1>4. h = [g EXCEPT !.inserted = idx + 1, !.levels = levels]
    BY DEF Leveled
  <1> HIDE DEF levels
  <1>5. /\ h \in Graphs /\ h.inserted = idx + 1 /\ h.levels = levels /\ h.entry = g.entry
        /\ h.maxLevel = g.maxLevel /\ h.upper = g.upper /\ h.layer0 = g.layer0
    <2>1. idx + 1 \in 0 .. Count
      BY <1>2
    <2> QED
      BY <1>2, <1>3, <1>4, <2>1 DEF Graphs
  <1>6. Nodes(h) = Nodes(g) \cup {idx}
    BY <1>2, <1>5 DEF Nodes
  <1>7. ASSUME NEW n \in Node, NEW l \in Level PROVE Links(h, n, l) = Links(g, n, l)
    <2>1. n # idx => Links(h, n, l) = Links(g, n, l)
      BY <1>3, <1>5 DEF Links
    <2>2. n = idx => Links(h, n, l) = Links(g, n, l)
      <3>1. DOMAIN g.upper[idx] = {}
        BY <1>1
      <3> QED
        BY <1>5, <3>1 DEF Links
    <2> QED
      BY <2>1, <2>2
  <1>8. \A n \in Node, l \in Level : Links(h, n, l) \in Seq(Peers(g, n, l))
    BY <1>2, <1>7 DEF Linked
  <1>9. \A n, l : Peers(g, n, l) \in SUBSET Peers(h, n, l)
    BY <1>1, <1>3, <1>5, <1>6 DEF Peers
  <1>10. Linked(h)
    <2> SUFFICES ASSUME NEW n \in Node, NEW l \in Level
                 PROVE  /\ Links(h, n, l) \in Seq(Peers(h, n, l))
                        /\ IsInjective(Links(h, n, l)) /\ Len(Links(h, n, l)) <= MaxLinks(l)
                        /\ Links(h, n, l) # <<>> => n \in Nodes(h)
      BY DEF Linked
    <2>1. Links(h, n, l) \in Seq(Peers(h, n, l))
      BY <1>8, <1>9
    <2> QED
      BY <1>2, <1>6, <1>7, <2>1 DEF Linked
  <1>11. Placed(h)
    <2> SUFFICES ASSUME NEW x \in Node PROVE Len(g.upper[x]) <= levels[x]
      BY <1>5 DEF Placed
    <2>1. x = idx => Len(g.upper[x]) <= levels[x]
      BY <1>1, <1>2, <1>3
    <2>2. x # idx => Len(g.upper[x]) <= levels[x]
      BY <1>2, <1>3 DEF Placed
    <2> QED
      BY <2>1, <2>2
  <1>12. ASSUME NEW l \in Level PROVE Unlinked(h, idx, l)
    <2> SUFFICES ASSUME NEW n \in Node PROVE idx \notin ToSet(Links(h, n, l))
      BY DEF Unlinked
    <2> DEFINE L == Links(h, n, l)
    <2>1. L \in Seq(Peers(g, n, l))
      BY <1>8
    <2> HIDE DEF L
    <2>2. \A i \in DOMAIN L : L[i] \in Peers(g, n, l)
      BY <2>1
    <2>3. idx \notin ToSet(L)
      BY <1>1, <2>2 DEF ToSet, Peers
    <2> QED
      BY <2>3 DEF L
  <1> QED
    BY <1>3, <1>5, <1>6, <1>8, <1>10, <1>11, <1>12 DEF Consistent

(* The descent ends at a node of the level where the linking begins.       *)
LEMMA DescentFacts ==
    ASSUME Vectors, NEW g, GoodGraph(g), Nodes(g) # {}, NEW idx, idx = g.inserted, idx < Count,
           NEW level \in Level, NEW h, h = Leveled(g, idx, level),
           NEW top \in Level, top = IF level <= g.maxLevel THEN level ELSE g.maxLevel
    PROVE  DescendAll(h, pos[idx], g.entry, Down(g.maxLevel, level + 1)) \in Peers(h, idx, top)
  <1> DEFINE X == Peers(h, idx, top)
             S == level + 1 .. g.maxLevel
  <1>1. /\ idx \in Node /\ idx \notin Nodes(g) /\ Nodes(g) \in SUBSET Node
    BY NextNode
  <1>2. /\ Nodes(h) = Nodes(g) \cup {idx} /\ Consistent(h)
        /\ \A x \in Node : h.levels[x] = IF x = idx THEN level ELSE g.levels[x]
        /\ \A n \in Node, l \in Level : Links(h, n, l) \in Seq(Peers(g, n, l))
    <2>1. GoodGraph(g) /\ idx = g.inserted /\ idx < Count /\ h = Leveled(g, idx, level)
      OBVIOUS
    <2> QED
      BY ONLY <2>1, LeveledFacts, level \in Level
  <1>3. /\ g \in Graphs /\ h \in Graphs /\ level \in Nat /\ top \in Nat /\ MaxLevel \in Nat
        /\ g.entry \in Nodes(g) /\ g.maxLevel = g.levels[g.entry] /\ g.maxLevel \in Level
    <2>1. g.entry \in Nodes(g) /\ g.maxLevel = g.levels[g.entry] /\ g \in Graphs
      BY DEF GoodGraph, EntryOf, Consistent
    <2>2. g.levels[g.entry] \in Level
      BY <1>1, <2>1, UpperFacts
    <2> QED
      BY <1>2, <2>1, <2>2, ConstantFacts DEF Consistent
  <1>4. g.maxLevel \in Nat /\ g.maxLevel <= MaxLevel /\ top <= g.maxLevel /\ top <= level
    BY <1>3 DEF Level
  <1>5. g.entry \in X
    <2>1. g.entry # idx /\ h.levels[g.entry] = g.maxLevel
      BY <1>1, <1>2, <1>3
    <2> QED
      BY <1>2, <1>3, <1>4, <2>1 DEF Peers
  <1>6. ASSUME NEW cur \in S PROVE Closed(h, X, cur)
    <2>1. cur \in Level /\ top <= cur /\ cur \in Nat
      BY <1>3, <1>4 DEF Level
    <2> SUFFICES ASSUME NEW n \in X PROVE Links(h, n, cur) \in Seq(X)
      BY DEF Closed
    <2>2. n \in Node
      BY <1>1, <1>2 DEF Peers
    <2>3. Links(h, n, cur) \in Seq(Peers(g, n, cur))
      BY <1>2, <2>1, <2>2
    <2>4. Peers(g, n, cur) \in SUBSET X
      <3> SUFFICES ASSUME NEW x \in Peers(g, n, cur) PROVE x \in X
        OBVIOUS
      <3>1. x \in Nodes(g) /\ g.levels[x] >= cur
        BY DEF Peers
      <3>2. x \in Node /\ x # idx /\ h.levels[x] = g.levels[x]
        BY <1>1, <1>2, <3>1
      <3>3. g.levels[x] \in Nat
        BY <1>3, <3>2, UpperFacts
      <3>4. g.levels[x] >= top
        BY <1>3, <2>1, <3>1, <3>3
      <3> QED
        BY <1>2, <3>1, <3>2, <3>4 DEF Peers
    <2> HIDE DEF X
    <2> QED
      BY <2>3, <2>4
  <1>7. Down(g.maxLevel, level + 1) \in Seq(S)
    <2>1. g.maxLevel \in Int /\ level + 1 \in Nat
      BY <1>3, <1>4
    <2> QED
      BY <2>1, DownFacts, Zenon
  <1> HIDE DEF X, S
  <1>8. \A t \in X, c \in S : GreedyDescend(h, pos[idx], t, c) \in X
    BY <1>6, WalkStays
  <1>9. DescendAll(h, pos[idx], g.entry, Down(g.maxLevel, level + 1)) \in X
    BY <1>5, <1>7, <1>8, DescendAllStays
  <1> QED
    BY <1>9 DEF X

(* An insertion keeps the graph good. If the entry lacks layers, it is     *)
(* alone on the level where the linking begins, hence selected there and   *)
(* linked.                                                                 *)
LEMMA InsertedFacts ==
    ASSUME Vectors, NEW g, GoodGraph(g), Nodes(g) # {}, NEW idx, idx = g.inserted, idx < Count,
           NEW level \in Level, NEW r, r = Inserted(g, idx, level)
    PROVE  GoodGraph(r)
  <1> DEFINE h == Leveled(g, idx, level)
             top == IF level <= g.maxLevel THEN level ELSE g.maxLevel
             ep == DescendAll(h, pos[idx], g.entry, Down(g.maxLevel, level + 1))
             linked == LinkedFrom(h, ep, idx, top)
             e == g.entry
  <1>1. /\ idx \in Node /\ idx \notin Nodes(g) /\ Nodes(g) \in SUBSET Node
        /\ \A n \in Node \ Nodes(g) : g.levels[n] = 0
    BY NextNode DEF GoodGraph
  <1>2. /\ g \in Graphs /\ Placed(g) /\ e \in Nodes(g) /\ g.maxLevel = g.levels[e]
        /\ \A n \in Nodes(g) : g.levels[n] <= g.maxLevel
        /\ \A n \in Nodes(g) \ {e} : Len(g.upper[n]) = g.levels[n] /\ g.levels[n] <= Len(g.upper[e])
    BY DEF GoodGraph, EntryOf, Consistent
  <1>3. /\ e \in Node /\ e # idx /\ g.maxLevel \in Level /\ level \in Nat /\ g.maxLevel \in Nat
        /\ top \in Level /\ top \in Nat /\ top <= level /\ top <= g.maxLevel
    <2>1. e \in Node /\ e # idx
      BY <1>1, <1>2
    <2>2. g.maxLevel \in Level /\ level \in Nat /\ g.maxLevel \in Nat
      BY <1>2, <2>1, UpperFacts, ConstantFacts
    <2> QED
      BY <2>1, <2>2
  <1>4. /\ Consistent(h) /\ Nodes(h) = Nodes(g) \cup {idx} /\ h.upper = g.upper /\ h.inserted = idx + 1
        /\ h.entry = e /\ h.maxLevel = g.maxLevel
        /\ \A x \in Node : h.levels[x] = IF x = idx THEN level ELSE g.levels[x]
        /\ \A l \in Level : Unlinked(h, idx, l)
    BY LeveledFacts
  <1>5. Min({level, g.maxLevel}) = top
    BY <1>3, MinOfTwo
  <1>6. r = IF level > g.maxLevel THEN [linked EXCEPT !.entry = idx, !.maxLevel = level] ELSE linked
    <2> DEFINE below == LinkedFrom(h, ep, idx, Min({level, g.maxLevel}))
    <2>1. r = IF level > g.maxLevel THEN [below EXCEPT !.entry = idx, !.maxLevel = level] ELSE below
      BY Zenon DEF Inserted, DescendAll, ConnectAll, Leveled, LinkedFrom
    <2>2. below = linked
      BY <1>5
    <2> HIDE DEF below, linked
    <2> QED
      BY <2>1, <2>2
  <1>7. ep \in Peers(h, idx, top)
    BY <1>3, DescentFacts
  <1> HIDE DEF h, top, ep
  <1>8. /\ Consistent(linked) /\ SameHeader(h, linked) /\ Grown(h, linked)
        /\ Len(linked.upper[idx]) >= top
        /\ \A x : Peers(h, idx, top) = {x} => Len(linked.upper[x]) >= top
    <2>1. idx \in Nodes(h) /\ top <= h.levels[idx]
      BY <1>1, <1>3, <1>4
    <2>2. \A l \in Level : l <= top => Unlinked(h, idx, l)
      BY <1>4
    <2>3. linked = LinkedFrom(h, ep, idx, top)
      OBVIOUS
    <2> HIDE DEF linked
    <2> QED
      BY <1>3, <1>4, <1>7, <2>1, <2>2, <2>3, ConnectAllFacts
  <1> HIDE DEF linked, e
  <1>9. /\ linked \in Graphs /\ linked.levels = h.levels /\ linked.inserted = idx + 1
        /\ linked.entry = e /\ linked.maxLevel = g.maxLevel /\ Linked(linked) /\ Placed(linked)
    BY <1>4, <1>8 DEF Consistent, SameHeader
  <1>10. /\ r \in Graphs /\ r.levels = h.levels /\ r.inserted = idx + 1
         /\ r.layer0 = linked.layer0 /\ r.upper = linked.upper
         /\ level > g.maxLevel => r.entry = idx /\ r.maxLevel = level
         /\ ~(level > g.maxLevel) => r.entry = e /\ r.maxLevel = g.maxLevel
    <2>1. level \in -1 .. MaxLevel
      BY <1>3, ConstantFacts DEF Level
    <2> QED
      BY <1>1, <1>6, <1>9, <2>1 DEF Graphs
  <1>11. Nodes(r) = Nodes(g) \cup {idx}
    BY <1>4, <1>10 DEF Nodes
  <1>12. Consistent(r)
    <2>1. \A n \in Node, l \in Level : Links(r, n, l) = Links(linked, n, l)
      BY <1>9, <1>10 DEF Links
    <2>2. \A n, l : Peers(r, n, l) = Peers(linked, n, l) /\ Nodes(r) = Nodes(linked)
      BY <1>9, <1>10 DEF Peers, Nodes
    <2>3. Linked(r)
      BY <1>9, <2>1, <2>2 DEF Linked
    <2>4. Placed(r)
      BY <1>9, <1>10 DEF Placed
    <2> QED
      BY <1>10, <2>3, <2>4 DEF Consistent
  <1>13. \A x \in Node : /\ Len(g.upper[x]) \in Nat /\ Len(r.upper[x]) \in Nat /\ g.levels[x] \in Nat
                         /\ r.levels[x] = IF x = idx THEN level ELSE g.levels[x]
                         /\ Len(g.upper[x]) <= Len(r.upper[x]) /\ Len(r.upper[x]) <= r.levels[x]
    <2> TAKE x \in Node
    <2>1. Len(g.upper[x]) \in Nat /\ Len(r.upper[x]) \in Nat /\ g.levels[x] \in Nat
      BY <1>2, <1>10, UpperFacts
    <2>2. r.levels[x] = IF x = idx THEN level ELSE g.levels[x]
      BY <1>4, <1>10
    <2>3. Len(g.upper[x]) <= Len(r.upper[x])
      BY <1>4, <1>8, <1>10 DEF Grown
    <2>4. Len(r.upper[x]) <= r.levels[x]
      BY <1>12 DEF Consistent, Placed
    <2> QED
      BY <2>1, <2>2, <2>3, <2>4
  (* Only the entry can be short; then it alone has the level top.         *)
  <1>14. Len(r.upper[e]) >= top
    <2>1. CASE Len(g.upper[e]) >= top
      <3> DEFINE a == Len(g.upper[e])
                 b == Len(r.upper[e])
      <3>1. a \in Nat /\ b \in Nat /\ a <= b /\ a >= top
        BY <1>3, <1>13, <2>1
      <3> HIDE DEF a, b
      <3>2. b >= top
        BY <1>3, <3>1
      <3> QED
        BY <3>2 DEF b
    <2>2. CASE ~(Len(g.upper[e]) >= top)
      <3>1. ASSUME NEW x \in Peers(h, idx, top) PROVE x = e
        <4>1. x \in Nodes(g) /\ x \in Node /\ x # idx /\ g.levels[x] >= top
          BY <1>1, <1>4 DEF Peers
        <4>2. x # e => g.levels[x] <= Len(g.upper[e])
          BY <1>2, <4>1
        <4>3. g.levels[x] \in Nat /\ Len(g.upper[e]) \in Nat
          BY <1>3, <1>13, <4>1
        <4> QED
          BY <1>3, <2>2, <4>1, <4>2, <4>3
      <3>2. Peers(h, idx, top) = {e}
        BY <1>7, <3>1
      <3> QED
        BY <1>8, <1>10, <3>2
    <2> QED
      BY <2>1, <2>2
  <1>15. Len(r.upper[idx]) >= top
    BY <1>8, <1>10
  <1>16. \A x \in Nodes(g) \ {e} : Len(r.upper[x]) = r.levels[x] /\ r.levels[x] = g.levels[x]
    <2> TAKE x \in Nodes(g) \ {e}
    <2> DEFINE a == Len(g.upper[x])
               b == Len(r.upper[x])
    <2>1. x \in Node /\ x # idx /\ a = g.levels[x]
      BY <1>1, <1>2
    <2>2. a \in Nat /\ b \in Nat /\ a <= b /\ b <= r.levels[x] /\ r.levels[x] = g.levels[x]
      BY <1>13, <2>1
    <2> HIDE DEF a, b
    <2>3. b = r.levels[x]
      BY <2>1, <2>2
    <2> QED
      BY <2>2, <2>3 DEF b
  <1>17. \A n \in Node \ Nodes(r) : r.levels[n] = 0
    BY <1>1, <1>11, <1>13
  <1>18. CASE level > g.maxLevel
    <2>1. r.entry = idx /\ r.maxLevel = level /\ top = g.maxLevel /\ r.levels[idx] = level
      BY <1>1, <1>3, <1>10, <1>13, <1>18 DEF top
    <2>2. ASSUME NEW n \in Nodes(g)
          PROVE  r.levels[n] <= level /\ Len(r.upper[n]) = r.levels[n] /\ r.levels[n] <= Len(r.upper[idx])
      <3>1. n \in Node /\ n # idx
        BY <1>1
      <3>2. r.levels[n] = g.levels[n] /\ g.levels[n] \in Nat /\ g.levels[n] <= g.maxLevel
        BY <1>2, <1>13, <3>1
      <3>3. Len(r.upper[n]) = r.levels[n]
        <4>1. n = e => Len(r.upper[n]) \in Nat /\ Len(r.upper[n]) >= r.levels[n] /\ Len(r.upper[n]) <= r.levels[n]
          BY <1>2, <1>13, <1>14, <2>1, <3>1, <3>2
        <4>2. n = e => Len(r.upper[n]) = r.levels[n]
          BY <3>2, <4>1
        <4> QED
          BY <1>16, <4>2
      <3>4. Len(r.upper[idx]) \in Nat
        BY <1>1, <1>13
      <3> QED
        BY <1>3, <1>15, <1>18, <2>1, <3>2, <3>3, <3>4
    <2>3. EntryOf(r)
      BY <1>3, <1>11, <2>1, <2>2 DEF EntryOf
    <2> QED
      BY <1>12, <1>17, <2>3 DEF GoodGraph
  <1>19. CASE ~(level > g.maxLevel)
    <2>1. /\ r.entry = e /\ r.maxLevel = g.maxLevel /\ top = level /\ r.levels[idx] = level
          /\ r.levels[e] = g.maxLevel
      BY <1>1, <1>2, <1>3, <1>10, <1>13, <1>19 DEF top
    <2>2. ASSUME NEW n \in Nodes(g) \ {e}
          PROVE  Len(r.upper[n]) = r.levels[n] /\ r.levels[n] <= Len(r.upper[e]) /\ r.levels[n] <= g.maxLevel
      <3> DEFINE a == Len(g.upper[e])
                 b == Len(r.upper[e])
      <3>1. Len(r.upper[n]) = r.levels[n] /\ r.levels[n] = g.levels[n] /\ n \in Node
        BY <1>1, <1>16
      <3>2. g.levels[n] <= a /\ g.levels[n] <= g.maxLevel /\ g.levels[n] \in Nat
        BY <1>2, <1>13, <3>1
      <3>3. a \in Nat /\ b \in Nat /\ a <= b
        BY <1>3, <1>13
      <3> HIDE DEF a, b
      <3>4. g.levels[n] <= b
        BY <3>2, <3>3
      <3> QED
        BY <3>1, <3>2, <3>4 DEF b
    <2>3. Len(r.upper[idx]) = level /\ level <= Len(r.upper[e]) /\ level <= g.maxLevel
      <3> DEFINE a == Len(r.upper[idx])
                 b == Len(r.upper[e])
      <3>1. a \in Nat /\ b \in Nat /\ a >= level /\ a <= level /\ b >= level
        BY <1>1, <1>3, <1>13, <1>14, <1>15, <2>1
      <3> HIDE DEF a, b
      <3>2. a = level /\ level <= b /\ level <= g.maxLevel
        BY <1>3, <1>19, <3>1
      <3> QED
        BY <3>2 DEF a, b
    <2>4. EntryOf(r)
      <3>1. Nodes(r) # {} /\ r.entry \in Nodes(r) /\ r.maxLevel = r.levels[r.entry]
        BY <1>2, <1>11, <2>1
      <3>2. \A n \in Nodes(r) : r.levels[n] <= r.maxLevel
        BY <1>3, <1>11, <2>1, <2>2, <2>3
      <3>3. \A n \in Nodes(r) \ {r.entry} : Len(r.upper[n]) = r.levels[n] /\ r.levels[n] <= Len(r.upper[r.entry])
        BY <1>11, <2>1, <2>2, <2>3
      <3> QED
        BY <3>1, <3>2, <3>3 DEF EntryOf
    <2> QED
      BY <1>12, <1>17, <2>4 DEF GoodGraph
  <1> QED
    BY <1>18, <1>19

-----------------------------------------------------------------------------
(* The invariant of the index, and what follows from it.                   *)

IndexInv == Vectors /\ GoodGraph(graph)

(* The empty graph is good.                                                *)
LEMMA IndexInit == Init => IndexInv
  <1> SUFFICES ASSUME Init PROVE IndexInv
    OBVIOUS
  <1> DEFINE g == EmptyGraph
  <1>1. /\ g.inserted = 0 /\ g.entry = EMPTY /\ g.maxLevel = -1
        /\ g.levels = [n \in Node |-> 0] /\ g.layer0 = [n \in Node |-> <<>>]
        /\ g.upper = [n \in Node |-> <<>>]
        /\ g = [inserted |-> g.inserted, entry |-> g.entry, maxLevel |-> g.maxLevel,
                levels |-> g.levels, layer0 |-> g.layer0, upper |-> g.upper]
    BY DEF EmptyGraph
  <1> HIDE DEF g
  <1>2. /\ g.levels \in [Node -> Level] /\ g.layer0 \in [Node -> Seq(Node)]
        /\ g.upper \in [Node -> Seq(Seq(Node))]
        /\ 0 \in 0 .. Count /\ EMPTY \in Node \cup {EMPTY} /\ -1 \in -1 .. MaxLevel
    BY <1>1, ConstantFacts, NoLinks DEF Level
  <1>3. g \in Graphs
    BY <1>1, <1>2 DEF Graphs
  <1>4. Nodes(g) = {}
    BY <1>1 DEF Nodes
  <1>5. \A n \in Node, l \in Level : Links(g, n, l) = <<>>
    <2> TAKE n \in Node, l \in Level
    <2>1. g.upper[n] = <<>> /\ g.layer0[n] = <<>> /\ DOMAIN g.upper[n] = {}
      BY <1>1
    <2> QED
      BY <2>1 DEF Links
  <1>6. Linked(g)
    <2>1. \A l : 0 <= MaxLinks(l)
      BY ConstantFacts
    <2> QED
      BY <1>5, <2>1, NoLinks DEF Linked
  <1>7. Placed(g)
    BY <1>1, NoLinks DEF Placed
  <1>8. EntryOf(g) /\ \A n \in Node \ Nodes(g) : g.levels[n] = 0
    BY <1>1, <1>4 DEF EntryOf
  <1>9. GoodGraph(g)
    BY <1>3, <1>6, <1>7, <1>8 DEF GoodGraph, Consistent
  <1> QED
    BY <1>9 DEF Init, IndexInv, Vectors, g

(* Every insertion keeps the invariant.                                    *)
LEMMA IndexStep == IndexInv /\ [Next]_vars => IndexInv'
  <1> SUFFICES ASSUME IndexInv, [Next]_vars PROVE IndexInv'
    OBVIOUS
  <1>1. Vectors /\ GoodGraph(graph)
    BY DEF IndexInv
  <1>2. CASE UNCHANGED vars
    BY <1>1, <1>2 DEF vars, IndexInv, Vectors
  <1>3. ASSUME NEW level \in 0 .. MaxLevel, Insert(level) PROVE IndexInv'
    <2> DEFINE g == graph
               idx == graph.inserted
               h == IF g.entry = EMPTY THEN FirstInserted(g, idx, level) ELSE Inserted(g, idx, level)
    <2>1. idx < Count /\ graph' = h /\ pos' = pos
      BY <1>3 DEF Insert
    <2>2. level \in Level
      BY DEF Level
    <2>3. Nodes(g) = {} <=> g.entry = EMPTY
      <3>1. g.entry \in Nodes(g) => g.entry # EMPTY
        BY DEF Nodes, EMPTY
      <3> QED
        BY <1>1, <3>1 DEF GoodGraph, EntryOf
    <2>4. GoodGraph(h)
      <3>1. Nodes(g) = {} => GoodGraph(FirstInserted(g, idx, level))
        BY <1>1, <2>1, <2>2, FirstInsertedFacts
      <3>2. Nodes(g) # {} => GoodGraph(Inserted(g, idx, level))
        BY <1>1, <2>1, <2>2, InsertedFacts
      <3> QED
        BY <2>3, <3>1, <3>2
    <2> HIDE DEF h
    <2> QED
      BY <1>1, <2>1, <2>4 DEF IndexInv, Vectors
  <1> QED
    BY <1>2, <1>3 DEF Next

(* The invariant holds always.                                             *)
LEMMA IndexInvariance == Spec => []IndexInv
  BY IndexInit, IndexStep, PTL DEF Spec

(* The types, and that no node has more links than a node may have: M0 in  *)
(* layer 0 and M above, however often its links were chosen again.         *)
THEOREM IndexTypes == Spec => []TypeOK
  <1>1. IndexInv => TypeOK
    <2> SUFFICES ASSUME IndexInv PROVE TypeOK
      OBVIOUS
    <2>1. Vectors /\ graph \in Graphs /\ Linked(graph) /\ Placed(graph)
      BY DEF IndexInv, GoodGraph, Consistent
    <2>2. graph.inserted \in 0 .. Count /\ graph.levels \in [Node -> 0 .. MaxLevel]
      BY <2>1 DEF Graphs, Level
    <2>3. ASSUME NEW n \in Node PROVE Len(graph.layer0[n]) <= M0
      <3>1. 0 \in Level
        BY ConstantFacts DEF Level
      <3> QED
        BY <2>1, <3>1 DEF Linked, Links, MaxLinks
    <2>4. ASSUME NEW n \in Node, NEW l \in DOMAIN graph.upper[n] PROVE Len(graph.upper[n][l]) <= M
      <3> DEFINE layers == graph.upper[n]
      <3>1. layers \in Seq(Seq(Node)) /\ Len(layers) <= graph.levels[n]
        BY <2>1 DEF Graphs, Placed
      <3>2. Len(layers) \in Nat /\ graph.levels[n] \in Level /\ graph.levels[n] \in Nat
        BY <2>1, UpperFacts
      <3>3. l \in DOMAIN layers /\ DOMAIN layers = 1 .. Len(layers)
        BY <3>1
      <3> HIDE DEF layers
      <3>4. l \in Level /\ l # 0 /\ l <= graph.levels[n]
        BY <3>1, <3>2, <3>3, ConstantFacts DEF Level
      <3>5. Links(graph, n, l) = layers[l]
        BY <3>3, <3>4 DEF Links, layers
      <3>6. Len(Links(graph, n, l)) <= MaxLinks(l)
        BY <2>1, <3>4 DEF Linked
      <3> QED
        BY <3>4, <3>5, <3>6 DEF MaxLinks, layers
    <2> QED
      BY <2>1, <2>2, <2>3, <2>4 DEF TypeOK, Vectors
  <1> QED
    BY <1>1, IndexInvariance, PTL

(* At each level a node links to inserted nodes of that level, each once   *)
(* and never to itself, and the entry is a node of the highest level.      *)
THEOREM GraphStaysLayered == Spec => []GraphIsLayered
  <1>1. IndexInv => GraphIsLayered
    <2> SUFFICES ASSUME IndexInv PROVE GraphIsLayered
      OBVIOUS
    <2>1. graph \in Graphs /\ Linked(graph) /\ EntryOf(graph) /\ Present = Nodes(graph)
      BY DEF IndexInv, GoodGraph, Consistent, Present, Nodes
    <2>2. Present \in SUBSET Node
      BY <2>1, NodesFacts
    <2>3. ASSUME NEW n \in Node, NEW level \in 0 .. MaxLevel
          PROVE  /\ Links(graph, n, level) # <<>> => n \in Present
                 /\ IsInjective(Links(graph, n, level))
                 /\ ToSet(Links(graph, n, level)) \subseteq {x \in Present \ {n} : graph.levels[x] >= level}
      <3> DEFINE L == Links(graph, n, level)
      <3>1. level \in Level
        BY DEF Level
      <3>2. /\ L \in Seq(Peers(graph, n, level)) /\ IsInjective(L)
            /\ L # <<>> => n \in Nodes(graph)
        BY <2>1, <3>1 DEF Linked
      <3> HIDE DEF L
      <3>3. \A i \in DOMAIN L : L[i] \in Peers(graph, n, level)
        BY <3>2
      <3>4. ToSet(L) \subseteq {x \in Present \ {n} : graph.levels[x] >= level}
        BY <2>1, <3>3 DEF ToSet, Peers
      <3> QED
        BY <2>1, <3>2, <3>4 DEF L
    <2>4. CASE Present = {}
      <3>1. graph.entry = EMPTY
        BY <2>1, <2>4 DEF EntryOf
      <3> QED
        BY <2>3, <2>4, <3>1 DEF GraphIsLayered
    <2>5. CASE Present # {}
      <3> DEFINE T == {graph.levels[n] : n \in Present}
      <3>1. /\ graph.entry \in Present /\ graph.maxLevel = graph.levels[graph.entry]
            /\ \A n \in Present : graph.levels[n] <= graph.maxLevel
        BY <2>1, <2>5 DEF EntryOf
      <3>2. T \in SUBSET Nat
        BY <2>1, <2>2, UpperFacts
      <3>3. graph.maxLevel \in T /\ \A t \in T : t <= graph.maxLevel
        BY <3>1
      <3> HIDE DEF T
      <3>4. Max(T) = graph.maxLevel
        BY <3>2, <3>3, MaxIs
      <3> QED
        BY <2>3, <2>5, <3>1, <3>4 DEF GraphIsLayered, T
    <2> QED
      BY <2>4, <2>5
  <1> QED
    BY <1>1, IndexInvariance, PTL

(* Only the entry can lack a place for the links of a level it was given.  *)
THEOREM OnlyTheEntryStaysShort == Spec => []OnlyTheEntryIsShort
  <1>1. IndexInv => OnlyTheEntryIsShort
    BY DEF IndexInv, GoodGraph, EntryOf, OnlyTheEntryIsShort, Present, Nodes
  <1> QED
    BY <1>1, IndexInvariance, PTL

-----------------------------------------------------------------------------
(* What a search can reach: after Count rounds there is nothing to add.    *)

LEMMA ListIn ==
    ASSUME NEW S, NEW L \in Seq(S), NEW X, ToSet(L) \subseteq X
    PROVE  L \in Seq(X)
  <1>1. Len(L) \in Nat /\ L \in [1 .. Len(L) -> S] /\ DOMAIN L = 1 .. Len(L)
    OBVIOUS
  <1>2. \A i \in 1 .. Len(L) : L[i] \in X
    BY <1>1 DEF ToSet
  <1>3. L \in [1 .. Len(L) -> X]
    BY <1>1, <1>2
  <1> QED
    BY <1>1, <1>3

LEMMA ListOf ==
    ASSUME NEW S, NEW L \in Seq(S)
    PROVE  ToSet(L) \in SUBSET S
  <1>1. \A i \in DOMAIN L : L[i] \in S
    OBVIOUS
  <1> QED
    BY <1>1 DEF ToSet

LEMMA NodeCount ==
    ASSUME Vectors
    PROVE  Count \in Nat /\ IsFiniteSet(Node) /\ Cardinality(Node) = Count
  <1>1. Count \in Nat /\ IsFiniteSet(Node)
    BY NodeFacts
  <1>2. 0 \in Int /\ Count - 1 \in Int /\ (IF 0 > Count - 1 THEN 0 ELSE Count - 1 - 0 + 1) = Count
    BY <1>1
  <1> QED
    BY <1>1, <1>2, FS_Interval DEF Node

(* Each round adds a node or is the last one that could.                   *)
LEMMA ReachableFacts ==
    ASSUME Vectors, Closed(graph, Node, 0), NEW e \in Node
    PROVE  /\ ReachableFrom(e) \in SUBSET Node /\ e \in ReachableFrom(e)
           /\ Closed(graph, ReachableFrom(e), 0)
           /\ \A V \in SUBSET Node :
                e \in V /\ (\A x \in V : ToSet(Links(graph, x, 0)) \subseteq V)
                  => ReachableFrom(e) \subseteq V
  <1> DEFINE Out(x) == ToSet(Links(graph, x, 0))
             T == SUBSET Node
  <1>1. Count \in Nat /\ IsFiniteSet(Node) /\ Cardinality(Node) = Count
    BY NodeCount
  <1>2. \A x \in Node : Out(x) \in SUBSET Node
    BY ListOf DEF Closed
  <1>3. \A S \in T : Further(S) \in T /\ S \subseteq Further(S) /\ \A x \in S : Out(x) \subseteq Further(S)
    BY <1>2 DEF Further
  <1>4. Rounds \in Seq(1 .. Count) /\ Len(Rounds) = Count
    BY <1>1 DEF Rounds
  <1> HIDE DEF T, Out
  <1>5. {e} \in T
    BY DEF T
  <1>6. \A S \in T, c \in 1 .. Count : Further(S) \in T
    BY <1>3
  <1>7. PICK R : IsFurtherAllRun(R, {e}, Rounds, T)
    BY <1>4, <1>5, <1>6, FurtherAllRun
  <1>8. /\ \A k \in 0 .. Count : R[k] \in T
        /\ R[0] = {e} /\ R[Count] = ReachableFrom(e)
        /\ \A k \in 0 .. Count - 1 : R[k + 1] = Further(R[k])
    <2>1. /\ R \in [0 .. Count -> T] /\ R[0] = {e} /\ R[Count] = FurtherAll({e}, Rounds)
          /\ \A k \in 1 .. Count : R[k] = Further(R[k - 1])
      BY <1>4, <1>7 DEF IsFurtherAllRun
    <2>2. FurtherAll({e}, Rounds) = ReachableFrom(e)
      BY DEF FurtherAll, ReachableFrom
    <2>3. ASSUME NEW k \in 0 .. Count - 1 PROVE R[k + 1] = Further(R[k])
      <3>1. k + 1 \in 1 .. Count /\ k + 1 - 1 = k
        BY <1>1
      <3> QED
        BY <2>1, <3>1
    <2> QED
      BY <2>1, <2>2, <2>3
  <1> DEFINE Grows == {k \in 0 .. Count : e \in R[k] /\ (Further(R[k]) = R[k] \/ Cardinality(R[k]) >= k + 1)}
  <1>9. 0 \in Grows
    <2>1. Cardinality({e}) = 1
      BY FS_Singleton
    <2> QED
      BY <1>1, <1>8, <2>1
  <1>10. ASSUME NEW k \in 0 .. Count - 1, k \in Grows PROVE k + 1 \in Grows
    <2>1. k \in 0 .. Count /\ k + 1 \in 0 .. Count /\ k \in Nat
      BY <1>1
    <2>2. R[k] \in T /\ R[k + 1] \in T /\ R[k + 1] = Further(R[k]) /\ R[k] \subseteq R[k + 1]
      BY <1>3, <1>8, <2>1
    <2>3. CASE Further(R[k]) = R[k]
      BY <1>10, <2>1, <2>2, <2>3
    <2>4. CASE Further(R[k]) # R[k] /\ Cardinality(R[k]) >= k + 1
      <3>1. /\ IsFiniteSet(R[k + 1]) /\ Cardinality(R[k + 1]) \in Nat /\ Cardinality(R[k]) \in Nat
        BY <1>1, <2>2, FS_Subset, FS_CardinalityType DEF T
      <3>2. R[k] \in SUBSET R[k + 1] /\ R[k + 1] # R[k]
        BY <2>2, <2>4
      <3>3. Cardinality(R[k]) <= Cardinality(R[k + 1]) /\ Cardinality(R[k + 1]) # Cardinality(R[k])
        BY <3>1, <3>2, FS_Subset
      <3>4. Cardinality(R[k + 1]) >= k + 1 + 1
        BY <2>1, <2>4, <3>1, <3>3
      <3> QED
        BY <1>10, <2>1, <2>2, <3>4
    <2> QED
      BY <1>10, <2>3, <2>4
  <1>11. Count \in Grows
    <2>1. \A k \in 0 .. Count : k \in Grows
      <3> HIDE DEF Grows
      <3> QED
        BY <1>1, <1>9, <1>10, LoopInduction
    <2> QED
      BY <1>1, <2>1
  <1> DEFINE X == ReachableFrom(e)
  <1>12. X \in SUBSET Node /\ e \in X
    BY <1>1, <1>8, <1>11 DEF T
  <1>13. Further(X) = X
    <2>1. Cardinality(X) \in Nat /\ Cardinality(X) <= Count
      <3> HIDE DEF X
      <3> QED
        BY <1>1, <1>12, FS_Subset, FS_CardinalityType
    <2>2. ~(Cardinality(X) >= Count + 1)
      BY <1>1, <2>1
    <2> QED
      BY <1>8, <1>11, <2>2
  <1> HIDE DEF X
  <1>14. Closed(graph, X, 0)
    <2> SUFFICES ASSUME NEW x \in X PROVE Links(graph, x, 0) \in Seq(X)
      BY DEF Closed
    <2>1. Links(graph, x, 0) \in Seq(Node)
      BY <1>12 DEF Closed
    <2>2. Out(x) \subseteq X
      BY <1>3, <1>12, <1>13 DEF T
    <2> QED
      BY <2>1, <2>2, ListIn DEF Out
  <1>15. ASSUME NEW V \in SUBSET Node, e \in V, \A x \in V : Out(x) \subseteq V
         PROVE  X \subseteq V
    <2> DEFINE Inside == {k \in 0 .. Count : R[k] \subseteq V}
    <2>1. 0 \in Inside
      BY <1>1, <1>8, <1>15
    <2>2. ASSUME NEW k \in 0 .. Count - 1, k \in Inside PROVE k + 1 \in Inside
      <3>1. k + 1 \in 0 .. Count /\ R[k + 1] = Further(R[k]) /\ R[k] \subseteq V
        BY <1>1, <1>8, <2>2
      <3>2. Further(R[k]) \subseteq V
        BY <1>15, <3>1 DEF Further, Out
      <3> QED
        BY <3>1, <3>2
    <2> HIDE DEF Inside
    <2>3. Count \in Inside
      BY <1>1, <2>1, <2>2, LoopInduction
    <2> QED
      BY <1>8, <2>3 DEF Inside, X
  <1> QED
    BY <1>12, <1>14, <1>15 DEF X, Out

-----------------------------------------------------------------------------
(* A search finds all that it can reach, unless it finds ef nodes.         *)

(* The searches of X that have visited V.                                  *)
Searching(X, V, pass, ef) ==
    {s \in [visited : SUBSET X, cand : SUBSET X, res : SUBSET X] :
       /\ V \subseteq s.visited /\ s.cand \subseteq s.visited
       /\ s.res \subseteq pass \cap s.visited /\ Cardinality(s.res) <= ef}

(* A search whose heap of results was never full: what has passed is in    *)
(* it, and the nodes of D are those whose links were followed.             *)
Complete(s, pass, D) == s.res = pass \cap s.visited /\ s.visited \ s.cand = D

(* There is a farthest one in the heap.                                    *)
LEMMA FarthestExists ==
    ASSUME Vectors, NEW q \in Int, NEW S \in SUBSET Node, S # {}
    PROVE  \E w \in S : \A x \in S : x = w \/ Nearer(q, x, w)
  <1> DEFINE L == Sorted(q, S)
             n == Cardinality(S)
  <1>1. IsListing(L, S, NearerPairs(q, S))
    BY SortedLists
  <1> HIDE DEF L, n
  <1>2. n \in Nat /\ L \in [1 .. n -> S] /\ \A x \in S : \E k \in 1 .. n : L[k] = x
    BY <1>1 DEF IsListing, n
  <1>3. \A i, j \in 1 .. n : i < j => <<L[i], L[j]>> \in NearerPairs(q, S)
    BY <1>1 DEF IsListing, n
  <1>4. n \in 1 .. n /\ L[n] \in S
    BY <1>2
  <1>5. ASSUME NEW x \in S PROVE x = L[n] \/ Nearer(q, x, L[n])
    <2>1. PICK k \in 1 .. n : L[k] = x
      BY <1>2
    <2>2. k = n \/ k < n
      BY <1>2
    <2>3. k < n => <<L[k], L[n]>> \in NearerPairs(q, S)
      BY <1>3, <1>4
    <2> QED
      BY <2>1, <2>2, <2>3 DEF NearerPairs
  <1> QED
    BY <1>4, <1>5

(* push_result fills the heap up and keeps it full.                        *)
LEMMA PushKeeps ==
    ASSUME Vectors, NEW q \in Int, NEW res \in SUBSET Node, NEW n \in Node, n \notin res,
           NEW ef \in Nat \ {0}, Cardinality(res) <= ef,
           NEW r, r = PushResult(q, res, n, ef)
    PROVE  /\ r \subseteq res \cup {n} /\ Cardinality(r) <= ef
           /\ Cardinality(res) = ef => Cardinality(r) = ef
           /\ Cardinality(res) # ef => r = res \cup {n}
  <1>1. IsFiniteSet(res) /\ Cardinality(res) \in Nat
    BY NodeFacts, FS_Subset, FS_CardinalityType
  <1>2. CASE Cardinality(res) # ef
    <2>1. r = res \cup {n}
      BY <1>1, <1>2 DEF PushResult
    <2>2. Cardinality(res \cup {n}) = Cardinality(res) + 1
      BY <1>1, FS_AddElement
    <2> QED
      BY <1>1, <1>2, <2>1, <2>2
  <1>3. CASE Cardinality(res) = ef
    <2> DEFINE w == CHOOSE w \in res : \A x \in res : x = w \/ Nearer(q, x, w)
               left == res \ {w}
    <2>1. res # {}
      BY <1>1, <1>3, FS_EmptySet
    <2>2. \E x \in res : \A y \in res : y = x \/ Nearer(q, y, x)
      BY <2>1, FarthestExists
    <2>3. w \in res
      BY <2>2, Zenon
    <2>0. PushResult(q, res, n, ef) =
            IF Cardinality(res) < ef THEN res \cup {n}
            ELSE IF Key(q, pos[n]) < Key(q, pos[w]) THEN left \cup {n} ELSE res
      BY Zenon DEF PushResult
    <2> HIDE DEF w, left
    <2>4. r = res \/ r = left \cup {n}
      BY <1>1, <1>3, <2>0
    <2> USE DEF left
    <2>5. IsFiniteSet(left) /\ Cardinality(left) = Cardinality(res) - 1
      BY <1>1, <2>3, FS_RemoveElement
    <2>6. n \notin left
      OBVIOUS
    <2> HIDE DEF left
    <2>7. Cardinality(left \cup {n}) = Cardinality(left) + 1
      BY <2>5, <2>6, FS_AddElement
    <2> QED
      BY <1>1, <1>3, <2>4, <2>5, <2>7 DEF left
  <1> QED
    BY <1>2, <1>3

(* A visit keeps a full heap full, and a search complete.                  *)
Visits(s, t, n, ef, pass) ==
    /\ s.visited \subseteq t.visited /\ n \in t.visited
    /\ Cardinality(s.res) = ef => Cardinality(t.res) = ef
    /\ \A D : Cardinality(s.res) # ef /\ Complete(s, pass, D) => Complete(t, pass, D)

LEMMA VisitKeeps ==
    ASSUME Vectors, NEW X \in SUBSET Node, NEW V, NEW pass, NEW ef \in Nat \ {0},
           NEW s \in Searching(X, V, pass, ef), NEW q \in Int, NEW n \in X
    PROVE  /\ Visit(q, s, n, ef, pass) \in Searching(X, V, pass, ef)
           /\ Visits(s, Visit(q, s, n, ef, pass), n, ef, pass)
           /\ VisitNeighbour(q, s, n, ef, pass) \in Searching(X, V, pass, ef)
           /\ Visits(s, VisitNeighbour(q, s, n, ef, pass), n, ef, pass)
  <1> SUFFICES ASSUME NEW t, t = Visit(q, s, n, ef, pass) \/ t = VisitNeighbour(q, s, n, ef, pass)
               PROVE  t \in Searching(X, V, pass, ef) /\ Visits(s, t, n, ef, pass)
    OBVIOUS
  <1>1. /\ s \in [visited : SUBSET X, cand : SUBSET X, res : SUBSET X]
        /\ V \subseteq s.visited /\ s.cand \subseteq s.visited
        /\ s.res \subseteq pass \cap s.visited /\ Cardinality(s.res) <= ef
    BY DEF Searching
  <1> DEFINE r == Offered(q, s.res, n, ef, pass)
             new == [visited |-> s.visited \cup {n}, cand |-> s.cand \cup {n}, res |-> r]
             in_vain == [s EXCEPT !.visited = @ \cup {n}]
  <1>2. ASSUME n \notin s.visited
        PROVE  /\ r \subseteq s.res \cup (pass \cap {n}) /\ Cardinality(r) <= ef
               /\ Cardinality(s.res) = ef => Cardinality(r) = ef
               /\ Cardinality(s.res) # ef => r = s.res \cup (pass \cap {n})
    <2>1. n \notin s.res /\ s.res \in SUBSET Node /\ n \in Node
      BY <1>1, <1>2
    <2> DEFINE p == PushResult(q, s.res, n, ef)
    <2>2. /\ p \subseteq s.res \cup {n} /\ Cardinality(p) <= ef
          /\ Cardinality(s.res) = ef => Cardinality(p) = ef
          /\ Cardinality(s.res) # ef => p = s.res \cup {n}
      BY <1>1, <2>1, PushKeeps
    <2> HIDE DEF p
    <2>3. r = IF n \in pass THEN p ELSE s.res
      BY DEF Offered, p
    <2> QED
      BY <1>1, <2>2, <2>3
  <1> HIDE DEF r
  <1>3. Visit(q, s, n, ef, pass) = IF n \in s.visited THEN s ELSE new
    BY Zenon DEF Visit, r
  <1>4. \/ t = s /\ n \in s.visited
        \/ t = new /\ n \notin s.visited
        \/ t = in_vain /\ n \notin s.visited /\ Cardinality(s.res) = ef
    <2>1. VisitNeighbour(q, s, n, ef, pass) =
            IF n \notin s.visited /\ Cardinality(s.res) = ef /\ \A x \in s.res : Key(q, pos[n]) >= Key(q, pos[x])
              THEN in_vain ELSE Visit(q, s, n, ef, pass)
      BY Zenon DEF VisitNeighbour
    <2> HIDE DEF new, in_vain
    <2> QED
      BY <1>3, <2>1
  <1>5. CASE t = s /\ n \in s.visited
    BY <1>5 DEF Visits
  <1>6. CASE t = new /\ n \notin s.visited
    <2>1. t \in [visited : SUBSET X, cand : SUBSET X, res : SUBSET X]
      BY <1>1, <1>2, <1>6
    <2>2. t.visited = s.visited \cup {n} /\ t.cand = s.cand \cup {n} /\ t.res = r
      BY <1>6
    <2> HIDE DEF new
    <2>3. t \in Searching(X, V, pass, ef)
      BY <1>1, <1>2, <1>6, <2>1, <2>2 DEF Searching
    <2>4. ASSUME NEW D, Cardinality(s.res) # ef, Complete(s, pass, D) PROVE Complete(t, pass, D)
      BY <1>1, <1>2, <1>6, <2>2, <2>4 DEF Complete
    <2> QED
      BY <1>2, <1>6, <2>2, <2>3, <2>4 DEF Visits
  <1>7. CASE t = in_vain /\ n \notin s.visited /\ Cardinality(s.res) = ef
    <2>1. /\ t \in [visited : SUBSET X, cand : SUBSET X, res : SUBSET X]
          /\ t.visited = s.visited \cup {n} /\ t.cand = s.cand /\ t.res = s.res
      BY <1>1, <1>7
    <2> HIDE DEF in_vain
    <2>2. t \in Searching(X, V, pass, ef)
      BY <1>1, <2>1 DEF Searching
    <2> QED
      BY <1>7, <2>1, <2>2 DEF Visits
  <1> QED
    BY <1>4, <1>5, <1>6, <1>7

(* A round follows the links of one more node.                             *)
Expands(g, X, s, t, ef, level, pass) ==
    /\ s.visited \subseteq t.visited
    /\ Cardinality(s.res) = ef => Cardinality(t.res) = ef
    /\ s.cand = {} => t = s
    /\ \A D : /\ Cardinality(t.res) # ef /\ s.cand # {} /\ Complete(s, pass, D)
              => \E n \in X \ D : /\ Complete(t, pass, D \cup {n})
                                  /\ ToSet(Links(g, n, level)) \subseteq t.visited

LEMMA ExpandKeeps ==
    ASSUME Vectors, NEW X \in SUBSET Node, NEW V, NEW pass, NEW ef \in Nat \ {0},
           NEW s \in Searching(X, V, pass, ef), NEW q \in Int, NEW g, NEW level, Closed(g, X, level)
    PROVE  /\ Expand(g, q, s, ef, level, pass) \in Searching(X, V, pass, ef)
           /\ Expands(g, X, s, Expand(g, q, s, ef, level, pass), ef, level, pass)
  <1> SUFFICES ASSUME NEW t, t = Expand(g, q, s, ef, level, pass)
               PROVE  t \in Searching(X, V, pass, ef) /\ Expands(g, X, s, t, ef, level, pass)
    OBVIOUS
  <1> DEFINE T == Searching(X, V, pass, ef)
             n == CHOOSE c \in s.cand : \A x \in s.cand : x = c \/ Nearer(q, c, x)
             b == [s EXCEPT !.cand = @ \ {n}]
             L == Links(g, n, level)
  <1>1. /\ s \in [visited : SUBSET X, cand : SUBSET X, res : SUBSET X]
        /\ V \subseteq s.visited /\ s.cand \subseteq s.visited
        /\ s.res \subseteq pass \cap s.visited /\ Cardinality(s.res) <= ef
    BY DEF Searching
  <1>2. CASE s.cand = {}
    BY <1>2 DEF Expand, Expands
  <1>3. CASE s.cand # {}
    <2>1. n \in s.cand
      <3>1. s.cand \in SUBSET Node
        BY <1>1
      <3>2. \E c \in s.cand : \A x \in s.cand : x = c \/ Nearer(q, c, x)
        BY <1>3, <3>1, NearestExists
      <3> QED
        BY <3>2, Zenon
    <2>2. \/ t = s /\ Cardinality(s.res) = ef
          \/ t = VisitAll(q, b, L, ef, pass)
      BY <1>3, Zenon DEF Expand, VisitAll
    <2> HIDE DEF n
    <2>3. b \in T /\ b.visited = s.visited /\ b.res = s.res /\ b.cand = s.cand \ {n}
      <3>1. /\ b \in [visited : SUBSET X, cand : SUBSET X, res : SUBSET X]
            /\ b.visited = s.visited /\ b.res = s.res /\ b.cand = s.cand \ {n}
        BY <1>1
      <3> HIDE DEF b
      <3> QED
        BY <1>1, <3>1 DEF Searching
    <2>4. L \in Seq(X)
      BY <1>1, <2>1 DEF Closed
    <2> HIDE DEF b, L, T
    <2>5. \A u \in T, x \in X : /\ VisitNeighbour(q, u, x, ef, pass) \in T
                                /\ Visits(u, VisitNeighbour(q, u, x, ef, pass), x, ef, pass)
      BY VisitKeeps DEF T
    <2>6. PICK R : IsVisitAllRun(R, q, ef, pass, b, L, T)
      BY <2>3, <2>4, <2>5, VisitAllRun
    <2>7. /\ Len(L) \in Nat /\ \A i \in 1 .. Len(L) : L[i] \in X
          /\ R \in [0 .. Len(L) -> T] /\ R[0] = b /\ R[Len(L)] = VisitAll(q, b, L, ef, pass)
          /\ \A k \in 1 .. Len(L) : R[k] = VisitNeighbour(q, R[k - 1], L[k], ef, pass)
      BY <2>4, <2>6 DEF IsVisitAllRun
    <2> DEFINE F == {D \in SUBSET X : Complete(b, pass, D)}
               State(k) == /\ s.visited \subseteq R[k].visited
                           /\ \A i \in 1 .. k : L[i] \in R[k].visited
                           /\ Cardinality(s.res) = ef => Cardinality(R[k].res) = ef
                           /\ Cardinality(R[k].res) # ef => \A D \in F : Complete(R[k], pass, D)
               Good == {k \in 0 .. Len(L) : State(k)}
    <2> HIDE DEF F
    <2>8. 0 \in Good
      BY <2>3, <2>7 DEF F
    <2>9. ASSUME NEW k \in 0 .. Len(L) - 1, k \in Good PROVE k + 1 \in Good
      <3> DEFINE u == R[k]
                 v == R[k + 1]
                 x == L[k + 1]
      <3>1. k + 1 \in 1 .. Len(L) /\ k + 1 - 1 = k /\ k \in 0 .. Len(L) /\ k + 1 \in 0 .. Len(L)
        BY <2>7
      <3>2. u \in T /\ x \in X /\ v = VisitNeighbour(q, u, x, ef, pass)
        BY <2>7, <3>1
      <3> HIDE DEF u, v, x
      <3>3. /\ u.visited \subseteq v.visited /\ x \in v.visited
            /\ Cardinality(u.res) = ef => Cardinality(v.res) = ef
            /\ \A D : Cardinality(u.res) # ef /\ Complete(u, pass, D) => Complete(v, pass, D)
        BY <2>5, <3>2 DEF Visits
      <3>4. State(k)
        BY <2>9
      <3>5. \A i \in 1 .. k + 1 : L[i] \in v.visited
        <4> TAKE i \in 1 .. k + 1
        <4>1. i \in 1 .. k \/ i = k + 1
          BY <3>1
        <4> QED
          BY <3>3, <3>4, <4>1 DEF u, x
      <3>6. State(k + 1)
        BY <3>3, <3>4, <3>5 DEF u, v
      <3> QED
        BY <3>1, <3>6
    <2>10. State(Len(L))
      <3>1. Len(L) \in Good
        <4> HIDE DEF Good
        <4>1. \A k \in 0 .. Len(L) : k \in Good
          BY <2>7, <2>8, <2>9, LoopInduction
        <4>2. Len(L) \in 0 .. Len(L)
          BY <2>7
        <4> QED
          BY <4>1, <4>2
      <3> QED
        BY <3>1
    <2> DEFINE r == R[Len(L)]
    <2>11. r \in T
      BY <2>7
    <2>12. ToSet(L) \subseteq r.visited
      <3>1. DOMAIN L = 1 .. Len(L)
        BY <2>4
      <3> QED
        BY <2>10, <3>1 DEF ToSet
    <2> HIDE DEF r
    <2>13. ASSUME NEW D, Cardinality(r.res) # ef, Complete(s, pass, D)
           PROVE  n \in X \ D /\ Complete(r, pass, D \cup {n})
      <3>1. D \cup {n} \in SUBSET X /\ n \in X \ D
        BY <1>1, <2>1, <2>13 DEF Complete
      <3>2. Complete(b, pass, D \cup {n})
        BY <1>1, <2>1, <2>3, <2>13 DEF Complete
      <3>3. D \cup {n} \in F
        BY <3>1, <3>2 DEF F
      <3> QED
        BY <2>10, <2>13, <3>1, <3>3 DEF r
    <2>14. CASE t = s /\ Cardinality(s.res) = ef
      BY <1>3, <2>14 DEF Expands
    <2>15. CASE t = r
      BY <1>3, <2>10, <2>11, <2>12, <2>13, <2>15 DEF r, L, T, Expands
    <2> QED
      BY <2>2, <2>7, <2>14, <2>15 DEF r
  <1> QED
    BY <1>2, <1>3

(* The search begins with the entry point.                                 *)
LEMMA BegunKeeps ==
    ASSUME Vectors, NEW X \in SUBSET Node, NEW e \in X, NEW pass, NEW ef \in Nat \ {0},
           NEW q \in Int, NEW b, b = Begun(q, <<e>>, ef, pass)
    PROVE  /\ b \in Searching(X, {e}, pass, ef)
           /\ Cardinality(b.res) # ef => Complete(b, pass, {})
  <1> DEFINE T == Searching(X, {}, pass, ef)
             none == [visited |-> {}, cand |-> {}, res |-> {}]
  <1>1. /\ none \in T /\ Complete(none, pass, {}) /\ Cardinality(none.res) # ef
    <2>1. Cardinality({}) = 0
      BY FS_EmptySet
    <2> QED
      BY <2>1 DEF Searching, Complete
  <1>2. <<e>> \in Seq(X) /\ Len(<<e>>) = 1
    OBVIOUS
  <1> HIDE DEF T, none
  <1>3. \A u \in T, x \in X : /\ Visit(q, u, x, ef, pass) \in T
                              /\ Visits(u, Visit(q, u, x, ef, pass), x, ef, pass)
    BY VisitKeeps DEF T
  <1>4. PICK R : IsVisitFirstRun(R, q, ef, pass, none, <<e>>, T)
    BY <1>1, <1>2, <1>3, VisitFirstRun
  <1>5. b = VisitFirst(q, none, <<e>>, ef, pass)
    BY DEF Begun, VisitFirst, none
  <1>6. b = Visit(q, none, e, ef, pass)
    <2>1. 1 \in 1 .. Len(<<e>>) /\ 1 - 1 = 0 /\ <<e>>[1] = e
      BY <1>2
    <2>2. R[0] = none /\ R[1] = Visit(q, R[1 - 1], <<e>>[1], ef, pass) /\ R[1] = b
      BY <1>2, <1>4, <1>5, <2>1 DEF IsVisitFirstRun
    <2> QED
      BY <2>1, <2>2
  <1>7. b \in T /\ Visits(none, b, e, ef, pass)
    BY <1>1, <1>3, <1>6
  <1>8. b \in Searching(X, {e}, pass, ef)
    BY <1>7 DEF T, Searching, Visits
  <1> QED
    BY <1>1, <1>7, <1>8 DEF Visits

(* A search that ends with fewer than ef results has found all that passes *)
(* of what it can reach: no candidate is left, or every node was one.      *)
LEMMA SearchFinds ==
    ASSUME Vectors, Closed(graph, Node, 0), NEW e \in Node, NEW q \in Int, NEW ef \in Nat \ {0},
           NEW pass, NEW r, r = Searched(graph, q, <<e>>, ef, 0, pass).res
    PROVE  /\ r \in SUBSET (pass \cap ReachableFrom(e)) /\ Cardinality(r) <= ef
           /\ Cardinality(r) # ef => r = pass \cap ReachableFrom(e)
  <1> DEFINE X == ReachableFrom(e)
             T == Searching(X, {e}, pass, ef)
             b == Begun(q, <<e>>, ef, pass)
             Out(n) == ToSet(Links(graph, n, 0))
  <1>1. /\ X \in SUBSET Node /\ e \in X /\ Closed(graph, X, 0)
        /\ \A V \in SUBSET Node : e \in V /\ (\A x \in V : Out(x) \subseteq V) => X \subseteq V
    BY ReachableFacts
  <1>2. Count \in Nat /\ IsFiniteSet(Node) /\ Cardinality(Node) = Count
    BY NodeCount
  <1> HIDE DEF X, Out
  <1>3. b \in T /\ (Cardinality(b.res) # ef => Complete(b, pass, {}))
    BY <1>1, BegunKeeps
  <1> HIDE DEF b, T
  <1>4. \A u \in T, c \in 1 .. Count :
          /\ Expand(graph, q, u, ef, 0, pass) \in T
          /\ Expands(graph, X, u, Expand(graph, q, u, ef, 0, pass), ef, 0, pass)
    BY <1>1, ExpandKeeps DEF T
  <1>5. Rounds \in Seq(1 .. Count) /\ Len(Rounds) = Count
    BY <1>2 DEF Rounds
  <1>6. PICK R : IsExpandAllRun(R, graph, q, ef, 0, pass, b, Rounds, T)
    BY <1>3, <1>4, <1>5, ExpandAllRun
  <1>7. /\ \A k \in 0 .. Count : R[k] \in T
        /\ R[0] = b /\ R[Count].res = r
        /\ \A k \in 0 .. Count - 1 : Expands(graph, X, R[k], R[k + 1], ef, 0, pass)
    <2>1. /\ R \in [0 .. Count -> T] /\ R[0] = b
          /\ R[Count] = ExpandAll(graph, q, b, ef, 0, pass, Rounds)
          /\ \A k \in 1 .. Count : R[k] = Expand(graph, q, R[k - 1], ef, 0, pass)
      BY <1>5, <1>6 DEF IsExpandAllRun
    <2>2. R[Count].res = r
      BY <2>1 DEF ExpandAll, Searched, b
    <2>3. ASSUME NEW k \in 0 .. Count - 1 PROVE Expands(graph, X, R[k], R[k + 1], ef, 0, pass)
      <3>1. k + 1 \in 1 .. Count /\ k + 1 - 1 = k /\ k \in 0 .. Count
        BY <1>2
      <3>2. R[k + 1] = Expand(graph, q, R[k], ef, 0, pass) /\ R[k] \in T
        BY <2>1, <3>1
      <3> QED
        BY <1>4, <3>1, <3>2
    <2> QED
      BY <2>1, <2>2, <2>3
  <1>8. \A s \in T : /\ s.visited \in SUBSET X /\ e \in s.visited /\ s.cand \subseteq s.visited
                     /\ s.res \subseteq pass \cap s.visited /\ Cardinality(s.res) <= ef
    BY DEF T, Searching
  <1> DEFINE Followed(s, D, k) == /\ Complete(s, pass, D) /\ \A n \in D : Out(n) \subseteq s.visited
                                  /\ s.cand = {} \/ Cardinality(D) >= k
             State(k) == Cardinality(R[k].res) = ef \/ \E D \in SUBSET X : Followed(R[k], D, k)
             Good == {k \in 0 .. Count : State(k)}
  <1>9. 0 \in Good
    <2>1. Cardinality({}) = 0 /\ {} \in SUBSET X
      BY FS_EmptySet
    <2>2. Cardinality(b.res) # ef => Followed(b, {}, 0)
      BY <1>3, <2>1
    <2> HIDE DEF Followed
    <2> QED
      BY <1>2, <1>7, <2>1, <2>2
  <1>10. ASSUME NEW k \in 0 .. Count - 1, k \in Good PROVE k + 1 \in Good
    <2> DEFINE s == R[k]
               t == R[k + 1]
    <2>1. k + 1 \in 0 .. Count /\ k \in 0 .. Count /\ k \in Nat
      BY <1>2
    <2>2. Expands(graph, X, s, t, ef, 0, pass) /\ s \in T /\ t \in T
      BY <1>7, <2>1
    <2> SUFFICES ASSUME Cardinality(t.res) # ef PROVE \E D \in SUBSET X : Followed(t, D, k + 1)
      BY <2>1
    <2> HIDE DEF s, t
    <2>3. PICK D \in SUBSET X : Followed(s, D, k)
      BY <1>10, <2>2 DEF Expands, s
    <2>4. CASE s.cand = {}
      <3>1. t = s
        BY <2>2, <2>4 DEF Expands
      <3> QED
        BY <2>3, <2>4, <3>1
    <2>5. CASE s.cand # {}
      <3>1. PICK n \in X \ D : Complete(t, pass, D \cup {n}) /\ Out(n) \subseteq t.visited
        BY <2>2, <2>3, <2>5 DEF Expands, Out
      <3>2. IsFiniteSet(D) /\ Cardinality(D \cup {n}) = Cardinality(D) + 1 /\ Cardinality(D) \in Nat
        <4>1. D \in SUBSET Node /\ n \notin D
          BY <1>1, <3>1
        <4>2. IsFiniteSet(D)
          BY <1>2, <4>1, FS_Subset
        <4> QED
          BY <4>1, <4>2, FS_AddElement, FS_CardinalityType
      <3>3. Cardinality(D \cup {n}) >= k + 1
        BY <2>1, <2>3, <2>5, <3>2
      <3>4. \A m \in D \cup {n} : Out(m) \subseteq t.visited
        BY <2>2, <2>3, <3>1 DEF Expands
      <3>5. D \cup {n} \in SUBSET X
        BY <3>1
      <3> QED
        BY <3>1, <3>3, <3>4, <3>5
    <2> QED
      BY <2>4, <2>5
  <1>11. State(Count)
    <2>1. \A k \in 0 .. Count : k \in Good
      <3> HIDE DEF Good
      <3> QED
        BY <1>2, <1>9, <1>10, LoopInduction
    <2>2. Count \in 0 .. Count
      BY <1>2
    <2> QED
      BY <2>1, <2>2
  <1> DEFINE s == R[Count]
  <1>12. s \in T /\ s.res = r
    BY <1>2, <1>7
  <1> HIDE DEF s
  <1>13. ASSUME NEW D \in SUBSET X, Followed(s, D, Count) PROVE s.visited = X
    <2>1. D = s.visited \ s.cand /\ s.visited \in SUBSET X /\ e \in s.visited
      BY <1>8, <1>12, <1>13 DEF Complete
    <2>2. CASE s.cand = {}
      <3>1. s.visited = D /\ s.visited \in SUBSET Node
        BY <1>1, <2>1, <2>2
      <3>2. X \subseteq s.visited
        BY <1>1, <1>13, <2>1, <3>1
      <3> QED
        BY <2>1, <3>2
    <2>3. CASE Cardinality(D) >= Count
      <3>1. D \in SUBSET Node
        BY <1>1
      <3>2. IsFiniteSet(D) /\ Cardinality(D) \in Nat /\ Cardinality(D) <= Count
        BY <1>2, <3>1, FS_Subset, FS_CardinalityType
      <3>3. Cardinality(D) = Cardinality(Node)
        BY <1>2, <2>3, <3>2
      <3>4. D = Node
        BY <1>2, <3>1, <3>3, FS_Subset
      <3> QED
        BY <1>1, <2>1, <3>4
    <2> QED
      BY <1>13, <2>2, <2>3
  <1>14. Cardinality(r) # ef => r = pass \cap X
    BY <1>11, <1>12, <1>13 DEF Complete, s
  <1> QED
    BY <1>8, <1>12, <1>14 DEF X

-----------------------------------------------------------------------------
(* A set has one listing, so the first of a sorted set are sorted.         *)
LEMMA BelowCounts ==
    ASSUME NEW S, IsFiniteSet(S), NEW R, IsOrder(R, S), NEW L, IsListing(L, S, R),
           NEW k \in 1 .. Cardinality(S)
    PROVE  L[k] \in S /\ Cardinality(Below(S, R, L[k])) = k - 1
  <1> DEFINE n == Cardinality(S)
             F == [j \in 1 .. k - 1 |-> L[j]]
             B == Below(S, R, L[k])
  <1>1. /\ n \in Nat /\ L \in [1 .. n -> S]
        /\ \A x \in S : \E j \in 1 .. n : L[j] = x
        /\ \A i, j \in 1 .. n : i < j <=> <<L[i], L[j]>> \in R
        /\ \A i, j \in 1 .. n : L[i] = L[j] => i = j
    BY ListingFacts DEF IsListing
  <1> HIDE DEF n
  <1>2. k \in Nat /\ \A j \in 1 .. k - 1 : j \in 1 .. n /\ j < k
    BY <1>1 DEF n
  <1>3. F \in [1 .. k - 1 -> B] /\ \A j \in 1 .. k - 1 : F[j] = L[j]
    BY <1>1, <1>2 DEF Below, n
  <1>4. \A y \in B : \E j \in 1 .. k - 1 : F[j] = y
    <2> TAKE y \in B
    <2>1. y \in S /\ <<y, L[k]>> \in R
      BY DEF Below
    <2>2. PICK j \in 1 .. n : L[j] = y
      BY <1>1, <2>1
    <2>3. j < k
      BY <1>1, <2>1, <2>2 DEF n
    <2>4. j \in 1 .. k - 1
      BY <1>1, <1>2, <2>2, <2>3
    <2> QED
      BY <1>3, <2>2, <2>4
  <1>5. \A i, j \in 1 .. k - 1 : F[i] = F[j] => i = j
    BY <1>1, <1>2, <1>3
  <1> HIDE DEF F, B
  <1>6. F \in Surjection(1 .. k - 1, B)
    BY <1>3, <1>4 DEF Surjection
  <1>7. F \in Injection(1 .. k - 1, B)
    BY <1>3, <1>5 DEF Injection, IsInjective
  <1>8. IsFiniteSet(1 .. k - 1) /\ Cardinality(1 .. k - 1) = k - 1
    <2>1. k - 1 \in Int /\ 1 \in Int /\ (IF 1 > k - 1 THEN 0 ELSE (k - 1) - 1 + 1) = k - 1
      BY <1>2
    <2> QED
      BY <2>1, FS_Interval
  <1>9. Cardinality(B) = k - 1
    BY <1>6, <1>7, <1>8, FS_Surjection
  <1> QED
    BY <1>1, <1>9 DEF B, n

LEMMA ListingsAgree ==
    ASSUME NEW S, IsFiniteSet(S), NEW R, IsOrder(R, S), NEW L, IsListing(L, S, R),
           NEW K, IsListing(K, S, R)
    PROVE  L = K
  <1>1. /\ L \in [1 .. Cardinality(S) -> S] /\ K \in [1 .. Cardinality(S) -> S]
    BY DEF IsListing
  <1>2. ASSUME NEW k \in 1 .. Cardinality(S) PROVE L[k] = K[k]
    <2> DEFINE x == L[k]
               y == K[k]
    <2>1. /\ x \in S /\ Cardinality(Below(S, R, x)) = k - 1
          /\ y \in S /\ Cardinality(Below(S, R, y)) = k - 1
      BY BelowCounts
    <2>2. k - 1 \in Int /\ ~(k - 1 < k - 1)
      <3>1. Cardinality(S) \in Nat
        BY FS_CardinalityType
      <3> QED
        BY <3>1
    <2> HIDE DEF x, y
    <2>3. ~(<<x, y>> \in R) /\ ~(<<y, x>> \in R)
      BY <2>1, <2>2, BelowGrows
    <2>4. x = y
      BY <2>1, <2>3 DEF IsOrder
    <2> QED
      BY <2>4 DEF x, y
  <1>3. /\ L = [k \in 1 .. Cardinality(S) |-> L[k]]
        /\ K = [k \in 1 .. Cardinality(S) |-> K[k]]
    BY <1>1
  <1> QED
    BY <1>2, <1>3

IsSortedPart(q, P, S, m) == ToSet(P) \in SUBSET S /\ Len(P) = m /\ P = Sorted(q, ToSet(P))

LEMMA SortedPrefix ==
    ASSUME Vectors, NEW q \in Int, NEW S \in SUBSET Node, NEW m \in Nat, m <= Cardinality(S)
    PROVE  IsSortedPart(q, SubSeq(Sorted(q, S), 1, m), S, m)
  <1> SUFFICES ASSUME NEW P, P = SubSeq(Sorted(q, S), 1, m)
               PROVE  ToSet(P) \in SUBSET S /\ Len(P) = m /\ P = Sorted(q, ToSet(P))
    BY DEF IsSortedPart
  <1> DEFINE L == Sorted(q, S)
             W == ToSet(P)
             n == Cardinality(S)
             R == NearerPairs(q, S)
  <1>1. IsListing(L, S, R) /\ IsOrder(R, S)
    BY SortedLists, NearerIsOrder
  <1> HIDE DEF L, R
  <1>2. /\ n \in Nat /\ L \in [1 .. n -> S]
        /\ \A i, j \in 1 .. n : i < j <=> <<L[i], L[j]>> \in R
        /\ \A i, j \in 1 .. n : L[i] = L[j] => i = j
    BY <1>1, ListingFacts DEF IsListing
  <1>3. 1 .. m \subseteq 1 .. n
    BY <1>2
  <1>4. /\ P \in Seq(S) /\ Len(P) = m /\ \A i \in 1 .. m : P[i] = L[i]
    <2>1. P = SubSeq(L, 1, m) /\ 1 \in Int /\ m \in Int /\ \A i \in 1 .. m : L[i] \in S
      BY <1>2, <1>3 DEF L
    <2>2. /\ P \in Seq(S) /\ Len(P) = IF 1 <= m THEN m - 1 + 1 ELSE 0
          /\ \A i \in 1 .. m - 1 + 1 : P[i] = L[1 + i - 1]
      BY <2>1, SubSeqProperties
    <2>3. m - 1 + 1 = m /\ \A i \in 1 .. m : 1 + i - 1 = i
      OBVIOUS
    <2> QED
      BY <2>2, <2>3
  <1>5. /\ DOMAIN P = 1 .. m /\ P \in [1 .. m -> W] /\ W \in SUBSET S
        /\ \A x \in W : \E k \in 1 .. m : P[k] = x
    <2>1. DOMAIN P = 1 .. m /\ \A i \in 1 .. m : P[i] \in S
      BY <1>4
    <2>2. W = {P[i] : i \in 1 .. m}
      BY <2>1 DEF ToSet
    <2>3. P = [i \in 1 .. m |-> P[i]]
      BY <1>4
    <2> HIDE DEF W
    <2> QED
      BY <2>1, <2>2, <2>3
  <1> HIDE DEF W
  <1>6. IsFiniteSet(S) /\ IsFiniteSet(W)
    BY <1>5, NodeFacts, FS_Subset
  <1>7. Cardinality(W) = m
    <2>1. P \in Surjection(1 .. m, W)
      BY <1>5 DEF Surjection
    <2>2. \A i, j \in 1 .. m : P[i] = P[j] => i = j
      BY <1>2, <1>3, <1>4
    <2>3. P \in Injection(1 .. m, W)
      BY <1>5, <2>2 DEF Injection, IsInjective
    <2>4. IsFiniteSet(1 .. m) /\ Cardinality(1 .. m) = m
      BY FS_Interval
    <2> QED
      BY <2>1, <2>3, <2>4, FS_Surjection
  <1>8. \A i, j \in 1 .. m : i < j <=> <<P[i], P[j]>> \in NearerPairs(q, W)
    <2> TAKE i, j \in 1 .. m
    <2>1. i < j <=> <<P[i], P[j]>> \in R
      BY <1>2, <1>3, <1>4
    <2>2. P[i] \in W /\ P[j] \in W /\ P[i] \in S /\ P[j] \in S
      BY <1>5
    <2> QED
      BY <2>1, <2>2 DEF R, NearerPairs
  <1>9. IsListing(P, W, NearerPairs(q, W))
    BY <1>5, <1>7, <1>8 DEF IsListing
  <1>10. W \in SUBSET Node
    BY <1>5
  <1>11. IsListing(Sorted(q, W), W, NearerPairs(q, W)) /\ IsOrder(NearerPairs(q, W), W)
    BY <1>10, SortedLists, NearerIsOrder
  <1>12. P = Sorted(q, W)
    BY <1>6, <1>9, <1>11, ListingsAgree
  <1> QED
    BY <1>4, <1>5, <1>12 DEF W

-----------------------------------------------------------------------------
(* Queries of the finished index.                                          *)

Reached(q, pass) == pass \cap ReachableFrom(LayerZeroEntry(graph, q))
FirstOf(k, L) == SubSeq(L, 1, Min({k, Len(L)}))
First(q, w, pass) == SearchLayer(graph, q, <<LayerZeroEntry(graph, q)>>, w, 0, pass)

(* The descent of a query ends at a node, if there is one.                 *)
LEMMA EntryFacts ==
    ASSUME IndexInv, Done
    PROVE  /\ Closed(graph, Node, 0) /\ Nodes(graph) = Node
           /\ Count = 0 => graph.entry = EMPTY
           /\ Count # 0 => graph.entry # EMPTY /\ \A q : LayerZeroEntry(graph, q) \in Node
  <1>1. /\ graph \in Graphs /\ Linked(graph) /\ EntryOf(graph) /\ Nodes(graph) = Node
        /\ Count \in Nat /\ Level \in SUBSET Nat /\ 0 \in Level /\ MaxLevel \in Nat
    BY ConstantFacts DEF IndexInv, GoodGraph, Consistent, Nodes, Node, Done, Level
  <1>2. \A level \in Level : Closed(graph, Node, level)
    <2> SUFFICES ASSUME NEW level \in Level, NEW n \in Node PROVE Links(graph, n, level) \in Seq(Node)
      BY DEF Closed
    <2> QED
      BY <1>1, LinksType
  <1>3. Count = 0 => graph.entry = EMPTY
    BY <1>1 DEF EntryOf, Node
  <1>4. ASSUME Count # 0 PROVE graph.entry # EMPTY /\ \A q : LayerZeroEntry(graph, q) \in Node
    <2> DEFINE e == graph.entry
               top == graph.maxLevel
    <2>1. e \in Node /\ top = graph.levels[e]
      <3>1. 0 \in Node
        BY <1>1, <1>4 DEF Node
      <3> QED
        BY <1>1, <3>1 DEF EntryOf
    <2>2. e # EMPTY
      BY <1>1, <2>1 DEF Node, EMPTY
    <2>3. top \in Level /\ top \in Nat
      BY <1>1, <2>1, UpperFacts
    <2>4. Down(top, 1) \in Seq(1 .. top)
      <3>1. top \in Int /\ 1 \in Nat
        BY <2>3
      <3> QED
        BY <3>1, DownFacts, Zenon
    <2>5. 1 .. top \subseteq Level
      BY <1>1, <2>3 DEF Level
    <2> HIDE DEF e, top
    <2>6. ASSUME NEW q PROVE LayerZeroEntry(graph, q) \in Node
      <3>1. \A t \in Node, c \in 1 .. top : GreedyDescend(graph, q, t, c) \in Node
        BY <1>2, <2>5, WalkStays
      <3>2. DescendAll(graph, q, e, Down(top, 1)) \in Node
        BY <2>1, <2>4, <3>1, DescendAllStays
      <3> QED
        BY <3>2 DEF DescendAll, LayerZeroEntry, e, top
    <2> QED
      BY <2>2, <2>6 DEF e
  <1> QED
    BY <1>1, <1>2, <1>3, <1>4

LEMMA SortedNothing ==
    ASSUME Vectors, NEW q \in Int
    PROVE  Sorted(q, {}) = <<>>
  <1>1. Sorted(q, {}) \in Seq({}) /\ Len(Sorted(q, {})) = 0
    BY SortedIsList, FS_EmptySet DEF Lists
  <1> QED
    BY <1>1

(* Without rows a search returns nothing.                                  *)
LEMMA NothingToSearch ==
    ASSUME Vectors, Count = 0, NEW q \in Int, NEW e, NEW w, NEW pass, pass = {}
    PROVE  SearchLayer(graph, q, <<e>>, w, 0, pass) = <<>>
  <1> DEFINE none == [visited |-> {}, cand |-> {}, res |-> {}]
             T == [visited : SUBSET {e}, cand : SUBSET {e}, res : {{}}]
             C == {e}
             b == Begun(q, <<e>>, w, pass)
  <1>1. \A t \in T, c \in C : Visit(q, t, c, w, pass) \in T
    BY DEF Visit, Offered
  <1>2. none \in T /\ <<e>> \in Seq(C) /\ Len(<<e>>) \in 0 .. Len(<<e>>)
    OBVIOUS
  <1>3. b = VisitFirst(q, none, <<e>>, w, pass)
    BY DEF Begun, VisitFirst
  <1> HIDE DEF T, C, none, b
  <1>4. PICK R : IsVisitFirstRun(R, q, w, pass, none, <<e>>, T)
    BY <1>1, <1>2, VisitFirstRun
  <1>5. b \in T
    BY <1>2, <1>3, <1>4 DEF IsVisitFirstRun
  <1> DEFINE Z == {}
  <1>6. Rounds \in Seq(Z) /\ Len(Rounds) = 0
    BY DEF Rounds
  <1>7. \A t \in T, c \in Z : Expand(graph, q, t, w, 0, pass) \in T
    OBVIOUS
  <1> HIDE DEF Z
  <1>8. ExpandAll(graph, q, b, w, 0, pass, Rounds) \in T
    BY <1>5, <1>6, <1>7, ExpandAllStays
  <1>9. Searched(graph, q, <<e>>, w, 0, pass).res = {}
    BY <1>8 DEF ExpandAll, Searched, b, T
  <1> QED
    BY <1>9, SortedNothing DEF SearchLayer

(* What the first search of a query returns.                               *)
LEMMA FirstFacts ==
    ASSUME IndexInv, Done, NEW q \in Int, NEW w \in Nat, NEW pass \in SUBSET Node
    PROVE  /\ Reached(q, pass) \in SUBSET Node
           /\ \E r \in SUBSET Reached(q, pass) :
                /\ First(q, w, pass) = Sorted(q, r) /\ Cardinality(r) <= w
                /\ Cardinality(r) # w => r = Reached(q, pass)
  <1> DEFINE e == LayerZeroEntry(graph, q)
             r == Searched(graph, q, <<e>>, w, 0, pass).res
  <1>1. Vectors /\ Closed(graph, Node, 0) /\ Reached(q, pass) \in SUBSET Node
    BY EntryFacts DEF IndexInv, Reached
  <1>2. First(q, w, pass) = IF w = 0 THEN <<>> ELSE Sorted(q, r)
    BY DEF First, SearchLayer
  <1>3. {} \in SUBSET Reached(q, pass) /\ Cardinality({}) = 0 /\ Sorted(q, {}) = <<>>
    BY <1>1, SortedNothing, FS_EmptySet
  <1>4. CASE w = 0
    BY <1>1, <1>2, <1>3, <1>4
  <1>5. CASE Count = 0
    <2>1. pass = {} /\ Reached(q, pass) = {}
      BY <1>1, <1>5 DEF Node
    <2>2. First(q, w, pass) = <<>>
      BY <1>1, <1>5, <2>1, NothingToSearch DEF First
    <2> QED
      BY <1>1, <1>3, <2>1, <2>2
  <1>6. CASE w # 0 /\ Count # 0
    <2>1. w \in Nat \ {0} /\ e \in Node
      BY <1>6, EntryFacts
    <2> HIDE DEF e, r
    <2>2. /\ r \in SUBSET (pass \cap ReachableFrom(e)) /\ Cardinality(r) <= w
          /\ Cardinality(r) # w => r = pass \cap ReachableFrom(e)
      BY <1>1, <2>1, SearchFinds DEF r
    <2> QED
      BY <1>1, <1>2, <1>6, <2>2 DEF Reached, e
  <1> QED
    BY <1>4, <1>5, <1>6

LEMMA MaxOfThree ==
    ASSUME NEW a \in Nat, NEW b \in Nat, NEW c \in Nat
    PROVE  /\ Max({a, b, c}) \in Nat /\ Max({a, b, c}) >= a
           /\ Max({a, b, c}) >= b /\ Max({a, b, c}) >= c
  <1> DEFINE n == a + b + c
  <1>1. {a, b, c} \in SUBSET Nat /\ {a, b, c} # {} /\ n \in Nat /\ \A t \in {a, b, c} : t <= n
    OBVIOUS
  <1> HIDE DEF n
  <1>2. Max({a, b, c}) \in {a, b, c} /\ \A t \in {a, b, c} : t <= Max({a, b, c})
    BY <1>1, MaxIsGreatest
  <1> QED
    BY <1>2

(* A query ends with what its first search returned: wider searches return *)
(* the same when that one returned less than k, for then it returned all   *)
(* that could be reached.                                                  *)
LEMMA QueryFacts ==
    ASSUME IndexInv, Done, NEW q \in Int, NEW k \in Nat, NEW ef \in Nat, NEW pass \in SUBSET Node
    PROVE  /\ Query(graph, q, k, ef, pass) = FirstOf(k, First(q, Max({ef, k}), pass))
           /\ Len(First(q, Max({ef, k}), pass)) \in Nat
           /\ Max({ef, k}) \in Nat /\ Max({ef, k}) >= k /\ Max({ef, k}) >= ef
  <1> SUFFICES ASSUME NEW w, w = Max({ef, k}), NEW F, F = First(q, w, pass)
               PROVE  /\ Query(graph, q, k, ef, pass) = SubSeq(F, 1, Min({k, Len(F)}))
                      /\ Len(F) \in Nat /\ w \in Nat /\ w >= k /\ w >= ef
    BY DEF FirstOf
  <1> DEFINE cap == Max({ef, k, Count})
             ep == LayerZeroEntry(graph, q)
             T == {s \in [ef : Nat, results : {F}] : s.ef >= k}
             b == Search(graph, q, ep, w, pass)
             last == RetryAll(graph, q, ep, b, k, cap, pass, <<1, 2, 3>>)
             A == Reached(q, pass)
  <1>1. Vectors /\ Count \in Nat /\ A \in SUBSET Node
    BY ConstantFacts, FirstFacts DEF IndexInv
  <1>2. w \in Nat /\ w >= k /\ w >= ef
    <2>1. w = IF ef >= k THEN ef ELSE k
      BY MaxOfTwo
    <2> QED
      BY <2>1
  <1>3. cap \in Nat /\ cap >= k
    BY <1>1, MaxOfThree
  <1> HIDE DEF A, cap
  <1>4. \A v \in Nat : \E r \in SUBSET A : /\ First(q, v, pass) = Sorted(q, r)
                                           /\ Cardinality(r) <= v /\ (Cardinality(r) # v => r = A)
    BY FirstFacts DEF A
  <1>5. \A r \in SUBSET A : /\ Len(Sorted(q, r)) = Cardinality(r) /\ Cardinality(r) \in Nat
                            /\ Cardinality(A) \in Nat /\ Cardinality(r) <= Cardinality(A)
    <2> TAKE r \in SUBSET A
    <2>1. r \in SUBSET Node /\ IsFiniteSet(A)
      BY <1>1, NodeFacts, FS_Subset
    <2> QED
      BY <1>1, <2>1, SortedIsList, FS_Subset, FS_CardinalityType
  <1>6. Len(F) \in Nat
    BY <1>2, <1>4, <1>5
  <1>7. ASSUME NEW v \in Nat, v >= k, Len(F) < k PROVE First(q, v, pass) = F
    <2>1. PICK r \in SUBSET A : F = Sorted(q, r) /\ Cardinality(r) <= w /\ (Cardinality(r) # w => r = A)
      BY <1>2, <1>4
    <2>2. Cardinality(r) < k /\ r = A /\ Cardinality(A) < k
      BY <1>2, <1>5, <1>7, <2>1
    <2>3. PICK x \in SUBSET A : /\ First(q, v, pass) = Sorted(q, x)
                                /\ Cardinality(x) <= v /\ (Cardinality(x) # v => x = A)
      BY <1>4
    <2>4. Cardinality(x) # v
      BY <1>5, <1>7, <2>2
    <2> QED
      BY <2>1, <2>2, <2>3, <2>4
  <1>8. \A v : Search(graph, q, ep, v, pass) = [ef |-> v, results |-> First(q, v, pass)]
    BY DEF Search, First
  <1>9. b \in T
    BY <1>2, <1>8
  <1>10. \A s \in T, c \in {1, 2, 3} : Retry(graph, q, ep, s, k, cap, pass) \in T
    <2> TAKE s \in T, c \in {1, 2, 3}
    <2> DEFINE v == Min({s.ef * 2, cap})
    <2>1. s.ef \in Nat /\ s.ef * 2 \in Nat /\ s.ef >= k /\ s.results = F
      OBVIOUS
    <2>2. v = IF s.ef * 2 <= cap THEN s.ef * 2 ELSE cap
      BY <1>3, <2>1, MinOfTwo
    <2>3. v \in Nat /\ v >= k
      BY <1>3, <2>1, <2>2
    <2> HIDE DEF v, ep
    <2>4. CASE Len(F) < k /\ s.ef < cap
      <3>1. Retry(graph, q, ep, s, k, cap, pass) = [ef |-> v, results |-> F]
        BY <1>7, <1>8, <2>1, <2>3, <2>4 DEF Retry, v
      <3> QED
        BY <2>3, <3>1
    <2>5. CASE ~(Len(F) < k /\ s.ef < cap)
      BY <2>1, <2>5 DEF Retry
    <2> QED
      BY <2>4, <2>5
  <1>11. <<1, 2, 3>> \in Seq({1, 2, 3})
    OBVIOUS
  <1>12. last.results = F
    <2> HIDE DEF b, ep, last
    <2>1. T = {s \in [ef : Nat, results : {F}] : s.ef >= k}
      OBVIOUS
    <2> HIDE DEF T
    <2>2. last \in T
      BY <1>9, <1>10, <1>11, RetryAllStays DEF last
    <2> QED
      BY <2>1, <2>2
  <1>13. SearchedFrom(graph, q, k, Max({ef, k}), Max({ef, k, Count}), pass) = last
    BY Zenon DEF SearchedFrom, RetryAll, cap
  <1>14. Query(graph, q, k, ef, pass) =
           IF k = 0 \/ graph.entry = EMPTY THEN <<>> ELSE SubSeq(F, 1, Min({k, Len(F)}))
    BY <1>12, <1>13 DEF Query
  <1>15. Min({k, Len(F)}) = IF k <= Len(F) THEN k ELSE Len(F)
    <2> DEFINE n == Len(F)
    <2>1. k \in Int /\ n \in Int
      BY <1>6
    <2> HIDE DEF n
    <2>2. Min({k, n}) = IF k <= n THEN k ELSE n
      BY <2>1, MinOfTwo
    <2> QED
      BY <2>2 DEF n
  <1>16. ASSUME k = 0 \/ graph.entry = EMPTY PROVE SubSeq(F, 1, Min({k, Len(F)})) = <<>>
    <2>1. k = 0 \/ Len(F) = 0
      <3>1. ASSUME Count = 0 PROVE Len(F) = 0
        <4>1. A = {}
          BY <1>1, <3>1 DEF Node
        <4>2. PICK r \in SUBSET A : F = Sorted(q, r)
          BY <1>2, <1>4
        <4>3. r = {} /\ Cardinality(r) = 0
          BY <4>1, FS_EmptySet
        <4> QED
          BY <1>5, <4>2, <4>3
      <3> QED
        BY <1>16, <3>1, EntryFacts
    <2>2. Min({k, Len(F)}) = 0
      BY <1>6, <1>15, <2>1
    <2>3. SubSeq(F, 1, 0) = <<>>
      BY SubSeqEmpty
    <2> QED
      BY <2>2, <2>3
  <1> QED
    BY <1>2, <1>6, <1>14, <1>16

(* A query returns k of the rows that pass and can be reached, or all of   *)
(* them if they are fewer, each once, the nearest first: neither a filter  *)
(* nor a row that was deleted costs a result, and no search of any width   *)
(* stops early.                                                            *)
THEOREM QueriesAlwaysFillUp == Spec => []QueriesFillUp
  <1>1. IndexInv => QueriesFillUp
    <2> SUFFICES ASSUME IndexInv, Done, NEW q \in Coord, NEW k \in TopK, NEW ef \in EfSearch,
                        NEW pass \in Passes
                 PROVE  LET results == Query(graph, q, k, ef, pass)
                            reached == pass \cap ReachableFrom(LayerZeroEntry(graph, q))
                        IN  /\ results = Sorted(q, ToSet(results))
                            /\ ToSet(results) \subseteq reached
                            /\ Len(results) = Min({k, Cardinality(reached)})
      BY DEF QueriesFillUp
    <2> DEFINE w == Max({ef, k})
               F == First(q, w, pass)
               m == Min({k, Len(F)})
               P == Query(graph, q, k, ef, pass)
               A == Reached(q, pass)
    <2>1. /\ Vectors /\ q \in Int /\ k \in Nat /\ ef \in Nat /\ pass \in SUBSET Node
      BY HnswAssumption DEF IndexInv, Passes
    <2>2. P = SubSeq(F, 1, m) /\ Len(F) \in Nat /\ w \in Nat /\ w >= k
      BY <2>1, QueryFacts DEF FirstOf
    <2> HIDE DEF w
    <2>3. /\ A \in SUBSET Node
          /\ \E r \in SUBSET A : /\ F = Sorted(q, r) /\ Cardinality(r) <= w
                                 /\ Cardinality(r) # w => r = A
      BY <2>1, <2>2, FirstFacts
    <2> HIDE DEF F, P, A
    <2>4. PICK r \in SUBSET A : /\ F = Sorted(q, r) /\ Cardinality(r) <= w
                                /\ Cardinality(r) # w => r = A
      BY <2>3
    <2>5. /\ r \in SUBSET Node /\ Cardinality(r) \in Nat /\ Cardinality(A) \in Nat
          /\ Cardinality(r) <= Cardinality(A) /\ Len(F) = Cardinality(r)
      <3>1. r \in SUBSET Node /\ IsFiniteSet(A)
        BY <2>1, <2>3, NodeFacts, FS_Subset
      <3> QED
        BY <2>1, <2>4, <3>1, SortedIsList, FS_Subset, FS_CardinalityType
    <2>6. /\ m = IF k <= Cardinality(r) THEN k ELSE Cardinality(r)
          /\ Min({k, Cardinality(A)}) = IF k <= Cardinality(A) THEN k ELSE Cardinality(A)
      <3> DEFINE x == Cardinality(r)
                 y == Cardinality(A)
      <3>1. k \in Int /\ x \in Int /\ y \in Int /\ m = Min({k, x})
        BY <2>1, <2>5
      <3> HIDE DEF x, y
      <3>2. Min({k, x}) = (IF k <= x THEN k ELSE x) /\ Min({k, y}) = IF k <= y THEN k ELSE y
        BY <3>1, MinOfTwo
      <3> QED
        BY <3>1, <3>2 DEF x, y
    <2> HIDE DEF m
    <2>7. m \in Nat /\ m <= Cardinality(r)
      BY <2>1, <2>5, <2>6
    <2>8. ToSet(P) \in SUBSET r /\ Len(P) = m /\ P = Sorted(q, ToSet(P))
      <3>1. P = SubSeq(Sorted(q, r), 1, m)
        BY <2>2, <2>4
      <3>2. Vectors /\ q \in Int /\ r \in SUBSET Node
        BY <2>1, <2>5
      <3>3. IsSortedPart(q, P, r, m)
        BY <2>7, <3>1, <3>2, SortedPrefix
      <3> QED
        BY <3>3 DEF IsSortedPart
    <2>9. m = Min({k, Cardinality(A)})
      <3>1. CASE Cardinality(r) >= k
        BY <2>1, <2>5, <2>6, <3>1
      <3>2. CASE Cardinality(r) < k
        BY <2>1, <2>2, <2>4, <2>5, <2>6, <3>2
      <3> QED
        BY <2>1, <2>5, <3>1, <3>2
    <2> QED
      BY <2>4, <2>8, <2>9 DEF P, A, Reached
  <1> QED
    BY <1>1, IndexInvariance, PTL

(* A query of a width of at least the number of rows is exact over what it *)
(* can reach: its heap of results never drops a row.                       *)
THEOREM WideQueriesAreAlwaysExact == Spec => []WideQueriesAreExact
  <1>1. IndexInv => WideQueriesAreExact
    <2> SUFFICES ASSUME IndexInv, Done, NEW q \in Coord, NEW k \in TopK, NEW pass \in Passes
                 PROVE  LET results == Query(graph, q, k, Count, pass)
                            best == Sorted(q, pass \cap ReachableFrom(LayerZeroEntry(graph, q)))
                        IN  results = SubSeq(best, 1, Min({k, Len(best)}))
      BY DEF WideQueriesAreExact
    <2> DEFINE w == Max({Count, k})
               F == First(q, w, pass)
               A == Reached(q, pass)
    <2>1. /\ Vectors /\ q \in Int /\ k \in Nat /\ Count \in Nat /\ pass \in SUBSET Node
      BY HnswAssumption, ConstantFacts DEF IndexInv, Passes
    <2>2. /\ Query(graph, q, k, Count, pass) = SubSeq(F, 1, Min({k, Len(F)}))
          /\ w \in Nat /\ w >= Count
      BY <2>1, QueryFacts DEF FirstOf
    <2> HIDE DEF w
    <2>3. /\ A \in SUBSET Node
          /\ \E r \in SUBSET A : /\ F = Sorted(q, r) /\ Cardinality(r) <= w
                                 /\ Cardinality(r) # w => r = A
      BY <2>1, <2>2, FirstFacts
    <2> HIDE DEF F, A
    <2>4. PICK r \in SUBSET A : F = Sorted(q, r) /\ (Cardinality(r) # w => r = A)
      BY <2>3
    <2>5. ASSUME Cardinality(r) = w PROVE r = A
      <3>1. r \in SUBSET Node /\ IsFiniteSet(Node) /\ Cardinality(Node) = Count
        BY <2>1, <2>3, NodeCount
      <3>2. Cardinality(r) <= Count
        BY <3>1, FS_Subset
      <3>3. Cardinality(r) = Cardinality(Node)
        BY <2>1, <2>2, <2>5, <3>1, <3>2
      <3>4. r = Node
        BY <3>1, <3>3, FS_Subset
      <3> QED
        BY <2>3, <3>4
    <2>6. F = Sorted(q, A)
      BY <2>4, <2>5
    <2> QED
      BY <2>2, <2>6 DEF A, Reached
  <1> QED
    BY <1>1, IndexInvariance, PTL

(* The retries with a wider search are in vain: a query returns the first  *)
(* k results of its first search.                                          *)
THEOREM RetriesAlwaysFindNothing == Spec => []RetriesFindNothing
  <1>1. IndexInv => RetriesFindNothing
    <2> SUFFICES ASSUME IndexInv, Done, NEW q \in Coord, NEW k \in TopK, NEW ef \in EfSearch,
                        NEW pass \in Passes
                 PROVE  LET first == SearchLayer(graph, q, <<LayerZeroEntry(graph, q)>>, Max({ef, k}), 0, pass)
                        IN  Query(graph, q, k, ef, pass) = SubSeq(first, 1, Min({k, Len(first)}))
      BY DEF RetriesFindNothing
    <2>1. q \in Int /\ k \in Nat /\ ef \in Nat /\ pass \in SUBSET Node
      BY HnswAssumption DEF Passes
    <2>2. Query(graph, q, k, ef, pass) = FirstOf(k, First(q, Max({ef, k}), pass))
      BY <2>1, QueryFacts
    <2> QED
      BY <2>2, Zenon DEF First, FirstOf
  <1> QED
    BY <1>1, IndexInvariance, PTL

-----------------------------------------------------------------------------
(* The kernels, which the distances are computed with. *)

VARIABLES form, length, stage, at, acc, total, reads

K == INSTANCE Kernel WITH len <- length, pc <- stage, i <- at, sum <- total, read <- reads

kvars == <<form, length, stage, at, acc, total, reads>>

Forms == {K!Scalar, K!Avx2, K!Simd128}

(* Below at, everything has been taken; the loops over blocks stop at      *)
(* Whole, which the scalar form reaches in full steps.                     *)
KernelInv ==
    /\ form \in Forms
    /\ length \in Nat
    /\ at \in 0 .. length
    /\ stage \in {"blocks", "tail", "done"}
    /\ acc \in [K!Group -> [K!Lane -> SUBSET (0 .. at - 1)]]
    /\ reads \subseteq K!Component
    /\ K!NeverTwice
    /\ stage = "blocks" => /\ at <= K!Whole
                           /\ at % K!Step = 0 \/ form.narrow
                           /\ \A k \in 0 .. at - 1 : \E g \in K!Group, l \in K!Lane : k \in acc[g][l]
                           /\ total = {}
    /\ stage # "blocks" => total = 0 .. at - 1
    /\ stage = "done" => at = length

-----------------------------------------------------------------------------

(* The three forms, and what their constants come to. *)
LEMMA FormFacts ==
    ASSUME form \in Forms, length \in Nat
    PROVE  \/ /\ form = K!Scalar /\ ~form.narrow /\ form.lane = 4 /\ K!Lane = 0 .. 3 /\ K!Step = 32
              /\ K!Whole = (length \div 32) * 32
           \/ /\ form = K!Avx2 /\ form.narrow /\ form.lane = 8 /\ K!Lane = 0 .. 7 /\ K!Step = 64
              /\ K!Whole = (length \div 8) * 8
           \/ /\ form = K!Simd128 /\ form.narrow /\ form.lane = 4 /\ K!Lane = 0 .. 3 /\ K!Step = 32
              /\ K!Whole = (length \div 4) * 4
<1>1. CASE form = K!Scalar
  BY <1>1 DEF K!Scalar, K!Lane, K!Step, K!Whole, K!Groups
<1>2. CASE form = K!Avx2
  BY <1>2 DEF K!Avx2, K!Lane, K!Step, K!Whole, K!Groups
<1>3. CASE form = K!Simd128
  BY <1>3 DEF K!Simd128, K!Lane, K!Step, K!Whole, K!Groups
<1> QED BY <1>1, <1>2, <1>3 DEF Forms

(* How far the loops have come, in numbers. *)
LEMMA FormBounds ==
    ASSUME form \in Forms, length \in Nat
    PROVE  /\ form.lane \in {4, 8} /\ K!Lane = 0 .. form.lane - 1 /\ K!Step \in {32, 64}
           /\ K!Whole \in Nat /\ K!Whole <= length
<1>1. CASE form.lane = 4 /\ K!Lane = 0 .. 3 /\ K!Step = 32 /\ K!Whole = (length \div 32) * 32
  BY <1>1
<1>2. CASE form.lane = 8 /\ K!Lane = 0 .. 7 /\ K!Step = 64 /\ K!Whole = (length \div 8) * 8
  BY <1>2
<1>3. CASE form.lane = 4 /\ K!Lane = 0 .. 3 /\ K!Step = 32 /\ K!Whole = (length \div 4) * 4
  BY <1>3
<1> QED BY <1>1, <1>2, <1>3, FormFacts

(* There is a first register. *)
LEMMA FirstRegister == 0 \in K!Group
<1> QED BY DEF K!Group, K!Groups

(* A block starts where the last one ended and ends within the vectors. *)
LEMMA WideFits ==
    ASSUME form \in Forms, length \in Nat, at \in Nat, K!MoreWide,
           at % K!Step = 0 \/ form.narrow
    PROVE  /\ at + K!Step <= K!Whole
           /\ K!Whole <= length
           /\ (at + K!Step) % K!Step = 0 \/ form.narrow
<1>1. CASE form.lane = 4 /\ ~form.narrow /\ K!Step = 32 /\ K!Whole = (length \div 32) * 32
  BY <1>1 DEF K!MoreWide
<1>2. CASE form.lane = 8 /\ form.narrow /\ K!Step = 64 /\ K!Whole = (length \div 8) * 8
  BY <1>2 DEF K!MoreWide
<1>3. CASE form.lane = 4 /\ form.narrow /\ K!Step = 32 /\ K!Whole = (length \div 4) * 4
  BY <1>3 DEF K!MoreWide
<1> QED BY <1>1, <1>2, <1>3, FormFacts

(* The components of a wide step are the next ones, each in its own lane.  *)
LEMMA WideBlock ==
    ASSUME form \in Forms, length \in Nat, NEW a \in Nat
    PROVE  /\ \A g \in K!Group, l \in K!Lane : a + g * form.lane + l \in a .. a + K!Step - 1
           /\ \A k \in a .. a + K!Step - 1 : \E g \in K!Group, l \in K!Lane :
                k = a + g * form.lane + l
           /\ \A g, h \in K!Group, l, m \in K!Lane :
                a + g * form.lane + l = a + h * form.lane + m => g = h /\ l = m
<1>1. CASE form.lane = 4 /\ K!Lane = 0 .. 3 /\ K!Step = 32
  <2>1. \A k \in a .. a + 31 : /\ (k - a) \div 4 \in 0 .. 7
                               /\ (k - a) % 4 \in 0 .. 3
                               /\ k = a + ((k - a) \div 4) * 4 + ((k - a) % 4)
    OBVIOUS
  <2>2. \A g, h \in 0 .. 7, l, m \in 0 .. 3 : a + g * 4 + l = a + h * 4 + m => g = h /\ l = m
    OBVIOUS
  <2>3. \A g \in 0 .. 7, l \in 0 .. 3 : a + g * 4 + l \in a .. a + 31
    OBVIOUS
  <2> QED BY <1>1, <2>1, <2>2, <2>3 DEF K!Group, K!Groups
<1>2. CASE form.lane = 8 /\ K!Lane = 0 .. 7 /\ K!Step = 64
  <2>1. \A k \in a .. a + 63 : /\ (k - a) \div 8 \in 0 .. 7
                               /\ (k - a) % 8 \in 0 .. 7
                               /\ k = a + ((k - a) \div 8) * 8 + ((k - a) % 8)
    OBVIOUS
  <2>2. \A g, h \in 0 .. 7, l, m \in 0 .. 7 : a + g * 8 + l = a + h * 8 + m => g = h /\ l = m
    OBVIOUS
  <2>3. \A g \in 0 .. 7, l \in 0 .. 7 : a + g * 8 + l \in a .. a + 63
    OBVIOUS
  <2> QED BY <1>2, <2>1, <2>2, <2>3 DEF K!Group, K!Groups
<1> QED BY <1>1, <1>2, FormFacts

(* What AddUp makes of the lanes is all that is in them. *)
LEMMA AllLanesTakeAll ==
    ASSUME form \in Forms, length \in Nat, NEW v
    PROVE  K!AllLanes(v) = UNION {v[l] : l \in K!Lane}
<1>1. CASE form = K!Avx2 /\ K!Lane = 0 .. 7
  <2>1. UNION {v[l] : l \in 0 .. 7} =
          v[0] \cup v[1] \cup v[2] \cup v[3] \cup v[4] \cup v[5] \cup v[6] \cup v[7]
    <3>1. 0 .. 7 = {0, 1, 2, 3, 4, 5, 6, 7}
      OBVIOUS
    <3> QED BY <3>1
  <2>2. K!HorizontalSum(v) =
          v[0] \cup v[1] \cup v[2] \cup v[3] \cup v[4] \cup v[5] \cup v[6] \cup v[7]
    BY DEF K!HorizontalSum
  <2> QED BY <1>1, <2>1, <2>2 DEF K!AllLanes
<1>2. CASE form # K!Avx2 /\ K!Lane = 0 .. 3
  <2>1. 0 .. 3 = {0, 1, 2, 3}
    OBVIOUS
  <2> QED BY <1>2, <2>1 DEF K!AllLanes
<1>3. K!Avx2 # K!Scalar /\ K!Avx2 # K!Simd128
  BY DEF K!Avx2, K!Scalar, K!Simd128
<1> QED BY <1>1, <1>2, <1>3, FormFacts

-----------------------------------------------------------------------------
(* The invariant, action by action. *)

(* The invariant holds at first. *)
LEMMA KernelInit == K!Init => KernelInv
<1> SUFFICES ASSUME K!Init PROVE KernelInv
  OBVIOUS
<1>1. form \in Forms /\ length \in Nat /\ at = 0
  BY DEF K!Init, Forms
<1>2. 0 <= K!Whole /\ 0 % K!Step = 0
  BY <1>1, FormFacts
<1>3. acc \in [K!Group -> [K!Lane -> SUBSET (0 .. at - 1)]] /\ K!NeverTwice
  BY DEF K!Init, K!NeverTwice
<1> QED BY <1>1, <1>2, <1>3 DEF K!Init, KernelInv, K!Component

(* A lane that takes components from at on, none of which another lane    *)
(* takes, keeps the lanes disjoint.                                        *)
LEMMA WidePreserves == KernelInv /\ K!Wide => KernelInv'
<1> SUFFICES ASSUME KernelInv, K!Wide PROVE KernelInv'
  OBVIOUS
<1> DEFINE At(g, l) == at + g * form.lane + l
<1>1. /\ form \in Forms /\ length \in Nat /\ at \in Nat /\ stage = "blocks" /\ K!MoreWide
      /\ at % K!Step = 0 \/ form.narrow
  BY DEF KernelInv, K!Wide
<1>2. /\ form' = form /\ length' = length /\ stage' = stage /\ total' = total /\ at' = at + K!Step
      /\ acc' = [g \in K!Group |-> [l \in K!Lane |-> acc[g][l] \cup {At(g, l)}]]
      /\ reads' = UNION {{At(g, l) : l \in K!Lane} : g \in K!Group}
  BY DEF K!Wide
<1>3. /\ at + K!Step <= K!Whole /\ K!Whole <= length
      /\ (at + K!Step) % K!Step = 0 \/ form.narrow
  BY <1>1, WideFits
<1>4. K!Step \in {32, 64} /\ K!Whole \in Nat
  BY <1>1, FormBounds
<1>5. K!Lane' = K!Lane /\ K!Step' = K!Step /\ K!Whole' = K!Whole /\ K!Component' = K!Component
  BY <1>2 DEF K!Lane, K!Step, K!Whole, K!Component
<1>6. /\ \A g \in K!Group, l \in K!Lane : At(g, l) \in at .. at + K!Step - 1
      /\ \A k \in at .. at + K!Step - 1 : \E g \in K!Group, l \in K!Lane : k = At(g, l)
      /\ \A g, h \in K!Group, l, m \in K!Lane : At(g, l) = At(h, m) => g = h /\ l = m
  BY <1>1, WideBlock
<1>7. /\ \A g \in K!Group, l \in K!Lane : /\ acc[g][l] \subseteq 0 .. at - 1
                                          /\ acc'[g][l] = acc[g][l] \cup {At(g, l)}
      /\ \A g, h \in K!Group, l, m \in K!Lane :
           (g # h \/ l # m) => acc[g][l] \cap acc[h][m] = {}
      /\ \A k \in 0 .. at - 1 : \E g \in K!Group, l \in K!Lane : k \in acc[g][l]
  BY <1>1, <1>2 DEF KernelInv, K!NeverTwice
<1> HIDE DEF At
<1>8. acc' \in [K!Group -> [K!Lane -> SUBSET (0 .. at' - 1)]]
  <2>1. \A g \in K!Group, l \in K!Lane : acc[g][l] \cup {At(g, l)} \subseteq 0 .. at + K!Step - 1
    BY <1>1, <1>4, <1>6, <1>7
  <2>2. 0 .. at' - 1 = 0 .. at + K!Step - 1
    BY <1>1, <1>2, <1>4
  <2>3. \A g \in K!Group :
          [l \in K!Lane |-> acc[g][l] \cup {At(g, l)}] \in [K!Lane -> SUBSET (0 .. at + K!Step - 1)]
    BY <2>1
  <2> QED BY <1>2, <2>2, <2>3
<1>9. reads' \subseteq K!Component
  <2>1. \A g \in K!Group, l \in K!Lane : At(g, l) \in 0 .. length - 1
    BY <1>1, <1>3, <1>4, <1>6
  <2> QED BY <1>2, <2>1 DEF K!Component
<1>10. K!NeverTwice'
  <2>1. \A g, h \in K!Group, l, m \in K!Lane :
          (g # h \/ l # m) => acc'[g][l] \cap acc'[h][m] = {}
    <3> SUFFICES ASSUME NEW g \in K!Group, NEW h \in K!Group, NEW l \in K!Lane, NEW m \in K!Lane,
                        g # h \/ l # m
                 PROVE  acc'[g][l] \cap acc'[h][m] = {}
      OBVIOUS
    <3>1. At(g, l) # At(h, m)
      BY <1>6
    <3>2. At(g, l) \notin 0 .. at - 1 /\ At(h, m) \notin 0 .. at - 1
      BY <1>1, <1>4, <1>6
    <3>3. At(g, l) \notin acc[h][m] /\ At(h, m) \notin acc[g][l]
      BY <1>7, <3>2
    <3>4. acc[g][l] \cap acc[h][m] = {}
      BY <1>7
    <3> QED BY <1>7, <3>1, <3>3, <3>4
  <2> QED BY <1>5, <2>1 DEF K!NeverTwice
<1>11. \A k \in 0 .. at' - 1 : \E g \in K!Group, l \in K!Lane : k \in acc'[g][l]
  <2>1. 0 .. at' - 1 = 0 .. at + K!Step - 1
    BY <1>1, <1>2, <1>4
  <2> SUFFICES ASSUME NEW k \in 0 .. at + K!Step - 1
               PROVE  \E g \in K!Group, l \in K!Lane : k \in acc'[g][l]
    BY <2>1
  <2>2. CASE k \in 0 .. at - 1
    BY <2>2, <1>7
  <2>3. CASE k \in at .. at + K!Step - 1
    BY <2>3, <1>6, <1>7
  <2> QED BY <1>1, <1>4, <2>2, <2>3
<1>12. at' \in 0 .. length' /\ at' <= K!Whole' /\ (at' % K!Step' = 0 \/ form'.narrow)
  BY <1>1, <1>2, <1>3, <1>4, <1>5
<1> QED BY <1>1, <1>2, <1>5, <1>8, <1>9, <1>10, <1>11, <1>12 DEF KernelInv

(* A step of one register goes on from where the last one ended. *)
LEMMA NarrowPreserves == KernelInv /\ K!Narrow => KernelInv'
<1> SUFFICES ASSUME KernelInv, K!Narrow PROVE KernelInv'
  OBVIOUS
<1>1. /\ form \in Forms /\ length \in Nat /\ at \in Nat /\ stage = "blocks"
      /\ form.narrow /\ at + form.lane <= K!Whole
  BY DEF KernelInv, K!Narrow, K!MoreNarrow
<1>2. /\ form' = form /\ length' = length /\ stage' = stage /\ total' = total /\ at' = at + form.lane
      /\ acc' = [acc EXCEPT ![0] = [l \in K!Lane |-> acc[0][l] \cup {at + l}]]
      /\ reads' = {at + l : l \in K!Lane}
  BY DEF K!Narrow
<1>3. /\ form.lane \in {4, 8} /\ K!Lane = 0 .. form.lane - 1
      /\ K!Whole \in Nat /\ K!Whole <= length /\ 0 \in K!Group
  BY <1>1, FormBounds, FirstRegister
<1>4. K!Lane' = K!Lane /\ K!Step' = K!Step /\ K!Whole' = K!Whole /\ K!Component' = K!Component
  BY <1>2 DEF K!Lane, K!Step, K!Whole, K!Component
<1>5. /\ acc \in [K!Group -> [K!Lane -> SUBSET (0 .. at - 1)]]
      /\ \A g, h \in K!Group, l, m \in K!Lane :
           (g # h \/ l # m) => acc[g][l] \cap acc[h][m] = {}
      /\ \A k \in 0 .. at - 1 : \E g \in K!Group, l \in K!Lane : k \in acc[g][l]
  BY <1>1 DEF KernelInv, K!NeverTwice
<1>6. \A g \in K!Group, l \in K!Lane :
        acc'[g][l] = IF g = 0 THEN acc[g][l] \cup {at + l} ELSE acc[g][l]
  BY <1>2, <1>3, <1>5
<1>7. acc' \in [K!Group -> [K!Lane -> SUBSET (0 .. at' - 1)]]
  <2>1. \A l \in K!Lane : acc[0][l] \cup {at + l} \subseteq 0 .. at' - 1
    <3>1. \A l \in K!Lane : at + l \in 0 .. at' - 1
      BY <1>1, <1>2, <1>3
    <3>2. \A l \in K!Lane : acc[0][l] \subseteq 0 .. at - 1
      BY <1>3, <1>5
    <3>3. 0 .. at - 1 \subseteq 0 .. at' - 1
      BY <1>1, <1>2, <1>3
    <3> QED BY <3>1, <3>2, <3>3
  <2>2. 0 .. at - 1 \subseteq 0 .. at' - 1
    BY <1>1, <1>2, <1>3
  <2>3. acc \in [K!Group -> [K!Lane -> SUBSET (0 .. at' - 1)]]
    BY <1>5, <2>2
  <2> QED BY <1>2, <1>3, <2>1, <2>3
<1>8. reads' \subseteq K!Component
  BY <1>1, <1>2, <1>3 DEF K!Component
<1>9. K!NeverTwice'
  <2>1. \A g, h \in K!Group, l, m \in K!Lane :
          (g # h \/ l # m) => acc'[g][l] \cap acc'[h][m] = {}
    <3> SUFFICES ASSUME NEW g \in K!Group, NEW h \in K!Group, NEW l \in K!Lane, NEW m \in K!Lane,
                        g # h \/ l # m
                 PROVE  acc'[g][l] \cap acc'[h][m] = {}
      OBVIOUS
    <3>1. acc[h][m] \subseteq 0 .. at - 1 /\ acc[g][l] \subseteq 0 .. at - 1
      BY <1>5
    <3>2. at + l \notin 0 .. at - 1 /\ at + m \notin 0 .. at - 1
      BY <1>1, <1>3
    <3>3. at + l \notin acc[h][m] /\ at + m \notin acc[g][l]
      BY <3>1, <3>2
    <3>4. acc[g][l] \cap acc[h][m] = {}
      BY <1>5
    <3>5. /\ acc'[g][l] = IF g = 0 THEN acc[g][l] \cup {at + l} ELSE acc[g][l]
          /\ acc'[h][m] = IF h = 0 THEN acc[h][m] \cup {at + m} ELSE acc[h][m]
      BY <1>6
    <3>6. g = 0 /\ h = 0 => at + l # at + m
      BY <1>1, <1>3
    <3>7. CASE g = 0 /\ h = 0
      BY <3>3, <3>6, <3>4, <3>5, <3>7
    <3>8. CASE ~(g = 0 /\ h = 0)
      BY <3>3, <3>4, <3>5, <3>8
    <3> QED BY <3>7, <3>8
  <2> QED BY <1>4, <2>1 DEF K!NeverTwice
<1>10. \A k \in 0 .. at' - 1 : \E g \in K!Group, l \in K!Lane : k \in acc'[g][l]
  <2>1. 0 .. at' - 1 = 0 .. at + form.lane - 1
    BY <1>1, <1>2, <1>3
  <2> SUFFICES ASSUME NEW k \in 0 .. at + form.lane - 1
               PROVE  \E g \in K!Group, l \in K!Lane : k \in acc'[g][l]
    BY <2>1
  <2>2. CASE k \in 0 .. at - 1
    <3>1. PICK g \in K!Group, l \in K!Lane : k \in acc[g][l]
      BY <2>2, <1>5
    <3>2. k \in acc'[g][l]
      BY <3>1, <1>6
    <3> QED BY <3>2
  <2>3. CASE k \notin 0 .. at - 1
    <3>1. k - at \in K!Lane /\ k = at + (k - at)
      BY <2>3, <1>1, <1>3
    <3> QED BY <3>1, <1>3, <1>6
  <2> QED BY <2>2, <2>3
<1>11. at' \in 0 .. length' /\ at' <= K!Whole' /\ form'.narrow
  BY <1>1, <1>2, <1>3, <1>4
<1>12. total' = {} /\ stage' = "blocks"
  BY <1>1, <1>2 DEF KernelInv
<1> QED BY <1>1, <1>2, <1>4, <1>7, <1>8, <1>9, <1>10, <1>11, <1>12 DEF KernelInv

(* The sum starts with all that the registers have. *)
LEMMA AddUpPreserves == KernelInv /\ K!AddUp => KernelInv'
<1> SUFFICES ASSUME KernelInv, K!AddUp PROVE KernelInv'
  OBVIOUS
<1> DEFINE s == [l \in K!Lane |-> UNION {acc[g][l] : g \in K!Group}]
<1>1. /\ stage = "blocks" /\ stage' = "tail" /\ reads' = {} /\ total' = K!AllLanes(s)
      /\ form' = form /\ length' = length /\ at' = at /\ acc' = acc
  BY DEF K!AddUp
<1>2. /\ form \in Forms /\ length \in Nat /\ at \in Nat
      /\ acc \in [K!Group -> [K!Lane -> SUBSET (0 .. at - 1)]]
      /\ \A k \in 0 .. at - 1 : \E g \in K!Group, l \in K!Lane : k \in acc[g][l]
  BY <1>1 DEF KernelInv
<1>3. K!AllLanes(s) = UNION {s[l] : l \in K!Lane}
  BY <1>2, AllLanesTakeAll
<1>4. K!AllLanes(s) = 0 .. at - 1
  <2>1. \A l \in K!Lane : s[l] \subseteq 0 .. at - 1
    BY <1>2
  <2>2. \A k \in 0 .. at - 1 : \E l \in K!Lane : k \in s[l]
    BY <1>2
  <2> QED BY <1>3, <2>1, <2>2
<1>5. K!Lane' = K!Lane /\ K!Component' = K!Component /\ (K!NeverTwice' <=> K!NeverTwice)
  BY <1>1 DEF K!Lane, K!Component, K!NeverTwice
<1> HIDE DEF s
<1> QED BY <1>1, <1>4, <1>5 DEF KernelInv

(* A step of the tail adds the next component. *)
LEMMA TailPreserves == KernelInv /\ K!Tail => KernelInv'
<1> SUFFICES ASSUME KernelInv, K!Tail PROVE KernelInv'
  OBVIOUS
<1>1. /\ stage = "tail" /\ stage' = "tail" /\ at < length /\ at' = at + 1
      /\ total' = total \cup {at} /\ reads' = {at}
      /\ form' = form /\ length' = length /\ acc' = acc
  BY DEF K!Tail
<1>2. /\ at \in Nat /\ length \in Nat /\ total = 0 .. at - 1
      /\ acc \in [K!Group -> [K!Lane -> SUBSET (0 .. at - 1)]]
  BY <1>1 DEF KernelInv
<1>3. K!Lane' = K!Lane /\ K!Component' = K!Component /\ (K!NeverTwice' <=> K!NeverTwice)
  BY <1>1 DEF K!Lane, K!Component, K!NeverTwice
<1>4. total' = 0 .. at' - 1 /\ reads' \subseteq K!Component /\ at' \in 0 .. length'
  BY <1>1, <1>2 DEF K!Component
<1>5. acc' \in [K!Group -> [K!Lane -> SUBSET (0 .. at' - 1)]]
  <2>1. 0 .. at - 1 \subseteq 0 .. at' - 1
    BY <1>1, <1>2
  <2> QED BY <1>1, <1>2, <2>1
<1> QED BY <1>1, <1>3, <1>4, <1>5 DEF KernelInv

(* A call returns when the tail has reached the end. *)
LEMMA ReturnPreserves == KernelInv /\ K!Return => KernelInv'
<1> SUFFICES ASSUME KernelInv, K!Return PROVE KernelInv'
  OBVIOUS
<1>1. /\ stage = "tail" /\ stage' = "done" /\ at >= length /\ reads' = {}
      /\ form' = form /\ length' = length /\ at' = at /\ acc' = acc /\ total' = total
  BY DEF K!Return
<1>2. K!Lane' = K!Lane /\ K!Component' = K!Component /\ (K!NeverTwice' <=> K!NeverTwice)
  BY <1>1 DEF K!Lane, K!Component, K!NeverTwice
<1>3. at = length
  BY <1>1 DEF KernelInv
<1> QED BY <1>1, <1>2, <1>3 DEF KernelInv

(* So does every step. *)
LEMMA KernelStep == KernelInv /\ [K!Next]_kvars => KernelInv'
<1> SUFFICES ASSUME KernelInv, [K!Next]_kvars PROVE KernelInv'
  OBVIOUS
<1>1. CASE K!Wide
  BY <1>1, WidePreserves
<1>2. CASE K!Narrow
  BY <1>2, NarrowPreserves
<1>3. CASE K!AddUp
  BY <1>3, AddUpPreserves
<1>4. CASE K!Tail
  BY <1>4, TailPreserves
<1>5. CASE K!Return
  BY <1>5, ReturnPreserves
<1>6. CASE UNCHANGED kvars
  BY <1>6 DEF kvars, KernelInv, K!NeverTwice, K!Component, K!Lane, K!Step, K!Whole
<1> QED BY <1>1, <1>2, <1>3, <1>4, <1>5, <1>6 DEF K!Next

(* The invariant holds always. *)
LEMMA KernelInvariance == K!Spec => []KernelInv
<1> QED BY KernelInit, KernelStep, PTL DEF K!Spec, K!vars, kvars

-----------------------------------------------------------------------------
(* The results. *)

(* kernel.rs, the SAFETY comment of dot_avx2: no form reads outside of the *)
(* vectors, whatever their length.                                         *)
THEOREM AllReadsInBounds == K!Spec => []K!ReadsInBounds
<1>1. KernelInv => K!ReadsInBounds
  BY DEF KernelInv, K!ReadsInBounds
<1> QED BY <1>1, KernelInvariance, PTL

(* A component is never in two lanes, ... *)
THEOREM LanesAreDisjoint == K!Spec => []K!NeverTwice
<1>1. KernelInv => K!NeverTwice
  BY DEF KernelInv
<1> QED BY <1>1, KernelInvariance, PTL

(* ... no step reads one that has been taken, ... *)
THEOREM NoTermIsTakenAgain == K!Spec => K!ReadsAreNew
<1> DEFINE New == /\ reads' \cap total = {}
                  /\ \A g \in K!Group, l \in K!Lane : reads' \cap acc[g][l] = {}
<1>1. ASSUME KernelInv, [K!Next]_kvars PROVE [New]_kvars
  <2>1. /\ form \in Forms /\ length \in Nat /\ at \in Nat
        /\ \A g \in K!Group, l \in K!Lane : acc[g][l] \subseteq 0 .. at - 1
        /\ total \subseteq 0 .. at - 1
    BY <1>1 DEF KernelInv
  <2>2. CASE K!Wide
    <3>1. \A g \in K!Group, l \in K!Lane : at + g * form.lane + l \in at .. at + K!Step - 1
      BY <2>1, WideBlock
    <3>2. K!Step \in {32, 64}
      BY <2>1, FormBounds
    <3>3. \A x \in reads' : x \in at .. at + K!Step - 1
      BY <2>2, <3>1 DEF K!Wide
    <3>4. \A x \in reads' : x \notin 0 .. at - 1
      BY <2>1, <3>2, <3>3
    <3> QED BY <2>1, <3>4
  <2>3. CASE K!Narrow
    <3>1. \A x \in reads' : x \notin 0 .. at - 1
      BY <2>1, <2>3, FormBounds DEF K!Narrow
    <3> QED BY <2>1, <3>1
  <2>4. CASE K!Tail
    BY <2>1, <2>4 DEF K!Tail
  <2>5. CASE K!AddUp \/ K!Return
    BY <2>5 DEF K!AddUp, K!Return
  <2>6. CASE UNCHANGED kvars
    BY <2>6
  <2> QED BY <1>1, <2>2, <2>3, <2>4, <2>5, <2>6 DEF K!Next
<1> QED BY <1>1, KernelInvariance, PTL DEF K!Spec, K!ReadsAreNew, K!vars, kvars

(* ... and the sum has them all: each form adds every term exactly once.   *)
THEOREM SumIsComplete == K!Spec => []K!TakesAll
<1>1. KernelInv => K!TakesAll
  BY DEF KernelInv, K!TakesAll, K!Component
<1> QED BY <1>1, KernelInvariance, PTL
=============================================================================
