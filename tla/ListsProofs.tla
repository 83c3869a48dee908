----------------------------- MODULE ListsProofs -----------------------------
(* What TLAPS proves about lists and their parts, for the proofs of the other *)
(* modules: minimal numbers, ranks, elements at some places, sorting, sums.   *)
EXTENDS Lists, Integers, FiniteSetTheorems, WellFoundedInduction, NaturalsInduction, TLAPS

\* A set of numbers has a least one.
LEMMA LeastOf ==
  ASSUME NEW S \in SUBSET Nat, S # {}
  PROVE  \E m \in S : \A k \in S : m <= k
<1> DEFINE R == OpToRel(<, Nat)
<1>1. IsWellFoundedOn(R, Nat)
  BY NatLessThanWellFounded
<1>2. PICK m \in S : \A k \in S : ~ (<<k, m>> \in R)
  <2> HIDE DEF R
  <2> QED BY <1>1, WFMin
<1>3. ASSUME NEW k \in S PROVE m <= k
  <2>0. k \in Nat /\ m \in Nat
    OBVIOUS
  <2>1. <<k, m>> \in Nat \X Nat /\ (k < m => <<k, m>> \in R)
    BY <2>0 DEF OpToRel
  <2>2. ~ (k < m)
    BY <2>1, <1>2
  <2>3. QED
    BY <2>0, <2>2
<1>4. QED
  BY <1>3

\* A set of numbers with a bound has a greatest one.
LEMMA GreatestOf ==
  ASSUME NEW S \in SUBSET Nat, S # {}, NEW n \in Nat, \A k \in S : k <= n
  PROVE  \E m \in S : \A k \in S : k <= m
<1> DEFINE T == {n - k : k \in S}
<1>1. T \in SUBSET Nat /\ T # {}
  <2>1. ASSUME NEW k \in S PROVE n - k \in Nat
    BY SMT
  <2>2. PICK k \in S : TRUE
    OBVIOUS
  <2>3. T \in SUBSET Nat
    BY <2>1
  <2>4. n - k \in T
    BY <2>2
  <2> QED
    BY <2>3, <2>4
<1>2. PICK t \in T : \A u \in T : t <= u
  <2> HIDE DEF T
  <2> QED BY <1>1, LeastOf
<1>3. PICK m \in S : t = n - m
  BY Zenon
<1>4. ASSUME NEW k \in S PROVE k <= m
  <2>1. n - m <= n - k
    BY <1>2, <1>3
  <2>2. QED
    BY <2>1
<1>5. QED
  BY <1>4

\* A part of an interval is finite, and no larger than the interval.
LEMMA PartOfInterval ==
  ASSUME NEW a \in Int, NEW n \in Nat, NEW S, S \subseteq a .. a + n - 1
  PROVE  IsFiniteSet(S) /\ Cardinality(S) \in Nat /\ Cardinality(S) <= n
<1>1. IsFiniteSet(a .. a + n - 1) /\ Cardinality(a .. a + n - 1) = n
  <2>1. /\ IsFiniteSet(a .. a + n - 1)
        /\ Cardinality(a .. a + n - 1) = IF a > a + n - 1 THEN 0 ELSE (a + n - 1) - a + 1
    BY FS_Interval
  <2>2. QED
    BY <2>1
<1>2. QED
  BY <1>1, FS_Subset, FS_CardinalityType

\* The places of a part of a list have ranks from one on, without a gap.
LEMMA RankIsBijective ==
  ASSUME NEW S \in SUBSET Nat, IsFiniteSet(S)
  PROVE  /\ Cardinality(S) \in Nat
         /\ \A i \in S : Rank(S, i) \in 1 .. Cardinality(S)
         /\ \A i, j \in S : i < j => Rank(S, i) < Rank(S, j)
         /\ \A k \in 1 .. Cardinality(S) : \E i \in S : Rank(S, i) = k
<1> DEFINE U(i) == {j \in S : j <= i}
           n == Cardinality(S)
           f == [i \in S |-> Rank(S, i)]
<1>1. n \in Nat
  BY FS_CardinalityType
<1>2. ASSUME NEW i \in S
      PROVE  IsFiniteSet(U(i)) /\ Cardinality(U(i)) \in 1 .. n
  <2>1. IsFiniteSet(U(i)) /\ Cardinality(U(i)) <= n /\ Cardinality(U(i)) \in Nat
    <3>1. U(i) \in SUBSET S
      OBVIOUS
    <3>2. IsFiniteSet(U(i)) /\ Cardinality(U(i)) <= n
      <4> HIDE DEF U
      <4> QED BY <3>1, FS_Subset
    <3>3. QED
      <4> HIDE DEF U
      <4> QED BY <3>2, FS_CardinalityType
  <2>2. i \in U(i)
    OBVIOUS
  <2>3. Cardinality(U(i)) # 0
    BY <2>1, <2>2, FS_EmptySet
  <2>4. QED
    BY <2>1, <2>3, <1>1
<1>3. ASSUME NEW i \in S, NEW j \in S, i < j
      PROVE  Rank(S, i) < Rank(S, j)
  <2>1. U(i) \cup {j} \subseteq U(j) /\ j \notin U(i)
    <3>1. i \in Nat /\ j \in Nat /\ \A k \in S : k \in Nat
      OBVIOUS
    <3>2. ~ (j <= i) /\ i <= j
      BY <1>3, <3>1
    <3>3. ASSUME NEW k \in U(i) PROVE k \in U(j)
      <4>1. k \in S /\ k <= i /\ k \in Nat
        OBVIOUS
      <4>2. k <= j
        BY <3>1, <3>2, <4>1
      <4>3. QED
        BY <4>1, <4>2
    <3>4. j \in U(j)
      BY <3>1
    <3>5. j \notin U(i)
      BY <3>2
    <3>6. QED
      <4> HIDE DEF U
      <4> QED BY <3>3, <3>4, <3>5
  <2>2. /\ IsFiniteSet(U(i)) /\ Cardinality(U(i)) \in 1 .. n
        /\ IsFiniteSet(U(j)) /\ Cardinality(U(j)) \in 1 .. n
    BY <1>2
  <2>3. Rank(S, i) = Cardinality(U(i)) /\ Rank(S, j) = Cardinality(U(j))
    BY DEF Rank
  <2>4. Cardinality(U(i) \cup {j}) = Cardinality(U(i)) + 1
    <3> HIDE DEF U
    <3> QED BY <2>1, <2>2, FS_AddElement
  <2>5. Cardinality(U(i) \cup {j}) <= Cardinality(U(j))
    <3> HIDE DEF U
    <3> QED BY <2>1, <2>2, FS_Subset
  <2>6. QED
    <3> HIDE DEF U
    <3> QED BY <2>2, <2>3, <2>4, <2>5, <1>1
<1>4. f \in Injection(S, 1 .. n)
  <2>1. f \in [S -> 1 .. n]
    BY <1>2 DEF Rank
  <2>2. ASSUME NEW i \in S, NEW j \in S, f[i] = f[j] PROVE i = j
    <3>1. f[i] = Rank(S, i) /\ f[j] = Rank(S, j) /\ f[i] \in Int
      BY <2>1
    <3>2. ~ (i < j) /\ ~ (j < i)
      BY <3>1, <1>3, <2>2
    <3>3. QED
      BY <3>2
  <2>3. QED
    BY <2>1, <2>2 DEF Injection, IsInjective
<1>5. Cardinality(1 .. n) = n /\ IsFiniteSet(1 .. n)
  BY <1>1, FS_Interval
<1>6. f \in Surjection(S, 1 .. n)
  <2> HIDE DEF f
  <2> QED BY <1>4, <1>5, FS_Injection
<1>7. \A k \in 1 .. n : \E i \in S : Rank(S, i) = k
  BY <1>6 DEF Surjection
<1>8. QED
  BY <1>1, <1>2, <1>3, <1>7 DEF Rank

\* The k-th place is a place, the places keep their order, and each is met.
LEMMA PlacesInOrder ==
  ASSUME NEW S \in SUBSET Nat, IsFiniteSet(S)
  PROVE  /\ Cardinality(S) \in Nat
         /\ \A k \in 1 .. Cardinality(S) : Place(S, k) \in S
         /\ \A k, l \in 1 .. Cardinality(S) : k < l => Place(S, k) < Place(S, l)
         /\ \A i \in S : \E k \in 1 .. Cardinality(S) : Place(S, k) = i
<1>0. /\ Cardinality(S) \in Nat
      /\ \A i \in S : Rank(S, i) \in 1 .. Cardinality(S)
      /\ \A i, j \in S : i < j => Rank(S, i) < Rank(S, j)
      /\ \A k \in 1 .. Cardinality(S) : \E i \in S : Rank(S, i) = k
      /\ \A i \in S : i \in Nat
  BY RankIsBijective
<1>1. ASSUME NEW k \in 1 .. Cardinality(S)
      PROVE  Place(S, k) \in S /\ Rank(S, Place(S, k)) = k
  BY <1>0 DEF Place
<1>2. ASSUME NEW i \in S
      PROVE  Rank(S, i) \in 1 .. Cardinality(S) /\ Place(S, Rank(S, i)) = i
  <2>1. Rank(S, i) \in 1 .. Cardinality(S)
    BY <1>0
  <2>2. PICK p \in S : p = Place(S, Rank(S, i)) /\ Rank(S, p) = Rank(S, i)
    BY <2>1, <1>1
  <2>3. i \in Nat /\ p \in Nat /\ Rank(S, p) \in Nat
    BY <2>1, <2>2, <1>0
  <2>4. ~ (i < p) /\ ~ (p < i)
    BY <2>2, <2>3, <1>0
  <2>5. QED
    BY <2>1, <2>2, <2>3, <2>4
<1>3. ASSUME NEW k \in 1 .. Cardinality(S), NEW l \in 1 .. Cardinality(S), k < l
      PROVE  Place(S, k) < Place(S, l)
  <2>1. PICK p \in S : p = Place(S, k) /\ Rank(S, p) = k
    BY <1>1
  <2>2. PICK q \in S : q = Place(S, l) /\ Rank(S, q) = l
    BY <1>1
  <2>3. p \in Nat /\ q \in Nat /\ k \in Nat /\ l \in Nat
    BY <1>0
  <2>4. ~ (q < p) /\ q # p
    BY <2>1, <2>2, <2>3, <1>0, <1>3
  <2>5. QED
    BY <2>1, <2>2, <2>3, <2>4
<1>4. QED
  BY <1>0, <1>1, <1>2, <1>3

\* The elements at some places of a list: as many as the places, each of them
\* one of the list's, in its order, and each place is there.
LEMMA AtPlacesProperties ==
  ASSUME NEW T, NEW list \in Seq(T), NEW S \in SUBSET DOMAIN list
  PROVE  /\ IsFiniteSet(S) /\ Cardinality(S) \in Nat /\ Cardinality(S) <= Len(list)
         /\ AtPlaces(list, S) \in Seq(T)
         /\ Len(AtPlaces(list, S)) = Cardinality(S)
         /\ \A k \in 1 .. Cardinality(S) :
              Place(S, k) \in S /\ AtPlaces(list, S)[k] = list[Place(S, k)]
         /\ \A k, l \in 1 .. Cardinality(S) : k < l => Place(S, k) < Place(S, l)
         /\ \A i \in S : \E k \in 1 .. Cardinality(S) : Place(S, k) = i
<1>1. S \in SUBSET Nat
  OBVIOUS
<1>2. IsFiniteSet(S) /\ Cardinality(S) \in Nat /\ Cardinality(S) <= Len(list)
  <2>1. S \subseteq 1 .. 1 + Len(list) - 1 /\ Len(list) \in Nat /\ 1 \in Int
    OBVIOUS
  <2>2. QED
    BY <2>1, PartOfInterval
<1>3. /\ \A k \in 1 .. Cardinality(S) : Place(S, k) \in S
      /\ \A k, l \in 1 .. Cardinality(S) : k < l => Place(S, k) < Place(S, l)
      /\ \A i \in S : \E k \in 1 .. Cardinality(S) : Place(S, k) = i
  BY <1>1, <1>2, PlacesInOrder
<1>4. AtPlaces(list, S) \in [1 .. Cardinality(S) -> T]
  BY <1>3 DEF AtPlaces
<1>5. AtPlaces(list, S) \in Seq(T) /\ Len(AtPlaces(list, S)) = Cardinality(S)
  BY <1>2, <1>4
<1>6. QED
  BY <1>2, <1>3, <1>5 DEF AtPlaces

\* What a list says anywhere it says somewhere for the first time.
LEMMA FirstOfEquals ==
  ASSUME NEW n \in Nat, NEW key, NEW i \in 1 .. n
  PROVE  \E j \in 1 .. i : key[j] = key[i] /\ \A k \in 1 .. n : k < j => key[k] # key[j]
<1> DEFINE S == {k \in 1 .. n : key[k] = key[i]}
<1>1. S \in SUBSET Nat /\ S # {}
  OBVIOUS
<1>2. PICK j \in S : \A k \in S : j <= k
  <2> HIDE DEF S
  <2> QED BY <1>1, LeastOf
<1>3. j \in 1 .. i /\ key[j] = key[i]
  BY <1>2
<1>4. ASSUME NEW k \in 1 .. n, k < j PROVE key[k] # key[j]
  BY <1>2, <1>3, <1>4
<1>5. QED
  BY <1>3, <1>4

\* f starts at base and takes a step at each of the numbers up to n.
Solves(f, T, n, base, step) ==
  /\ f \in [0 .. n -> T] /\ f[0] = base
  /\ \A k \in 1 .. n : f[k] = step[k][f[k - 1]]

\* A recursive definition on an initial segment of the numbers has a solution.
LEMMA RecursionExists ==
  ASSUME NEW T, NEW N \in Nat, NEW base \in T, NEW step \in [1 .. N -> [T -> T]]
  PROVE  \E f : Solves(f, T, N, base, step)
<1> USE DEF Solves
<1> DEFINE bad == {m \in 0 .. N : ~ \E f : Solves(f, T, m, base, step)}
<1>1. ASSUME bad # {} PROVE FALSE
  <2>1. bad \in SUBSET Nat
    BY SMT
  <2>2. PICK m \in bad : \A k \in bad : m <= k
    <3> HIDE DEF bad
    <3> QED BY <1>1, <2>1, LeastOf
  <2>3. m \in 0 .. N
    OBVIOUS
  <2>4. m # 0
    <3> DEFINE f == [n \in 0 .. 0 |-> base]
    <3>1. Solves(f, T, 0, base, step)
      BY SMT
    <3> QED
      BY <2>2, <3>1, Zenon
  <2>5. m - 1 \in 0 .. N /\ ~(m <= m - 1) /\ m \in 1 .. N
    BY <2>3, <2>4, SMT
  <2>6. PICK f : Solves(f, T, m - 1, base, step)
    BY <2>2, <2>5, Zenon
  <2> DEFINE g == [n \in 0 .. m |-> IF n = m THEN step[m][f[m - 1]] ELSE f[n]]
  <2>7. f[m - 1] \in T
    BY <2>5, <2>6, SMT
  <2>8. g \in [0 .. m -> T] /\ g[0] = base
    BY <2>4, <2>5, <2>6, <2>7, SMT
  <2>9. ASSUME NEW n \in 1 .. m PROVE g[n] = step[n][g[n - 1]]
    <3>1. n - 1 \in 0 .. m /\ n - 1 # m /\ g[n - 1] = f[n - 1]
      BY <2>5, SMT
    <3>2. CASE n = m
      BY <3>1, <3>2, SMT
    <3>3. CASE n # m
      <4>1. n \in 1 .. m - 1
        BY <3>3, <2>5, SMT
      <4>2. f[n] = step[n][f[n - 1]]
        BY <2>6, <4>1, Zenon
      <4>3. g[n] = f[n]
        BY <3>3, SMT
      <4> QED
        BY <3>1, <4>2, <4>3, Zenon
    <3> QED
      BY <3>2, <3>3
  <2> HIDE DEF g
  <2>10. Solves(g, T, m, base, step)
    BY <2>8, <2>9, Zenon
  <2> QED
    BY <2>2, <2>10, Zenon
<1>2. N \in 0 .. N
  BY SMT
<1> QED
  BY <1>1, <1>2, Zenon

\* In which order two places come when equal keys keep theirs.
Earlier(key, i, j) == key[i] < key[j] \/ (key[i] = key[j] /\ i < j)

\* Stable ranks run from one on, without a gap, in the order of the keys.
LEMMA StableRankIsBijective ==
  ASSUME NEW n \in Nat, NEW key \in [1 .. n -> Int]
  PROVE  /\ \A i \in 1 .. n : StableRank(key, i) \in 1 .. n
         /\ \A i, j \in 1 .. n : Earlier(key, i, j) => StableRank(key, i) < StableRank(key, j)
         /\ \A k \in 1 .. n : \E i \in 1 .. n : StableRank(key, i) = k
<1> DEFINE S == 1 .. n
           U(i) == {j \in S : key[j] < key[i] \/ (key[j] = key[i] /\ j <= i)}
           f == [i \in S |-> StableRank(key, i)]
<1>1. IsFiniteSet(S) /\ Cardinality(S) = n
  BY FS_Interval
<1>2. \A i \in S : key[i] \in Int /\ i \in Nat
  BY SMT
<1>3. \A i \in S : StableRank(key, i) = Cardinality(U(i))
  <2>1. DOMAIN key = S
    OBVIOUS
  <2>2. QED
    BY <2>1, Zenon DEF StableRank
<1>4. ASSUME NEW i \in S
      PROVE  IsFiniteSet(U(i)) /\ Cardinality(U(i)) \in 1 .. n
  <2>1. U(i) \in SUBSET S
    OBVIOUS
  <2>2. i \in U(i)
    BY <1>2, SMT
  <2>3. IsFiniteSet(U(i)) /\ Cardinality(U(i)) <= n /\ Cardinality(U(i)) \in Nat
    <3> HIDE DEF U, S
    <3> QED BY <1>1, <2>1, FS_Subset, FS_CardinalityType
  <2>4. Cardinality(U(i)) # 0
    <3> HIDE DEF U
    <3> QED BY <2>2, <2>3, FS_EmptySet
  <2>5. QED
    <3> HIDE DEF U
    <3> QED BY <2>3, <2>4, SMT
<1>5. ASSUME NEW i \in S, NEW j \in S, Earlier(key, i, j)
      PROVE  StableRank(key, i) < StableRank(key, j)
  <2>1. U(i) \cup {j} \subseteq U(j) /\ j \notin U(i)
    <3>1. ASSUME NEW k \in U(i) PROVE k \in U(j)
      BY <1>2, <1>5, SMT DEF Earlier
    <3>2. j \in U(j) /\ j \notin U(i)
      BY <1>2, <1>5, SMT DEF Earlier
    <3>3. QED
      <4> HIDE DEF U
      <4> QED BY <3>1, <3>2
  <2>2. /\ IsFiniteSet(U(i)) /\ Cardinality(U(i)) \in 1 .. n
        /\ IsFiniteSet(U(j)) /\ Cardinality(U(j)) \in 1 .. n
    BY <1>4, Zenon
  <2>3. Cardinality(U(i) \cup {j}) = Cardinality(U(i)) + 1
    <3> HIDE DEF U
    <3> QED BY <2>1, <2>2, FS_AddElement
  <2>4. Cardinality(U(i) \cup {j}) <= Cardinality(U(j))
    <3> HIDE DEF U
    <3> QED BY <2>1, <2>2, FS_Subset
  <2>5. StableRank(key, i) = Cardinality(U(i)) /\ StableRank(key, j) = Cardinality(U(j))
    BY <1>3, Zenon
  <2>6. QED
    <3> HIDE DEF U
    <3> QED BY <2>2, <2>3, <2>4, <2>5, SMT
<1>6. f \in Injection(S, S)
  <2>1. f \in [S -> S]
    <3> HIDE DEF U
    <3> QED BY <1>3, <1>4
  <2>2. ASSUME NEW i \in S, NEW j \in S, f[i] = f[j] PROVE i = j
    <3>1. f[i] = StableRank(key, i) /\ f[j] = StableRank(key, j) /\ f[i] \in Int
      BY <2>1
    <3>2. StableRank(key, i) = StableRank(key, j) /\ StableRank(key, i) \in Int
      BY <3>1, <2>2, Zenon
    <3>3. ~ (StableRank(key, i) < StableRank(key, j)) /\ ~ (StableRank(key, j) < StableRank(key, i))
      BY <3>2, SMT
    <3>4. ~ Earlier(key, i, j) /\ ~ Earlier(key, j, i)
      BY <3>3, <1>5, Zenon
    <3>5. QED
      BY <3>4, <1>2, SMT DEF Earlier
  <2>3. QED
    BY <2>1, <2>2 DEF Injection, IsInjective
<1>7. f \in Surjection(S, S)
  <2> HIDE DEF f, S
  <2> QED BY <1>1, <1>6, FS_Injection
<1>8. \A k \in S : \E i \in S : StableRank(key, i) = k
  BY <1>7, Zenon DEF Surjection
<1>9. \A i \in S : StableRank(key, i) \in S
  <2> HIDE DEF U
  <2> QED BY <1>3, <1>4
<1>10. QED
  BY <1>5, <1>8, <1>9

\* The sorted list has the list's elements, each place once, in the order of the
\* keys, and equal keys in the order of the list.
LEMMA SortedByProperties ==
  ASSUME NEW T, NEW list \in Seq(T), NEW key \in [1 .. Len(list) -> Int]
  PROVE  /\ SortedBy(list, key) \in Seq(T) /\ Len(SortedBy(list, key)) = Len(list)
         /\ \A k \in 1 .. Len(list) : /\ StablePlace(key, k) \in 1 .. Len(list)
                                      /\ SortedBy(list, key)[k] = list[StablePlace(key, k)]
         /\ \A k, l \in 1 .. Len(list) :
              k < l => Earlier(key, StablePlace(key, k), StablePlace(key, l))
         /\ \A i \in 1 .. Len(list) : \E k \in 1 .. Len(list) : StablePlace(key, k) = i
<1> DEFINE n == Len(list)
<1>0. /\ n \in Nat /\ DOMAIN list = 1 .. n /\ DOMAIN key = 1 .. n
      /\ \A i \in 1 .. n : list[i] \in T /\ key[i] \in Int /\ i \in Nat
  OBVIOUS
<1>1. /\ \A i \in 1 .. n : StableRank(key, i) \in 1 .. n
      /\ \A i, j \in 1 .. n : Earlier(key, i, j) => StableRank(key, i) < StableRank(key, j)
      /\ \A k \in 1 .. n : \E i \in 1 .. n : StableRank(key, i) = k
  BY <1>0, StableRankIsBijective
<1>2. ASSUME NEW k \in 1 .. n
      PROVE  StablePlace(key, k) \in 1 .. n /\ StableRank(key, StablePlace(key, k)) = k
  BY <1>0, <1>1 DEF StablePlace
<1>3. \A i, j \in 1 .. n : i = j \/ Earlier(key, i, j) \/ Earlier(key, j, i)
  BY <1>0, SMT DEF Earlier
<1>4. ASSUME NEW k \in 1 .. n, NEW l \in 1 .. n, k < l
      PROVE  Earlier(key, StablePlace(key, k), StablePlace(key, l))
  <2>1. PICK p \in 1 .. n : p = StablePlace(key, k) /\ StableRank(key, p) = k
    BY <1>2
  <2>2. PICK q \in 1 .. n : q = StablePlace(key, l) /\ StableRank(key, q) = l
    BY <1>2
  <2>3. p # q /\ ~ (StableRank(key, q) < StableRank(key, p))
    BY <2>1, <2>2, <1>0, <1>4, SMT
  <2>4. ~ Earlier(key, q, p)
    BY <2>3, <1>1, Zenon
  <2>5. QED
    BY <2>1, <2>2, <2>3, <2>4, <1>3, Zenon
<1>5. ASSUME NEW i \in 1 .. n PROVE \E k \in 1 .. n : StablePlace(key, k) = i
  <2>1. PICK k \in 1 .. n : StableRank(key, i) = k
    BY <1>1
  <2>2. PICK p \in 1 .. n : p = StablePlace(key, k) /\ StableRank(key, p) = k
    BY <1>2
  <2>3. ~ (StableRank(key, i) < StableRank(key, p)) /\ ~ (StableRank(key, p) < StableRank(key, i))
    BY <2>1, <2>2, <1>0, SMT
  <2>4. ~ Earlier(key, i, p) /\ ~ Earlier(key, p, i)
    BY <2>3, <1>1, Zenon
  <2>5. QED
    BY <2>2, <2>4, <1>3, Zenon
<1>6. SortedBy(list, key) = [k \in 1 .. n |-> list[StablePlace(key, k)]]
  BY <1>0 DEF SortedBy
<1>7. SortedBy(list, key) \in [1 .. n -> T]
  BY <1>0, <1>2, <1>6
<1>8. SortedBy(list, key) \in Seq(T) /\ Len(SortedBy(list, key)) = n
  BY <1>0, <1>7
<1>9. QED
  BY <1>2, <1>4, <1>5, <1>6, <1>8, Zenon
-----------------------------------------------------------------------------
(* Sums                                                                     *)

\* The element that a sum takes first.
FirstIn(S) == CHOOSE x \in S : TRUE

\* g sums up the values of fun over each of the sets.
Sums(g, fun, Sets) ==
  g = [s \in Sets |-> IF s = {} THEN 0 ELSE fun[FirstIn(s)] + g[s \ {FirstIn(s)}]]

LEMMA FirstIsIn ==
  ASSUME NEW S, S # {}
  PROVE  FirstIn(S) \in S
BY DEF FirstIn

LEMMA SumsExist ==
  ASSUME NEW fun, NEW S, IsFiniteSet(S)
  PROVE  \E g : Sums(g, fun, SUBSET S)
<1> DEFINE Few(n) == {s \in SUBSET S : Cardinality(s) <= n}
           c == Cardinality(S)
           bad == {n \in 0 .. c : ~ \E g : Sums(g, fun, Few(n))}
<1>1. c \in Nat /\ \A s \in SUBSET S : IsFiniteSet(s) /\ Cardinality(s) \in 0 .. c
  BY FS_CardinalityType, FS_Subset
<1>2. ASSUME bad # {} PROVE FALSE
  <2>1. bad \in SUBSET Nat
    <3> HIDE DEF c, Few
    <3> QED BY <1>1
  <2>2. PICK m \in bad : \A k \in bad : m <= k
    <3> HIDE DEF bad
    <3> QED BY <1>2, <2>1, LeastOf
  <2>3. m \in 0 .. c /\ ~ \E g : Sums(g, fun, Few(m))
    BY <2>2, Zenon
  <2>4. CASE m = 0
    <3>1. \A s \in Few(m) : s = {}
      BY <1>1, <2>4, FS_EmptySet
    <3> DEFINE g == [s \in Few(m) |-> 0]
    <3>2. g = [s \in Few(m) |-> IF s = {} THEN 0 ELSE fun[FirstIn(s)] + g[s \ {FirstIn(s)}]]
      <4> HIDE DEF Few
      <4> QED BY <3>1
    <3>3. QED
      BY <2>3, <3>2, Zenon DEF Sums
  <2>5. CASE m # 0
    <3>1. m - 1 \in 0 .. c /\ ~ (m <= m - 1)
      BY <1>1, <2>3, <2>5, SMT
    <3>2. PICK f : Sums(f, fun, Few(m - 1))
      BY <2>2, <3>1, Zenon
    <3> DEFINE Next(s, h) == IF s = {} THEN 0 ELSE fun[FirstIn(s)] + h[s \ {FirstIn(s)}]
               g == [s \in Few(m) |-> Next(s, f)]
    <3>3. ASSUME NEW s \in Few(m), s # {} PROVE g[s \ {FirstIn(s)}] = f[s \ {FirstIn(s)}]
      <4> DEFINE u == s \ {FirstIn(s)}
      <4>1. FirstIn(s) \in s
        BY <3>3, FirstIsIn, Zenon
      <4>2. u \in SUBSET S /\ Cardinality(u) = Cardinality(s) - 1 /\ Cardinality(s) <= m
            /\ Cardinality(s) \in 0 .. c
        BY <1>1, <4>1, FS_RemoveElement
      <4>3. Cardinality(u) <= m - 1 /\ Cardinality(u) <= m
        BY <1>1, <2>3, <4>2, SMT
      <4>4. u \in Few(m) /\ u \in Few(m - 1)
        BY <4>2, <4>3, Zenon
      <4> HIDE DEF u, Few
      <4>5. g[u] = Next(u, f)
        BY <4>4, Zenon
      <4>6. f[u] = Next(u, f)
        <5>1. f = [t \in Few(m - 1) |-> IF t = {} THEN 0 ELSE fun[FirstIn(t)] + f[t \ {FirstIn(t)}]]
          BY <3>2, Zenon DEF Sums
        <5>2. PICK h : h = f
          OBVIOUS
        <5>3. f = [t \in Few(m - 1) |-> IF t = {} THEN 0 ELSE fun[FirstIn(t)] + h[t \ {FirstIn(t)}]]
          BY <5>1, <5>2, Zenon
        <5>4. f[u] = IF u = {} THEN 0 ELSE fun[FirstIn(u)] + h[u \ {FirstIn(u)}]
          BY <4>4, <5>3, Zenon
        <5>5. QED
          BY <5>2, <5>4, Zenon
      <4>7. QED
        BY <4>5, <4>6, Zenon DEF u
    <3> HIDE DEF Few
    <3>4. \A s \in Few(m) : Next(s, f) = Next(s, g)
      <4> HIDE DEF g
      <4> QED BY <3>3, Zenon
    <3>5. g = [s \in Few(m) |-> Next(s, g)]
      <4>1. PICK h : h = g
        OBVIOUS
      <4>2. \A s \in Few(m) : Next(s, f) = Next(s, h)
        BY <3>4, <4>1, Zenon
      <4>3. g = [s \in Few(m) |-> Next(s, h)]
        BY <4>2, Zenon
      <4>4. QED
        BY <4>1, <4>3, Zenon
    <3>6. QED
      BY <2>3, <3>5, Zenon DEF Sums
  <2>6. QED
    BY <2>4, <2>5, Zenon
<1>3. c \in 0 .. c
  BY <1>1, SMT
<1>4. Few(c) = SUBSET S
  BY <1>1, SMT
<1> HIDE DEF Few
<1>5. \E g : Sums(g, fun, Few(c))
  BY <1>2, <1>3, Zenon
<1>6. QED
  BY <1>4, <1>5, Zenon

\* A sum of no values is 0, and one of some is the first and the sum of the others.
LEMMA SumUnfolds ==
  ASSUME NEW fun, NEW S, IsFiniteSet(S)
  PROVE  \E g : Sums(g, fun, SUBSET S) /\ SumFunctionOnSet(fun, S) = g[S]
<1> DEFINE g == CHOOSE g : g = [s \in SUBSET S |-> IF s = {} THEN 0 ELSE fun[CHOOSE x \in s : TRUE] + g[s \ {CHOOSE x \in s : TRUE}]]
<1>1. \E h : h = [s \in SUBSET S |-> IF s = {} THEN 0 ELSE fun[CHOOSE x \in s : TRUE] + h[s \ {CHOOSE x \in s : TRUE}]]
  <2>1. PICK h : Sums(h, fun, SUBSET S)
    BY SumsExist, Zenon
  <2>2. QED
    BY <2>1, Zenon DEF Sums, FirstIn
<1>2. g = [s \in SUBSET S |-> IF s = {} THEN 0 ELSE fun[CHOOSE x \in s : TRUE] + g[s \ {CHOOSE x \in s : TRUE}]]
  BY <1>1, Zenon
<1>3. SumFunctionOnSet(fun, S) = g[S]
  BY Zenon DEF SumFunctionOnSet, FoldFunctionOnSet, MapThenFoldSet
<1>4. QED
  BY <1>2, <1>3, Zenon DEF Sums, FirstIn

\* One of the values and the sum of the others: the values are numbers.
LEMMA SumOfNone ==
  ASSUME NEW fun
  PROVE  SumFunctionOnSet(fun, {}) = 0
<1>1. PICK g : Sums(g, fun, SUBSET {}) /\ SumFunctionOnSet(fun, {}) = g[{}]
  BY FS_EmptySet, SumUnfolds, Zenon
<1>2. QED
  BY <1>1, Zenon DEF Sums

LEMMA SumOfSome ==
  ASSUME NEW fun, NEW S, IsFiniteSet(S), S # {}
  PROVE  SumFunctionOnSet(fun, S) = fun[FirstIn(S)] + SumFunctionOnSet(fun, S \ {FirstIn(S)})
<1> DEFINE U == S \ {FirstIn(S)}
<1>1. IsFiniteSet(U) /\ U \in SUBSET S
  BY FS_RemoveElement
<1>2. PICK g : Sums(g, fun, SUBSET S) /\ SumFunctionOnSet(fun, S) = g[S]
  BY SumUnfolds, Zenon
<1>3. PICK h : Sums(h, fun, SUBSET U) /\ SumFunctionOnSet(fun, U) = h[U]
  BY <1>1, SumUnfolds, Zenon
<1>4. h[U] = g[U]
  <2> DEFINE bad == {n \in Nat : \E s \in SUBSET U : Cardinality(s) = n /\ h[s] # g[s]}
  <2>1. ASSUME bad # {} PROVE FALSE
    <3>1. bad \in SUBSET Nat
      BY Zenon
    <3>2. PICK m \in bad : \A k \in bad : m <= k
      <4> HIDE DEF bad
      <4> QED BY <2>1, <3>1, LeastOf
    <3>3. PICK s \in SUBSET U : Cardinality(s) = m /\ h[s] # g[s]
      BY <3>2, Zenon
    <3>4. s \in SUBSET S
      BY <1>1, Zenon
    <3>5. h[s] = IF s = {} THEN 0 ELSE fun[FirstIn(s)] + h[s \ {FirstIn(s)}]
      <4>1. PICK f : f = h
        OBVIOUS
      <4>2. h = [t \in SUBSET U |-> IF t = {} THEN 0 ELSE fun[FirstIn(t)] + f[t \ {FirstIn(t)}]]
        BY <1>3, <4>1, Zenon DEF Sums
      <4>3. QED
        BY <4>1, <4>2, Zenon
    <3>6. g[s] = IF s = {} THEN 0 ELSE fun[FirstIn(s)] + g[s \ {FirstIn(s)}]
      <4>1. PICK f : f = g
        OBVIOUS
      <4>2. g = [t \in SUBSET S |-> IF t = {} THEN 0 ELSE fun[FirstIn(t)] + f[t \ {FirstIn(t)}]]
        BY <1>2, <4>1, Zenon DEF Sums
      <4>3. QED
        BY <3>4, <4>1, <4>2, Zenon
    <3>7. s # {}
      BY <3>3, <3>5, <3>6, Zenon
    <3> DEFINE t == s \ {FirstIn(s)}
    <3>8. t \in SUBSET U /\ IsFiniteSet(s) /\ Cardinality(t) = m - 1 /\ Cardinality(t) \in Nat
      <4>1. FirstIn(s) \in s
        BY <3>7, FirstIsIn, Zenon
      <4>2. IsFiniteSet(s)
        BY <1>1, FS_Subset
      <4>3. IsFiniteSet(t) /\ Cardinality(t) = m - 1
        BY <3>3, <4>1, <4>2, FS_RemoveElement
      <4>4. QED
        BY <4>2, <4>3, FS_CardinalityType
    <3>9. m \in Nat
      BY <3>1, <3>2, Zenon
    <3>10. ~ (m <= m - 1)
      BY <3>9, SMT
    <3>11. h[t] = g[t]
      BY <3>2, <3>8, <3>10, Zenon
    <3>12. QED
      BY <3>3, <3>5, <3>6, <3>7, <3>11, Zenon
  <2>2. IsFiniteSet(U) /\ Cardinality(U) \in Nat
    BY <1>1, FS_CardinalityType
  <2>3. QED
    <3> HIDE DEF U
    <3> QED BY <2>1, <2>2, Zenon
<1>5. g[S] = fun[FirstIn(S)] + g[U]
  <2>1. PICK f : f = g
    OBVIOUS
  <2>2. g = [t \in SUBSET S |-> IF t = {} THEN 0 ELSE fun[FirstIn(t)] + f[t \ {FirstIn(t)}]]
    BY <1>2, <2>1, Zenon DEF Sums
  <2>3. S \in SUBSET S
    OBVIOUS
  <2>4. QED
    BY <2>1, <2>2, <2>3, Zenon
<1>6. QED
  BY <1>2, <1>3, <1>4, <1>5, Zenon

\* Sums of numbers are numbers.
LEMMA SumIsNat ==
  ASSUME NEW S, IsFiniteSet(S), NEW fun, \A x \in S : fun[x] \in Nat
  PROVE  SumFunctionOnSet(fun, S) \in Nat
<1> DEFINE bad == {n \in Nat : \E s \in SUBSET S : Cardinality(s) = n /\ SumFunctionOnSet(fun, s) \notin Nat}
<1>1. ASSUME bad # {} PROVE FALSE
  <2>1. bad \in SUBSET Nat
    BY Zenon
  <2>2. PICK m \in bad : \A k \in bad : m <= k
    <3> HIDE DEF bad
    <3> QED BY <1>1, <2>1, LeastOf
  <2>3. PICK s \in SUBSET S : Cardinality(s) = m /\ SumFunctionOnSet(fun, s) \notin Nat
    BY <2>2, Zenon
  <2>4. s # {}
    <3>1. SUFFICES ASSUME s = {} PROVE FALSE
      OBVIOUS
    <3>2. SumFunctionOnSet(fun, s) = 0 /\ 0 \in Nat
      BY <3>1, SumOfNone, SMT
    <3>3. QED
      BY <2>3, <3>2, Zenon
  <2> DEFINE t == s \ {FirstIn(s)}
  <2>5. FirstIn(s) \in s /\ IsFiniteSet(s)
    BY <2>4, FirstIsIn, FS_Subset
  <2>6. t \in SUBSET S /\ Cardinality(t) = m - 1 /\ Cardinality(t) \in Nat
    <3>1. IsFiniteSet(t) /\ Cardinality(t) = m - 1
      BY <2>3, <2>5, FS_RemoveElement
    <3>2. QED
      BY <3>1, FS_CardinalityType
  <2>7. ~ (m <= m - 1)
    BY <2>1, SMT
  <2>8. SumFunctionOnSet(fun, t) \in Nat
    BY <2>2, <2>6, <2>7, Zenon
  <2>9. SumFunctionOnSet(fun, s) = fun[FirstIn(s)] + SumFunctionOnSet(fun, t)
    BY <2>4, <2>5, SumOfSome, Zenon
  <2>10. fun[FirstIn(s)] \in Nat
    BY <2>5, Zenon
  <2>11. QED
    <3> HIDE DEF t
    <3>1. fun[FirstIn(s)] + SumFunctionOnSet(fun, t) \in Nat
      BY <2>8, <2>10, SMT
    <3>2. QED
      BY <2>3, <2>9, <3>1, Zenon
<1>2. Cardinality(S) \in Nat /\ S \in SUBSET S
  BY FS_CardinalityType
<1>3. QED
  BY <1>1, <1>2, Zenon

\* Any of the values can be taken first.
LEMMA SumTakesOut ==
  ASSUME NEW S, IsFiniteSet(S), NEW fun, \A x \in S : fun[x] \in Nat, NEW x \in S
  PROVE  /\ SumFunctionOnSet(fun, S \ {x}) \in Nat
         /\ SumFunctionOnSet(fun, S) = fun[x] + SumFunctionOnSet(fun, S \ {x})
<1> DEFINE Good(s) == \A y \in s :
                        SumFunctionOnSet(fun, s) = fun[y] + SumFunctionOnSet(fun, s \ {y})
           bad == {n \in Nat : \E s \in SUBSET S : Cardinality(s) = n /\ ~ Good(s)}
<1>1. \A s \in SUBSET S : /\ IsFiniteSet(s) /\ Cardinality(s) \in Nat
                         /\ SumFunctionOnSet(fun, s) \in Nat
  <2>1. SUFFICES ASSUME NEW s \in SUBSET S
                 PROVE  /\ IsFiniteSet(s) /\ Cardinality(s) \in Nat
                        /\ SumFunctionOnSet(fun, s) \in Nat
    OBVIOUS
  <2>2. IsFiniteSet(s) /\ Cardinality(s) \in Nat
    BY FS_Subset, FS_CardinalityType
  <2>3. \A y \in s : fun[y] \in Nat
    BY Zenon
  <2>4. QED
    BY <2>2, <2>3, SumIsNat, Zenon
<1>2. ASSUME NEW s \in SUBSET S, NEW y \in s
      PROVE  s \ {y} \in SUBSET S /\ Cardinality(s \ {y}) = Cardinality(s) - 1
  BY <1>1, FS_RemoveElement
<1>3. ASSUME bad # {} PROVE FALSE
  <2>1. bad \in SUBSET Nat
    BY Zenon
  <2>2. PICK m \in bad : \A k \in bad : m <= k
    <3> HIDE DEF bad
    <3> QED BY <1>3, <2>1, LeastOf
  <2>3. PICK s \in SUBSET S : Cardinality(s) = m /\ ~ Good(s)
    BY <2>2, Zenon
  <2>4. PICK y \in s : SumFunctionOnSet(fun, s) # fun[y] + SumFunctionOnSet(fun, s \ {y})
    BY <2>3, Zenon
  <2> DEFINE f == FirstIn(s)
             u == (s \ {f}) \ {y}
  <2>5. f \in s /\ SumFunctionOnSet(fun, s) = fun[f] + SumFunctionOnSet(fun, s \ {f})
    BY <1>1, FirstIsIn, SumOfSome, Zenon
  <2> HIDE DEF f
  <2>6. y # f
    BY <2>4, <2>5, Zenon
  <2>7. ~ (m <= m - 1) /\ m - 1 \in Nat
    <3>1. Cardinality(s \ {y}) \in Nat /\ Cardinality(s \ {y}) = m - 1
      BY <1>1, <1>2, <2>3, Zenon
    <3>2. QED
      BY <2>1, <3>1, SMT
  <2>8. ASSUME NEW z \in s PROVE Good(s \ {z})
    <3>1. s \ {z} \in SUBSET S /\ Cardinality(s \ {z}) = m - 1
      BY <1>2, <2>3, Zenon
    <3>2. QED
      BY <2>2, <2>7, <3>1, Zenon
  <2>9. SumFunctionOnSet(fun, s \ {f}) = fun[y] + SumFunctionOnSet(fun, u)
    <3>1. y \in s \ {f}
      BY <2>6, Zenon
    <3>2. QED
      BY <2>5, <2>8, <3>1, Zenon
  <2>10. SumFunctionOnSet(fun, s \ {y}) = fun[f] + SumFunctionOnSet(fun, u)
    <3>1. f \in s \ {y} /\ (s \ {y}) \ {f} = u
      BY <2>5, <2>6, Zenon
    <3>2. QED
      BY <2>8, <3>1, Zenon
  <2>11. fun[f] \in Nat /\ fun[y] \in Nat /\ SumFunctionOnSet(fun, u) \in Nat
    <3>1. u \in SUBSET S
      BY Zenon
    <3>2. QED
      BY <1>1, <2>5, <3>1, Zenon
  <2> HIDE DEF u
  <2>12. fun[f] + (fun[y] + SumFunctionOnSet(fun, u)) = fun[y] + (fun[f] + SumFunctionOnSet(fun, u))
    BY <2>11, SMT
  <2>13. QED
    BY <2>4, <2>5, <2>9, <2>10, <2>12, Zenon
<1>4. S \in SUBSET S /\ S \ {x} \in SUBSET S
  BY Zenon
<1>5. Good(S)
  <2>1. Cardinality(S) \notin bad /\ Cardinality(S) \in Nat
    BY <1>1, <1>3, Zenon
  <2>2. QED
    BY <1>4, <2>1, Zenon
<1>6. QED
  BY <1>1, <1>4, <1>5, Zenon

\* Other names for what is summed up do not change the sum.
LEMMA SumIsRenamed ==
  ASSUME NEW S, IsFiniteSet(S), NEW h, \A x, y \in S : h[x] = h[y] => x = y,
         NEW fun, NEW gun, \A x \in S : fun[x] = gun[h[x]] /\ fun[x] \in Nat
  PROVE  /\ IsFiniteSet({h[x] : x \in S})
         /\ SumFunctionOnSet(fun, S) = SumFunctionOnSet(gun, {h[x] : x \in S})
<1> DEFINE Image(s) == {h[x] : x \in s}
           bad == {n \in Nat : \E s \in SUBSET S :
                     Cardinality(s) = n /\ SumFunctionOnSet(fun, s) # SumFunctionOnSet(gun, Image(s))}
<1>1. ASSUME NEW s \in SUBSET S
      PROVE  IsFiniteSet(s) /\ Cardinality(s) \in Nat /\ IsFiniteSet(Image(s))
  <2>1. IsFiniteSet(s) /\ Cardinality(s) \in Nat
    BY FS_Subset, FS_CardinalityType
  <2>2. [x \in s |-> h[x]] \in Surjection(s, Image(s))
    BY DEF Surjection
  <2>3. QED
    <3> HIDE DEF Image
    <3> QED BY <2>1, <2>2, FS_Surjection, Zenon
<1>2. ASSUME bad # {} PROVE FALSE
  <2>1. bad \in SUBSET Nat
    BY Zenon
  <2>2. PICK m \in bad : \A k \in bad : m <= k
    <3> HIDE DEF bad
    <3> QED BY <1>2, <2>1, LeastOf
  <2>3. PICK s \in SUBSET S : Cardinality(s) = m
           /\ SumFunctionOnSet(fun, s) # SumFunctionOnSet(gun, Image(s))
    BY <2>2, Zenon
  <2>4. s # {}
    <3>1. SUFFICES ASSUME s = {} PROVE FALSE
      OBVIOUS
    <3>2. Image(s) = {}
      BY <3>1, Zenon
    <3>3. QED
      BY <2>3, <3>1, <3>2, SumOfNone, Zenon
  <2> DEFINE f == FirstIn(s)
             t == s \ {f}
  <2>5. f \in s /\ SumFunctionOnSet(fun, s) = fun[f] + SumFunctionOnSet(fun, t)
    BY <1>1, <2>4, FirstIsIn, SumOfSome, Zenon
  <2> HIDE DEF f
  <2>6. t \in SUBSET S /\ Cardinality(t) = m - 1 /\ Cardinality(t) \in Nat
    BY <1>1, <2>3, <2>5, FS_RemoveElement
  <2>7. ~ (m <= m - 1)
    BY <2>1, SMT
  <2>8. SumFunctionOnSet(fun, t) = SumFunctionOnSet(gun, Image(t))
    <3> HIDE DEF t, Image
    <3> QED BY <2>2, <2>6, <2>7, Zenon
  <2>9. Image(t) = Image(s) \ {h[f]}
    BY <2>5
  <2>10. SumFunctionOnSet(gun, Image(s)) = gun[h[f]] + SumFunctionOnSet(gun, Image(s) \ {h[f]})
    <3>1. ASSUME NEW z \in Image(s) PROVE gun[z] \in Nat
      <4>1. PICK x \in s : z = h[x]
        BY Zenon
      <4>2. fun[x] = gun[h[x]] /\ fun[x] \in Nat
        BY Zenon
      <4>3. QED
        BY <4>1, <4>2, Zenon
    <3>2. h[f] \in Image(s) /\ IsFiniteSet(Image(s))
      BY <1>1, <2>5, Zenon
    <3> HIDE DEF Image
    <3>3. QED
      BY <3>1, <3>2, SumTakesOut, Zenon
  <2>11. QED
    <3> HIDE DEF Image, t
    <3>1. fun[f] = gun[h[f]]
      BY <2>5, Zenon
    <3>2. QED
      BY <2>3, <2>5, <2>8, <2>9, <2>10, <3>1, Zenon
<1>3. S \in SUBSET S
  OBVIOUS
<1>4. IsFiniteSet(Image(S)) /\ Cardinality(S) \in Nat
  BY <1>1, <1>3, Zenon
<1>5. SumFunctionOnSet(fun, S) = SumFunctionOnSet(gun, Image(S))
  BY <1>2, <1>3, <1>4, Zenon
<1>6. QED
  BY <1>4, <1>5, Zenon

\* Only the values that are summed up matter.
LEMMA SumIsSame ==
  ASSUME NEW S, IsFiniteSet(S), NEW fun, NEW gun, \A x \in S : fun[x] = gun[x] /\ fun[x] \in Nat
  PROVE  SumFunctionOnSet(fun, S) = SumFunctionOnSet(gun, S)
<1> DEFINE h == [x \in S |-> x]
<1>1. \A x \in S : h[x] = x
  BY Zenon
<1>2. {h[x] : x \in S} = S
  BY Zenon
<1> HIDE DEF h
<1>3. \A x, y \in S : h[x] = h[y] => x = y
  BY <1>1, Zenon
<1>4. \A x \in S : fun[x] = gun[h[x]] /\ fun[x] \in Nat
  BY <1>1, Zenon
<1>5. SumFunctionOnSet(fun, S) = SumFunctionOnSet(gun, {h[x] : x \in S})
  BY <1>3, <1>4, SumIsRenamed
<1>6. QED
  BY <1>2, <1>5, Zenon

\* A function gives finitely many values on a finite set.
LEMMA ImageIsFinite ==
  ASSUME NEW S, IsFiniteSet(S), NEW h
  PROVE  IsFiniteSet({h[x] : x \in S})
<1> DEFINE Image == {h[x] : x \in S}
<1>1. [x \in S |-> h[x]] \in Surjection(S, Image)
  BY DEF Surjection
<1>2. IsFiniteSet(Image)
  <2> HIDE DEF Image
  <2> QED BY <1>1, FS_Surjection, Zenon
<1>3. QED
  BY <1>2, Zenon

\* A sum is at most as many times the greatest value as there are values.
LEMMA SumIsBounded ==
  ASSUME NEW S, IsFiniteSet(S), NEW b \in Nat, NEW fun, \A x \in S : fun[x] \in 0 .. b
  PROVE  SumFunctionOnSet(fun, S) <= b * Cardinality(S)
<1> DEFINE bad == {n \in Nat : \E s \in SUBSET S :
                     Cardinality(s) = n /\ ~ (SumFunctionOnSet(fun, s) <= b * n)}
<1>1. ASSUME bad # {} PROVE FALSE
  <2>1. bad \in SUBSET Nat
    BY Zenon
  <2>2. PICK m \in bad : \A k \in bad : m <= k
    <3> HIDE DEF bad
    <3> QED BY <1>1, <2>1, LeastOf
  <2>3. PICK s \in SUBSET S : Cardinality(s) = m /\ ~ (SumFunctionOnSet(fun, s) <= b * m)
    BY <2>2, Zenon
  <2>4. IsFiniteSet(s) /\ m \in Nat
    BY <2>1, FS_Subset
  <2>5. s # {}
    <3>1. SUFFICES ASSUME s = {} PROVE FALSE
      OBVIOUS
    <3>2. m = 0 /\ SumFunctionOnSet(fun, s) = 0
      BY <2>3, <3>1, FS_EmptySet, SumOfNone, Zenon
    <3>3. 0 <= b * 0
      BY SMT
    <3>4. QED
      BY <2>3, <3>2, <3>3, Zenon
  <2> DEFINE f == FirstIn(s)
             t == s \ {f}
  <2>6. f \in s /\ SumFunctionOnSet(fun, s) = fun[f] + SumFunctionOnSet(fun, t)
    BY <2>4, <2>5, FirstIsIn, SumOfSome, Zenon
  <2> HIDE DEF f
  <2>7. t \in SUBSET S /\ Cardinality(t) = m - 1 /\ Cardinality(t) \in Nat /\ IsFiniteSet(t)
    BY <2>3, <2>4, <2>6, FS_RemoveElement, FS_CardinalityType
  <2>8. ~ (m <= m - 1)
    BY <2>4, SMT
  <2>9. SumFunctionOnSet(fun, t) <= b * (m - 1)
    <3> HIDE DEF t
    <3> QED BY <2>2, <2>7, <2>8, Zenon
  <2>10. fun[f] \in 0 .. b
    BY <2>6, Zenon
  <2>11. SumFunctionOnSet(fun, t) \in Nat
    <3>1. \A x \in t : fun[x] \in Nat
      BY <2>7, SMT
    <3>2. QED
      BY <2>7, <3>1, SumIsNat, Zenon
  <2>12. b * m = b + b * (m - 1) /\ b * m \in Nat /\ b * (m - 1) \in Nat
    BY <2>4, <2>7
  <2>13. fun[f] + SumFunctionOnSet(fun, t) <= b * m
    <3> HIDE DEF t
    <3>1. PICK x \in Nat, y \in Nat, z \in Nat, w \in Nat :
            x = fun[f] /\ y = SumFunctionOnSet(fun, t) /\ z = b * (m - 1) /\ w = b * m
      BY <2>10, <2>11, <2>12, SMT
    <3>2. x <= b /\ y <= z /\ w = b + z
      BY <2>9, <2>10, <2>12, <3>1, SMT
    <3>3. x + y <= w
      BY <3>2, SMT
    <3>4. QED
      BY <3>1, <3>3, Zenon
  <2>14. QED
    BY <2>3, <2>6, <2>13, Zenon
<1>2. Cardinality(S) \in Nat /\ S \in SUBSET S
  BY FS_CardinalityType
<1>3. QED
  BY <1>1, <1>2, Zenon
=============================================================================
