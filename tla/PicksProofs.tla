---------------------------- MODULE PicksProofs ----------------------------
(***************************************************************************)
(* Induction, recursion, the parts of sequences and sums over finite sets, *)
(* in a first-order form: facts that other proofs cite, with sets and      *)
(* functions for parameters.                                               *)
(***************************************************************************)
EXTENDS Picks, SequencesExt, Integers, FiniteSetTheorems, SequenceTheorems, WellFoundedInduction, TLAPS

(* Every non-empty set of numbers has a least one.                         *)
LEMMA LeastNumber ==
  ASSUME NEW D \in SUBSET Nat, D # {}
  PROVE  \E d \in D : \A e \in D : d <= e
<1>. DEFINE T == {0..d : d \in D}
<1>1. T \subseteq FiniteSubsetsOf(Nat) /\ T # {}
  <2>1. ASSUME NEW d \in D PROVE 0..d \in FiniteSubsetsOf(Nat)
    <3>1. d \in Int /\ 0 \in Int /\ 0..d \subseteq Nat
      OBVIOUS
    <3>2. IsFiniteSet(0..d)
      BY <3>1, FS_Interval
    <3>. QED
      BY <3>1, <3>2 DEF FiniteSubsetsOf
  <2>. QED
    BY <2>1
<1>2. PICK x \in T : \A y \in T : ~(<<y, x>> \in StrictSubsetOrdering(Nat))
  <2>. HIDE DEF T
  <2>. QED
    BY <1>1, FS_StrictSubsetOrderingWellFounded, WFMin
<1>3. PICK d \in D : x = 0..d
  OBVIOUS
<1>4. ASSUME NEW e \in D, e < d PROVE FALSE
  <2>1. 0..e \in T /\ 0..e \in SUBSET Nat /\ 0..d \in SUBSET Nat
    OBVIOUS
  <2>2. 0..e \subseteq 0..d /\ d \in 0..d /\ d \notin 0..e
    BY <1>4
  <2>3. <<0..e, x>> \in StrictSubsetOrdering(Nat)
    BY <1>3, <2>1, <2>2 DEF StrictSubsetOrdering
  <2>. QED
    BY <1>2, <2>1, <2>3
<1>. QED
  BY <1>4

(* Induction: a set of numbers with 0 and every successor has them all.    *)
LEMMA NumbersInduction ==
  ASSUME NEW D \in SUBSET Nat, 0 \in D, \A n \in D : n + 1 \in D
  PROVE  D = Nat
<1>. SUFFICES ASSUME Nat \ D # {} PROVE FALSE
  OBVIOUS
<1>1. PICK m \in Nat \ D : \A n \in Nat \ D : m <= n
  BY LeastNumber, Nat \ D \in SUBSET Nat
<1>2. m - 1 \in Nat /\ m - 1 \in D
  BY <1>1
<1>. QED
  BY <1>1, <1>2

LEMMA UptoInduction ==
  ASSUME NEW n \in Nat, NEW D, 0 \in D, \A i \in 0..(n - 1) : i \in D => i + 1 \in D
  PROVE  0..n \subseteq D
<1>. DEFINE E == {i \in Nat : i <= n => i \in D}
<1>1. E = Nat
  <2>1. 0 \in E /\ \A i \in E : i + 1 \in E
    OBVIOUS
  <2>. HIDE DEF E
  <2>2. E \in SUBSET Nat
    BY DEF E
  <2>. QED
    BY <2>1, <2>2, NumbersInduction
<1>. QED
  BY <1>1

(* Recursion: what a function of the position and of what came before      *)
(* leaves at each position, from a on.                                     *)
Iterates(h, n, V, a, g) ==
  h \in [0..n -> V] /\ h[0] = a /\ \A i \in 1..n : h[i] = g[i][h[i - 1]]

LEMMA Recursion ==
  ASSUME NEW n \in Nat, NEW V, NEW a \in V, NEW g \in [1..n -> [V -> V]]
  PROVE  \E h : Iterates(h, n, V, a, g)
<1>. DEFINE D == {m \in 0..n : \E h : Iterates(h, m, V, a, g)}
<1>1. 0 \in D
  <2>. DEFINE z == [i \in 0..0 |-> a]
  <2>1. z \in [0..0 -> V] /\ z[0] = a /\ \A i \in 1..0 : FALSE
    OBVIOUS
  <2>. HIDE DEF z
  <2>2. Iterates(z, 0, V, a, g)
    BY <2>1 DEF Iterates
  <2>. QED
    BY <2>2
<1>2. ASSUME NEW m \in 0..(n - 1), m \in D PROVE m + 1 \in D
  <2>1. PICK h : Iterates(h, m, V, a, g)
    BY <1>2
  <2>2. h \in [0..m -> V] /\ h[0] = a /\ \A i \in 1..m : h[i] = g[i][h[i - 1]]
    BY <2>1 DEF Iterates
  <2>. DEFINE k == [i \in 0..(m + 1) |-> IF i = m + 1 THEN g[m + 1][h[m]] ELSE h[i]]
  <2>3. k \in [0..(m + 1) -> V]
    <3>1. m + 1 \in 1..n /\ m \in 0..m
      OBVIOUS
    <3>2. g[m + 1][h[m]] \in V
      BY <2>2, <3>1
    <3>. QED
      BY <2>2, <3>2
  <2>4. k[0] = a /\ k[m + 1] = g[m + 1][k[m]]
    BY <2>2
  <2>5. \A i \in 1..m : k[i] = h[i] /\ k[i - 1] = h[i - 1]
    OBVIOUS
  <2>. HIDE DEF k
  <2>6. \A i \in 1..(m + 1) : i = m + 1 \/ i \in 1..m
    OBVIOUS
  <2>7. (m + 1) - 1 = m /\ m + 1 \in 0..n
    OBVIOUS
  <2>8. \A i \in 1..(m + 1) : k[i] = g[i][k[i - 1]]
    BY <2>2, <2>4, <2>5, <2>6, <2>7
  <2>9. Iterates(k, m + 1, V, a, g)
    BY <2>3, <2>4, <2>8 DEF Iterates
  <2>. QED
    BY <2>7, <2>9
<1>. HIDE DEF D
<1>3. n \in D
  <2>1. 0..n \subseteq D
    BY <1>1, <1>2, UptoInduction
  <2>. QED
    BY <2>1
<1>. QED
  BY <1>3 DEF D
-----------------------------------------------------------------------------
(* The members of a finite set of positions, from the first to the last    *)
LEMMA PlaceProperties ==
  ASSUME NEW I, I \subseteq Nat, IsFiniteSet(I)
  PROVE  /\ Cardinality(I) \in Nat
         /\ \A k \in 1..Cardinality(I) : Place(I, k) \in I
         /\ \A k, l \in 1..Cardinality(I) : k < l => Place(I, k) < Place(I, l)
         /\ \A i \in I : \E k \in 1..Cardinality(I) : Place(I, k) = i
<1>. DEFINE n == Cardinality(I)
            below(i) == {j \in I : j <= i}
            rank == [i \in I |-> Cardinality(below(i))]
<1>1. n \in Nat
  BY FS_CardinalityType
<1>0. \A i \in I : i \in Nat
  OBVIOUS
<1>2. ASSUME NEW i \in I PROVE IsFiniteSet(below(i)) /\ rank[i] \in 1..n
  <2>1. below(i) \in SUBSET I /\ i \in below(i)
    OBVIOUS
  <2>. HIDE DEF below
  <2>2. IsFiniteSet(below(i)) /\ Cardinality(below(i)) <= n
    BY <2>1, FS_Subset
  <2>3. Cardinality(below(i)) \in Nat /\ Cardinality(below(i)) # 0
    BY <2>1, <2>2, FS_CardinalityType, FS_EmptySet
  <2>. QED
    BY <1>1, <2>2, <2>3
<1>3. ASSUME NEW i \in I, NEW j \in I, i < j PROVE rank[i] < rank[j]
  <2>0. i \in Nat /\ j \in Nat
    BY <1>0
  <2>1. \A l \in I : l <= i => l <= j
    BY <1>0, <1>3, <2>0
  <2>2. below(i) \subseteq below(j)
    BY <2>1
  <2>5. j \in below(j) /\ j \notin below(i)
    BY <1>3, <2>0
  <2>3. IsFiniteSet(below(j)) /\ rank[i] \in Nat /\ rank[j] \in Nat
    BY <1>2
  <2>. HIDE DEF below
  <2>4. Cardinality(below(i)) <= Cardinality(below(j))
        /\ Cardinality(below(i)) # Cardinality(below(j))
    BY <2>2, <2>3, <2>5, FS_Subset
  <2>. QED
    BY <2>3, <2>4
<1>4. rank \in Surjection(I, 1..n)
  <2>1. rank \in Injection(I, 1..n)
    <3>1. rank \in [I -> 1..n]
      BY <1>2
    <3>2. \A i, j \in I : rank[i] = rank[j] => i = j
      <4>. HIDE DEF rank
      <4>1. \A i, j \in I : i < j => rank[i] < rank[j]
        BY <1>3
      <4>5. \A i \in I : rank[i] \in 1..n
        BY <1>2
      <4>2. \A i \in I : rank[i] \in Nat /\ i \in Nat
        BY ONLY <1>0, <1>1, <4>5
      <4>3. \A i, j \in I : i < j \/ j < i \/ i = j
        BY ONLY <1>0
      <4>. QED
        BY ONLY <4>1, <4>2, <4>3
    <3>. HIDE DEF rank
    <3>. QED
      BY <3>1, <3>2 DEF Injection, IsInjective
  <2>2. IsFiniteSet(1..n) /\ Cardinality(1..n) = n
    BY <1>1, FS_Interval
  <2>. HIDE DEF rank
  <2>. QED
    BY <2>1, <2>2, FS_Injection
<1>5. ASSUME NEW k \in 1..n PROVE Place(I, k) \in I /\ rank[Place(I, k)] = k
  <2>1. \E i \in I : Cardinality({j \in I : j <= i}) = k
    BY <1>4 DEF Surjection
  <2>2. Place(I, k) \in I /\ Cardinality({j \in I : j <= Place(I, k)}) = k
    BY <2>1 DEF Place
  <2>. QED
    BY <2>2
<1>. HIDE DEF rank
<1>8. \A i, j \in I : i < j => rank[i] < rank[j]
  BY <1>3
<1>6. \A k, l \in 1..n : k < l => Place(I, k) < Place(I, l)
  <2>. SUFFICES ASSUME NEW k \in 1..n, NEW l \in 1..n, k < l, ~(Place(I, k) < Place(I, l))
                PROVE  FALSE
    OBVIOUS
  <2>1. /\ Place(I, k) \in I /\ rank[Place(I, k)] = k
        /\ Place(I, l) \in I /\ rank[Place(I, l)] = l
    BY <1>5
  <2>4. Place(I, k) \in Nat /\ Place(I, l) \in Nat
    BY ONLY <1>0, <2>1
  <2>2. Place(I, l) = Place(I, k) \/ Place(I, l) < Place(I, k)
    BY <2>4
  <2>3. k = l \/ l < k
    BY <1>8, <2>1, <2>2
  <2>. QED
    BY <1>1, <2>3
<1>7. ASSUME NEW i \in I PROVE rank[i] \in 1..n /\ Place(I, rank[i]) = i
  <2>1. /\ rank[i] \in 1..n /\ Place(I, rank[i]) \in I
        /\ rank[Place(I, rank[i])] = rank[i]
    BY <1>2, <1>5
  <2>. DEFINE j == Place(I, rank[i])
  <2>2. rank[i] \in Nat /\ i \in Nat /\ j \in Nat
    BY ONLY <1>0, <1>1, <2>1
  <2>. HIDE DEF j
  <2>3. j < i => rank[j] < rank[i]
    BY <1>8, <2>1 DEF j
  <2>4. i < j => rank[i] < rank[j]
    BY <1>8, <2>1 DEF j
  <2>5. ~(j < i) /\ ~(i < j)
    BY ONLY <2>1, <2>2, <2>3, <2>4 DEF j
  <2>6. i = j
    BY ONLY <2>2, <2>5
  <2>. QED
    BY <2>1, <2>6 DEF j
<1>. QED
  BY <1>1, <1>2, <1>5, <1>6, <1>7

(* What is picked from a sequence: its elements at the positions, in order *)
LEMMA PickProperties ==
  ASSUME NEW S, NEW s \in Seq(S), NEW I \in SUBSET (1..Len(s))
  PROVE  /\ IsFiniteSet(I) /\ Cardinality(I) \in Nat
         /\ Pick(s, I) \in Seq(S) /\ Len(Pick(s, I)) = Cardinality(I)
         /\ \A k \in 1..Cardinality(I) : Place(I, k) \in I /\ Pick(s, I)[k] = s[Place(I, k)]
         /\ \A k, l \in 1..Cardinality(I) : k < l => Place(I, k) < Place(I, l)
         /\ \A i \in I : \E k \in 1..Cardinality(I) : Place(I, k) = i
<1>1. I \in SUBSET Nat /\ IsFiniteSet(I)
  <2>1. Len(s) \in Nat /\ 1 \in Int /\ Len(s) \in Int
    BY LenProperties
  <2>2. IsFiniteSet(1..Len(s))
    BY <2>1, FS_Interval
  <2>3. I \in SUBSET Nat
    BY <2>1
  <2>4. IsFiniteSet(I)
    BY ONLY <2>2, I \in SUBSET (1..Len(s)), FS_Subset
  <2>. QED
    BY <2>3, <2>4
<1>2. \A k \in 1..Cardinality(I) : Place(I, k) \in 1..Len(s) /\ s[Place(I, k)] \in S
  <2>1. \A i \in 1..Len(s) : s[i] \in S
    OBVIOUS
  <2>2. \A k \in 1..Cardinality(I) : Place(I, k) \in I
    BY <1>1, PlaceProperties
  <2>. QED
    BY <2>1, <2>2
<1>3. Pick(s, I) \in [1..Cardinality(I) -> S]
  BY <1>2 DEF Pick
<1>4. Cardinality(I) \in Nat
  BY <1>1, PlaceProperties
<1>5. Pick(s, I) \in Seq(S) /\ Len(Pick(s, I)) = Cardinality(I)
  BY ONLY <1>3, <1>4
<1>6. \A k \in 1..Cardinality(I) : Pick(s, I)[k] = s[Place(I, k)]
  BY DEF Pick
<1>7. I \subseteq Nat
  BY <1>1
<1>. HIDE DEF Pick
<1>. QED
  BY ONLY <1>1, <1>4, <1>5, <1>6, <1>7, PlaceProperties
(* Elements picked at positions where they differ differ.                  *)
LEMMA PickRange ==
  ASSUME NEW S, NEW s \in Seq(S), NEW I, I \subseteq 1..Len(s)
  PROVE  /\ Range(Pick(s, I)) = {s[i] : i \in I}
         /\ (\A i, j \in I : s[i] = s[j] => i = j) =>
              \A k, l \in 1..Len(Pick(s, I)) : Pick(s, I)[k] = Pick(s, I)[l] => k = l
<1>. DEFINE t == Pick(s, I)
            n == Cardinality(I)
            f == [k \in 1..n |-> Place(I, k)]
<1>1. /\ n \in Nat /\ t \in Seq(S) /\ Len(t) = n
      /\ \A k \in 1..n : Place(I, k) \in I /\ t[k] = s[Place(I, k)]
      /\ \A k, l \in 1..n : k < l => Place(I, k) < Place(I, l)
      /\ \A i \in I : \E k \in 1..n : Place(I, k) = i
  <2>1. I \in SUBSET (1..Len(s))
    OBVIOUS
  <2>. HIDE DEF t, n
  <2>. QED
    BY <2>1, PickProperties DEF t, n
<1>2. /\ \A k \in 1..n : f[k] \in I /\ t[k] = s[f[k]]
      /\ \A k, l \in 1..n : k < l => f[k] < f[l]
      /\ \A i \in I : \E k \in 1..n : f[k] = i
  BY <1>1
<1>3. \A i \in I : i \in Nat
  <2>1. Len(s) \in Nat
    BY LenProperties
  <2>. QED
    BY <2>1
<1>. HIDE DEF t, n, f
<1>4. Range(t) = {t[k] : k \in 1..n}
  BY <1>1, RangeEquality
<1>5. Range(t) = {s[i] : i \in I}
  BY ONLY <1>2, <1>4
<1>6. ASSUME NEW k \in 1..n, NEW l \in 1..n, f[k] = f[l] PROVE k = l
  <2>1. f[k] \in Nat /\ k \in Nat /\ l \in Nat
    BY ONLY <1>1, <1>2, <1>3
  <2>2. ~(k < l) /\ ~(l < k)
    BY ONLY <1>2, <1>6, <2>1
  <2>. QED
    BY ONLY <2>1, <2>2
<1>7. ASSUME \A i, j \in I : s[i] = s[j] => i = j, NEW k \in 1..n, NEW l \in 1..n, t[k] = t[l]
      PROVE  k = l
  <2>1. f[k] = f[l]
    BY ONLY <1>2, <1>7
  <2>. QED
    BY <1>6, <2>1
<1>. QED
  BY <1>1, <1>5, <1>7 DEF t
-----------------------------------------------------------------------------
(* The elements of the first n sequences of ss, in their order: k stands   *)
(* for the r[k]-th element of the q[k]-th.                                 *)
JoinsBy(s, ss, n, q, r) ==
    /\ q \in [1..Len(s) -> 1..n] /\ r \in [1..Len(s) -> Nat]
    /\ \A k \in 1..Len(s) : r[k] \in 1..Len(ss[q[k]]) /\ s[k] = ss[q[k]][r[k]]
    /\ \A k, l \in 1..Len(s) : k < l => q[k] < q[l] \/ (q[k] = q[l] /\ r[k] < r[l])
    /\ \A i \in 1..n : \A j \in 1..Len(ss[i]) : \E k \in 1..Len(s) : q[k] = i /\ r[k] = j
Joins(s, ss, n) == \E q, r : JoinsBy(s, ss, n, q, r)

LEMMA JoinStep ==
  ASSUME NEW S, NEW ss \in Seq(Seq(S)), NEW n \in 0..(Len(ss) - 1),
         NEW s \in Seq(S), Joins(s, ss, n)
  PROVE  s \o ss[n + 1] \in Seq(S) /\ Joins(s \o ss[n + 1], ss, n + 1)
<1>. DEFINE t == ss[n + 1]
            z == s \o t
            a == Len(s)
            b == Len(t)
<1>1. n \in Nat /\ n + 1 \in 1..Len(ss) /\ t \in Seq(S)
  BY LenProperties
<1>2. a \in Nat /\ b \in Nat
  BY <1>1, LenProperties
<1>3. /\ z \in Seq(S) /\ Len(z) = a + b
      /\ \A k \in 1..a : z[k] = s[k]
      /\ \A k \in 1..b : z[a + k] = t[k]
  BY ONLY <1>1, <1>2, s \in Seq(S), ConcatProperties DEF z, a, b
<1>10. PICK q, r : JoinsBy(s, ss, n, q, r)
  BY DEF Joins
<1>4. /\ q \in [1..a -> 1..n] /\ r \in [1..a -> Nat]
      /\ \A k \in 1..a : r[k] \in 1..Len(ss[q[k]]) /\ s[k] = ss[q[k]][r[k]]
      /\ \A k, l \in 1..a : k < l => q[k] < q[l] \/ (q[k] = q[l] /\ r[k] < r[l])
      /\ \A i \in 1..n : \A j \in 1..Len(ss[i]) : \E k \in 1..a : q[k] = i /\ r[k] = j
  BY <1>10 DEF JoinsBy
<1>. DEFINE q2 == [k \in 1..(a + b) |-> IF k <= a THEN q[k] ELSE n + 1]
            r2 == [k \in 1..(a + b) |-> IF k <= a THEN r[k] ELSE k - a]
<1>. HIDE DEF t, z, a, b
<1>5. /\ q2 \in [1..(a + b) -> 1..(n + 1)] /\ r2 \in [1..(a + b) -> Nat]
      /\ \A k \in 1..a : q2[k] = q[k] /\ r2[k] = r[k] /\ q[k] \in 1..n
      /\ \A k \in (a + 1)..(a + b) : q2[k] = n + 1 /\ r2[k] = k - a
  <2>1. \A k \in 1..a : k \in 1..(a + b) /\ k <= a /\ q[k] \in 1..n /\ r[k] \in Nat
    BY <1>2, <1>4
  <2>2. \A k \in (a + 1)..(a + b) : k \in 1..(a + b) /\ ~(k <= a) /\ k - a \in Nat
    BY <1>2
  <2>3. \A k \in 1..(a + b) : k \in 1..a \/ k \in (a + 1)..(a + b)
    BY <1>2
  <2>4. \A i \in 1..n : i \in 1..(n + 1)
    BY <1>1
  <2>5. n + 1 \in 1..(n + 1)
    BY <1>1
  <2>. QED
    BY ONLY <2>1, <2>2, <2>3, <2>4, <2>5
<1>. HIDE DEF q2, r2
<1>6. ASSUME NEW k \in 1..(a + b)
      PROVE  r2[k] \in 1..Len(ss[q2[k]]) /\ z[k] = ss[q2[k]][r2[k]]
  <2>1. CASE k \in 1..a
    BY <2>1, <1>3, <1>4, <1>5
  <2>2. CASE k \in (a + 1)..(a + b)
    <3>1. k - a \in 1..b /\ a + (k - a) = k
      BY <1>2, <2>2
    <3>2. z[k] = t[k - a]
      BY <3>1, <1>3
    <3>. QED
      BY <3>1, <3>2, <2>2, <1>5 DEF t, b
  <2>. QED
    BY <1>2, <2>1, <2>2
<1>7. ASSUME NEW k \in 1..(a + b), NEW l \in 1..(a + b), k < l
      PROVE  q2[k] < q2[l] \/ (q2[k] = q2[l] /\ r2[k] < r2[l])
  <2>1. CASE l \in 1..a
    <3>1. k \in 1..a
      BY ONLY <1>2, <1>7, <2>1, k \in 1..(a + b)
    <3>. QED
      BY <1>7, <3>1, <2>1, <1>4, <1>5
  <2>2. CASE l \in (a + 1)..(a + b) /\ k \in 1..a
    <3>1. q2[k] \in 1..n /\ q2[l] = n + 1
      BY <2>2, <1>5
    <3>. QED
      BY <3>1, <1>1
  <2>3. CASE l \in (a + 1)..(a + b) /\ k \in (a + 1)..(a + b)
    <3>1. k - a < l - a
      BY <1>2, <1>7, <2>3
    <3>. QED
      BY <3>1, <2>3, <1>5
  <2>. QED
    BY <1>2, <2>1, <2>2, <2>3
<1>8. ASSUME NEW i \in 1..(n + 1), NEW j \in 1..Len(ss[i])
      PROVE  \E k \in 1..(a + b) : q2[k] = i /\ r2[k] = j
  <2>1. CASE i \in 1..n
    <3>1. PICK k \in 1..a : q[k] = i /\ r[k] = j
      BY <2>1, <1>4
    <3>2. k \in 1..(a + b)
      BY <1>2
    <3>. QED
      BY <3>1, <3>2, <1>5
  <2>2. CASE i = n + 1
    <3>1. j \in 1..b
      BY <2>2 DEF t, b
    <3>2. a + j \in (a + 1)..(a + b) /\ a + j \in 1..(a + b) /\ (a + j) - a = j
      BY <3>1, <1>2
    <3>. QED
      BY <3>2, <2>2, <1>5
  <2>. QED
    BY <1>1, <2>1, <2>2
<1>9. JoinsBy(z, ss, n + 1, q2, r2)
  <2>1. Len(z) = a + b
    BY <1>3
  <2>2. \A k \in 1..(a + b) : r2[k] \in 1..Len(ss[q2[k]]) /\ z[k] = ss[q2[k]][r2[k]]
    BY <1>6
  <2>3. \A k, l \in 1..(a + b) : k < l => q2[k] < q2[l] \/ (q2[k] = q2[l] /\ r2[k] < r2[l])
    BY <1>7
  <2>4. \A i \in 1..(n + 1) : \A j \in 1..Len(ss[i]) : \E k \in 1..(a + b) : q2[k] = i /\ r2[k] = j
    BY <1>8
  <2>5. q2 \in [1..(a + b) -> 1..(n + 1)] /\ r2 \in [1..(a + b) -> Nat]
    BY <1>5
  <2>. QED
    BY ONLY <2>1, <2>2, <2>3, <2>4, <2>5 DEF JoinsBy
<1>. QED
  BY <1>3, <1>9 DEF z, t, Joins

LEMMA FlattenProperties ==
  ASSUME NEW S, NEW ss \in Seq(Seq(S))
  PROVE  FlattenSeq(ss) \in Seq(S) /\ Joins(FlattenSeq(ss), ss, Len(ss))
<1>. DEFINE n == Len(ss)
            Next(i, v) == IF i = 1 THEN ss[i] ELSE v \o ss[i]
            V == Seq(S)
            g == [i \in 1..n |-> [v \in V |-> Next(i, v)]]
            Flat(f) == f = [i \in 1..n |-> IF i = 1 THEN ss[i] ELSE f[i - 1] \o ss[i]]
            flatten == CHOOSE f : Flat(f)
<1>1. n \in Nat
  BY LenProperties
<1>2. CASE n = 0
  <2>1. FlattenSeq(ss) = ss /\ ss = << >>
    BY <1>2, EmptySeq DEF FlattenSeq
  <2>2. JoinsBy(<< >>, ss, 0, << >>, << >>)
    BY DEF JoinsBy
  <2>. QED
    BY <1>2, <2>1, <2>2 DEF Joins
<1>3. CASE n # 0
  <2>1. g \in [1..n -> [V -> V]]
    BY ConcatProperties
  <2>. DEFINE e == << >>
  <2>2. e \in V
    OBVIOUS
  <2>. HIDE DEF g, n, V, e
  <2>3. PICK h : Iterates(h, n, V, e, g)
    BY ONLY <1>1, <2>1, <2>2, Recursion
  <2>4. ASSUME NEW i \in 1..n PROVE h[i] = Next(i, h[i - 1])
    <3>1. i - 1 \in 0..n
      BY <1>1
    <3>2. h[i - 1] \in V /\ h[i] = g[i][h[i - 1]]
      BY <2>3, <3>1 DEF Iterates
    <3>. QED
      BY <3>2 DEF g
  <2>. DEFINE k == [i \in 1..n |-> h[i]]
  <2>5. Flat(k)
    <3>1. \A i \in 1..n : i # 1 => i - 1 \in 1..n
      BY <1>1
    <3>2. \A i \in 1..n : k[i] = h[i] /\ (i # 1 => k[i - 1] = h[i - 1])
      BY <3>1
    <3>3. \A i \in 1..n : h[i] = IF i = 1 THEN ss[i] ELSE h[i - 1] \o ss[i]
      BY <2>4
    <3>4. \A i \in 1..n : k[i] = IF i = 1 THEN ss[i] ELSE k[i - 1] \o ss[i]
      BY <3>2, <3>3
    <3>. QED
      BY <3>4
  <2>6. Flat(flatten)
    <3>. HIDE DEF k, Flat
    <3>. QED
      BY <2>5
  <2>7. FlattenSeq(ss) = flatten[n]
    BY <1>3 DEF FlattenSeq, n
  <2>. DEFINE f == flatten
  <2>. HIDE DEF f, flatten
  <2>8. f[1] = ss[1] /\ \A i \in 1..n : i # 1 => f[i] = f[i - 1] \o ss[i]
    <3>1. \A i \in 1..n : f[i] = IF i = 1 THEN ss[i] ELSE f[i - 1] \o ss[i]
      BY <2>6 DEF f
    <3>2. 1 \in 1..n
      BY <1>1, <1>3
    <3>. QED
      BY <3>1, <3>2
  <2>. DEFINE D == {i \in 0..n : i = 0 \/ (f[i] \in Seq(S) /\ Joins(f[i], ss, i))}
  <2>9. ASSUME NEW i \in 0..(n - 1), i \in D PROVE i + 1 \in D
    <3>1. CASE i = 0
      <4>1. ss[1] \in Seq(S)
        BY <1>1, <1>3 DEF n
      <4>. DEFINE a == Len(ss[1])
                  q1 == [l \in 1..a |-> 1]
                  r1 == [l \in 1..a |-> l]
      <4>2. a \in Nat
        BY <4>1, LenProperties
      <4>3. q1 \in [1..a -> 1..1] /\ r1 \in [1..a -> Nat]
        BY <4>2
      <4>4. \A l \in 1..a : q1[l] = 1 /\ r1[l] = l
        OBVIOUS
      <4>. HIDE DEF q1, r1
      <4>5. JoinsBy(ss[1], ss, 1, q1, r1)
        BY ONLY <4>2, <4>3, <4>4 DEF JoinsBy
      <4>6. Joins(ss[1], ss, 1)
        BY <4>5 DEF Joins
      <4>. QED
        BY <1>1, <1>3, <3>1, <4>1, <4>6, <2>8
    <3>2. CASE i # 0
      <4>1. i + 1 \in 0..n /\ i + 1 \in 1..n /\ i + 1 # 1 /\ (i + 1) - 1 = i
        BY <1>1, <3>2
      <4>2. f[i + 1] = f[i] \o ss[i + 1]
        BY <2>8, <4>1
      <4>3. f[i] \in Seq(S) /\ Joins(f[i], ss, i)
        BY <2>9, <3>2
      <4>4. f[i] \o ss[i + 1] \in Seq(S) /\ Joins(f[i] \o ss[i + 1], ss, i + 1)
        BY <4>3, JoinStep DEF n
      <4>. QED
        BY ONLY <4>1, <4>2, <4>4
    <3>. QED
      BY <3>1, <3>2
  <2>10. n \in D
    <3>1. 0 \in D
      BY <1>1
    <3>. HIDE DEF D
    <3>2. 0..n \subseteq D
      BY <1>1, <2>9, <3>1, UptoInduction
    <3>. QED
      BY <1>1, <3>2
  <2>. QED
    BY <1>3, <2>7, <2>10 DEF f, n
<1>. QED
  BY <1>2, <1>3

(* Induction over the parts of a finite set                                *)
LEMMA PartsInduction ==
  ASSUME NEW S, IsFiniteSet(S), NEW Q, {} \in Q,
         \A T, x : T \subseteq S /\ x \in S /\ x \notin T /\ T \in Q => T \cup {x} \in Q
  PROVE  \A T : T \subseteq S => T \in Q
<1>. DEFINE n == Cardinality(S)
            D == {m \in 0..n : \A T : T \subseteq S /\ Cardinality(T) = m => T \in Q}
<1>1. /\ n \in Nat
      /\ \A T : T \subseteq S => IsFiniteSet(T) /\ Cardinality(T) \in 0..n
  <2>1. n \in Nat
    BY FS_CardinalityType
  <2>2. ASSUME NEW T, T \subseteq S PROVE IsFiniteSet(T) /\ Cardinality(T) \in 0..n
    <3>1. T \in SUBSET S
      BY <2>2
    <3>2. IsFiniteSet(T) /\ Cardinality(T) <= n
      BY <3>1, FS_Subset
    <3>3. Cardinality(T) \in Nat
      BY <3>2, FS_CardinalityType
    <3>. QED
      BY <2>1, <3>2, <3>3
  <2>. QED
    BY <2>1, <2>2
<1>. HIDE DEF n
<1>2. 0 \in D
  <2>1. ASSUME NEW T, T \subseteq S, Cardinality(T) = 0 PROVE T \in Q
    <3>1. T = {}
      BY <1>1, <2>1, FS_EmptySet
    <3>. QED
      BY <3>1
  <2>. QED
    BY <1>1, <2>1
<1>3. ASSUME NEW m \in 0..(n - 1), m \in D PROVE m + 1 \in D
  <2>1. ASSUME NEW T, T \subseteq S, Cardinality(T) = m + 1 PROVE T \in Q
    <3>1. IsFiniteSet(T) /\ T # {}
      BY <1>1, <2>1, FS_EmptySet
    <3>2. PICK x : x \in T
      BY <3>1
    <3>3. Cardinality(T \ {x}) = m
      <4>1. Cardinality(T \ {x}) = IF x \in T THEN Cardinality(T) - 1 ELSE Cardinality(T)
        BY <3>1, FS_RemoveElement
      <4>. QED
        BY <2>1, <3>2, <4>1
    <3>4. T \ {x} \in Q
      BY <1>3, <2>1, <3>3
    <3>5. (T \ {x}) \cup {x} \in Q
      BY <2>1, <3>2, <3>4
    <3>6. (T \ {x}) \cup {x} = T
      BY <3>2
    <3>. QED
      BY <3>5, <3>6
  <2>2. m + 1 \in 0..n
    BY <1>1
  <2>. QED
    BY <2>1, <2>2
<1>4. 0..n \subseteq D
  <2>. HIDE DEF D
  <2>. QED
    BY <1>1, <1>2, <1>3, UptoInduction
<1>. QED
  BY <1>1, <1>4

(* What a function makes of a finite set is finite.                        *)
LEMMA FiniteImage ==
  ASSUME NEW S, IsFiniteSet(S), NEW f
  PROVE  IsFiniteSet({f[x] : x \in S})
<1>. DEFINE T == {f[x] : x \in S}
            g == [x \in S |-> f[x]]
<1>1. g \in Surjection(S, T)
  BY DEF Surjection
<1>. HIDE DEF g, T
<1>. QED
  BY <1>1, FS_Surjection DEF T

(* Positions that increase and leave none out are all where they were.     *)
Climbs(f, a, b) ==
  /\ f \in [1..a -> 1..b]
  /\ \A k, l \in 1..a : k < l => f[k] < f[l]
  /\ \A i \in 1..b : \E k \in 1..a : f[k] = i

LEMMA NoneLeftOut ==
  ASSUME NEW a \in Nat, NEW b \in Nat, NEW f, Climbs(f, a, b)
  PROVE  a = b /\ \A k \in 1..a : f[k] = k
<1>. USE DEF Climbs
<1>. DEFINE D == {m \in 0..b : m <= a /\ \A i \in 1..m : f[i] = i}
<1>1. 0 \in D
  OBVIOUS
<1>2. ASSUME NEW m \in 0..(b - 1), m \in D PROVE m + 1 \in D
  <2>1. m + 1 \in 1..b /\ m <= a /\ \A i \in 1..m : f[i] = i
    BY <1>2
  <2>2. PICK k \in 1..a : f[k] = m + 1
    BY <2>1
  <2>3. ~(k <= m)
    <3>1. k <= m => k \in 1..m
      OBVIOUS
    <3>. QED
      BY <2>1, <2>2, <3>1
  <2>4. m + 1 \in 1..a
    BY <2>1, <2>3
  <2>5. f[m + 1] >= m + 1
    <3>1. CASE m = 0
      BY <2>4, <3>1
    <3>2. CASE m # 0
      <4>1. m \in 1..m /\ m \in 1..a
        BY <2>4, <3>2
      <4>2. f[m] = m /\ f[m] < f[m + 1]
        BY <2>1, <2>4, <4>1
      <4>. QED
        BY <2>4, <4>2
    <3>. QED
      BY <3>1, <3>2
  <2>6. ~(m + 1 < k)
    <3>1. m + 1 < k => f[m + 1] < f[k]
      BY <2>4
    <3>2. f[m + 1] \in Nat
      BY <2>4
    <3>. QED
      BY <2>2, <2>5, <3>1, <3>2
  <2>7. f[m + 1] = m + 1
    BY <2>2, <2>3, <2>6
  <2>8. \A i \in 1..(m + 1) : i = m + 1 \/ i \in 1..m
    OBVIOUS
  <2>. QED
    BY <2>1, <2>4, <2>7, <2>8
<1>3. b \in D
  <2>. HIDE DEF D
  <2>1. 0..b \subseteq D
    BY <1>1, <1>2, UptoInduction
  <2>. QED
    BY <2>1
<1>4. b <= a /\ \A i \in 1..b : f[i] = i
  BY <1>3
<1>5. ~(b < a)
  <2>1. SUFFICES ASSUME b < a PROVE FALSE
    OBVIOUS
  <2>2. b + 1 \in 1..a /\ f[b + 1] \in 1..b
    BY <2>1
  <2>3. CASE b = 0
    BY <2>2, <2>3
  <2>4. CASE b # 0
    <3>1. b \in 1..a /\ f[b] = b
      BY <1>4, <2>4
    <3>2. f[b] < f[b + 1]
      BY <2>2, <3>1
    <3>. QED
      BY <2>2, <3>1, <3>2
  <2>. QED
    BY <2>3, <2>4
<1>. QED
  BY <1>4, <1>5
-----------------------------------------------------------------------------
(* Sums                                                                    *)

OneOf(s) == CHOOSE x \in s : TRUE

(* What the parts of f sum up to, f and h being functions                  *)
Sums(h, f) ==
  h = [s \in SUBSET DOMAIN f |-> IF s = {} THEN 0 ELSE f[OneOf(s)] + h[s \ {OneOf(s)}]]

LEMMA SumIsOfParts ==
  ASSUME NEW f
  PROVE  SumOf(f) = (CHOOSE h : Sums(h, f))[DOMAIN f]
BY Zenon DEF SumOf, MapThenSumSet, MapThenFoldSet, Sums, OneOf

LEMMA PartsSumUp ==
  ASSUME NEW S, IsFiniteSet(S), NEW f \in [S -> Nat]
  PROVE  \E h \in [SUBSET S -> Nat] : Sums(h, f)
<1>. DEFINE n == Cardinality(S)
            V == [SUBSET S -> Nat]
            To(v, s) == IF s = {} THEN 0 ELSE f[OneOf(s)] + v[s \ {OneOf(s)}]
            D == {m \in 0..n : \E v \in V : \A s \in SUBSET S :
                    Cardinality(s) <= m => v[s] = To(v, s)}
<1>1. n \in Nat /\ \A s \in SUBSET S : /\ IsFiniteSet(s) /\ Cardinality(s) \in 0..n
                                       /\ s = {} <=> Cardinality(s) = 0
  <2>1. n \in Nat
    BY FS_CardinalityType
  <2>2. ASSUME NEW s \in SUBSET S
        PROVE  /\ IsFiniteSet(s) /\ Cardinality(s) \in 0..n
               /\ s = {} <=> Cardinality(s) = 0
    <3>1. IsFiniteSet(s) /\ Cardinality(s) <= n
      BY FS_Subset
    <3>2. Cardinality(s) \in Nat
      BY <3>1, FS_CardinalityType
    <3>. QED
      BY <2>1, <3>1, <3>2, FS_EmptySet
  <2>. QED
    BY <2>1, <2>2
<1>2. ASSUME NEW s \in SUBSET S, s # {}
      PROVE  /\ OneOf(s) \in S /\ s \ {OneOf(s)} \in SUBSET S
             /\ Cardinality(s \ {OneOf(s)}) = Cardinality(s) - 1
  <2>1. OneOf(s) \in s
    BY <1>2 DEF OneOf
  <2>2. Cardinality(s \ {OneOf(s)}) = IF OneOf(s) \in s THEN Cardinality(s) - 1 ELSE Cardinality(s)
    BY <1>1, FS_RemoveElement
  <2>. QED
    BY <2>1, <2>2
<1>. HIDE DEF n
<1>3. ASSUME NEW v \in V, NEW s \in SUBSET S PROVE To(v, s) \in Nat
  <2>1. CASE s = {}
    BY <2>1
  <2>2. CASE s # {}
    <3>1. f[OneOf(s)] \in Nat /\ v[s \ {OneOf(s)}] \in Nat
      BY <1>2, <2>2
    <3>. QED
      BY <2>2, <3>1
  <2>. QED
    BY <2>1, <2>2
<1>4. 0 \in D
  <2>1. [s \in SUBSET S |-> 0] \in V
    OBVIOUS
  <2>2. \A s \in SUBSET S : Cardinality(s) <= 0 => s = {}
    BY <1>1
  <2>. QED
    BY <1>1, <2>1, <2>2
<1>5. ASSUME NEW m \in 0..(n - 1), m \in D PROVE m + 1 \in D
  <2>1. PICK v \in V : \A s \in SUBSET S : Cardinality(s) <= m => v[s] = To(v, s)
    BY <1>5
  <2>. DEFINE w == [s \in SUBSET S |-> IF Cardinality(s) <= m THEN v[s] ELSE To(v, s)]
  <2>2. w \in V
    BY <1>3
  <2>3. \A s \in SUBSET S : w[s] = IF Cardinality(s) <= m THEN v[s] ELSE To(v, s)
    OBVIOUS
  <2>. HIDE DEF w
  <2>4. ASSUME NEW s \in SUBSET S, Cardinality(s) <= m + 1 PROVE w[s] = To(w, s)
    <3>1. w[s] = To(v, s)
      BY <2>1, <2>3
    <3>2. CASE s = {}
      BY <3>1, <3>2
    <3>3. CASE s # {}
      <4>1. s \ {OneOf(s)} \in SUBSET S /\ Cardinality(s \ {OneOf(s)}) <= m
        BY <1>1, <1>2, <2>4, <3>3
      <4>2. w[s \ {OneOf(s)}] = v[s \ {OneOf(s)}]
        BY <2>3, <4>1
      <4>. QED
        BY <3>1, <4>2
    <3>. QED
      BY <3>2, <3>3
  <2>5. m + 1 \in 0..n
    BY <1>1
  <2>. QED
    BY <2>2, <2>4, <2>5
<1>6. n \in D
  <2>. HIDE DEF D
  <2>1. 0..n \subseteq D
    BY <1>1, <1>4, <1>5, UptoInduction
  <2>. QED
    BY <1>1, <2>1
<1>7. PICK h \in V : \A s \in SUBSET S : Cardinality(s) <= n => h[s] = To(h, s)
  BY <1>6
<1>8. \A s \in SUBSET S : h[s] = To(h, s)
  <2>1. \A s \in SUBSET S : Cardinality(s) <= n
    BY <1>1
  <2>. HIDE DEF To
  <2>. QED
    BY <1>7, <2>1
<1>9. h = [s \in SUBSET S |-> To(h, s)]
  BY <1>8
<1>. QED
  BY <1>9 DEF Sums

(* Whichever element is taken out first                                    *)
LEMMA SumsInAnyOrder ==
  ASSUME NEW S, IsFiniteSet(S), NEW f \in [S -> Nat], NEW h, Sums(h, f)
  PROVE  /\ h[{}] = 0
         /\ \A s \in SUBSET S : h[s] \in Nat
         /\ \A s \in SUBSET S : \A x \in s : h[s] = f[x] + h[s \ {x}]
<1>. DEFINE Q == {s \in SUBSET S : /\ h[s] \in Nat
                                  /\ \A x \in s : h[s] = f[x] + h[s \ {x}]}
            To(s) == IF s = {} THEN 0 ELSE f[OneOf(s)] + h[s \ {OneOf(s)}]
            n == Cardinality(S)
            D == {m \in 0..n : \A s \in SUBSET S : Cardinality(s) <= m => s \in Q}
<1>1. \A s \in SUBSET S : h[s] = To(s)
  <2>1. DOMAIN f = S
    OBVIOUS
  <2>. QED
    BY ONLY <2>1, Sums(h, f) DEF Sums
<1>2. n \in Nat /\ \A s \in SUBSET S : /\ IsFiniteSet(s) /\ Cardinality(s) \in 0..n
                                       /\ s = {} <=> Cardinality(s) = 0
  <2>1. n \in Nat
    BY FS_CardinalityType
  <2>2. ASSUME NEW s \in SUBSET S
        PROVE  /\ IsFiniteSet(s) /\ Cardinality(s) \in 0..n
               /\ s = {} <=> Cardinality(s) = 0
    <3>1. IsFiniteSet(s) /\ Cardinality(s) <= n
      BY FS_Subset
    <3>2. Cardinality(s) \in Nat
      BY <3>1, FS_CardinalityType
    <3>. QED
      BY <2>1, <3>1, <3>2, FS_EmptySet
  <2>. QED
    BY <2>1, <2>2
<1>. HIDE DEF n
<1>3. ASSUME NEW s \in SUBSET S, NEW x \in s
      PROVE  /\ s \ {x} \in SUBSET S /\ f[x] \in Nat
             /\ Cardinality(s \ {x}) = Cardinality(s) - 1
  <2>1. Cardinality(s \ {x}) = IF x \in s THEN Cardinality(s) - 1 ELSE Cardinality(s)
    BY <1>2, FS_RemoveElement
  <2>. QED
    BY <2>1
<1>4. h[{}] = 0 /\ {} \in Q
  <2>1. {} \in SUBSET S
    OBVIOUS
  <2>2. h[{}] = 0
    BY <1>1, <2>1
  <2>. QED
    BY <2>1, <2>2
<1>5. 0 \in D
  <2>1. \A s \in SUBSET S : Cardinality(s) <= 0 => s = {}
    BY <1>2
  <2>. QED
    BY <1>2, <1>4, <2>1
<1>6. ASSUME NEW m \in 0..(n - 1), m \in D PROVE m + 1 \in D
  <2>1. ASSUME NEW s \in SUBSET S, Cardinality(s) <= m + 1, s # {} PROVE s \in Q
    <3>. DEFINE a == OneOf(s)
    <3>1. a \in s /\ h[s] = f[a] + h[s \ {a}]
      BY <1>1, <2>1 DEF OneOf
    <3>. HIDE DEF a
    <3>2. ASSUME NEW x \in s PROVE s \ {x} \in Q /\ h[s \ {x}] \in Nat /\ f[x] \in Nat
      <4>1. s \ {x} \in SUBSET S /\ Cardinality(s \ {x}) <= m /\ f[x] \in Nat
        BY <1>2, <1>3, <2>1
      <4>. QED
        BY <1>6, <4>1
    <3>3. h[s] \in Nat
      <4>1. h[s \ {a}] \in Nat /\ f[a] \in Nat
        BY <3>1, <3>2
      <4>. QED
        BY <3>1, <4>1
    <3>4. ASSUME NEW x \in s, x # a PROVE h[s] = f[x] + h[s \ {x}]
      <4>1. h[s \ {a}] = f[x] + h[(s \ {a}) \ {x}]
        BY <3>1, <3>2, <3>4
      <4>2. h[s \ {x}] = f[a] + h[(s \ {x}) \ {a}]
        BY <3>1, <3>2, <3>4
      <4>3. (s \ {a}) \ {x} = (s \ {x}) \ {a} /\ (s \ {a}) \ {x} \in SUBSET S
        OBVIOUS
      <4>4. h[(s \ {a}) \ {x}] \in Nat
        <5>1. Cardinality(s \ {a}) = Cardinality(s) - 1 /\ s \ {a} \in SUBSET S
          BY <1>3, <3>1
        <5>2. Cardinality((s \ {a}) \ {x}) = Cardinality(s \ {a}) - 1
          BY <1>3, <3>4, <5>1
        <5>3. Cardinality((s \ {a}) \ {x}) <= m
          BY <1>2, <2>1, <5>1, <5>2
        <5>. QED
          BY <1>6, <4>3, <5>3
      <4>. QED
        BY <3>1, <3>2, <3>4, <4>1, <4>2, <4>3, <4>4
    <3>. QED
      BY <3>1, <3>3, <3>4
  <2>2. m + 1 \in 0..n
    BY <1>2
  <2>. QED
    BY <1>4, <2>1, <2>2
<1>7. n \in D
  <2>. HIDE DEF D
  <2>1. 0..n \subseteq D
    BY <1>2, <1>5, <1>6, UptoInduction
  <2>. QED
    BY <1>2, <2>1
<1>8. \A s \in SUBSET S : s \in Q
  <2>1. \A s \in SUBSET S : Cardinality(s) <= n
    BY <1>2
  <2>. HIDE DEF Q
  <2>. QED
    BY <1>7, <2>1
<1>. QED
  BY <1>4, <1>8

(* A part sums up to the same in whatever function it is a part of.        *)
LEMMA SumsAgree ==
  ASSUME NEW S, IsFiniteSet(S), NEW f \in [S -> Nat], NEW h, Sums(h, f),
         NEW P, P \subseteq S, NEW k, Sums(k, [i \in P |-> f[i]])
  PROVE  h[P] = k[P]
<1>. DEFINE g == [i \in P |-> f[i]]
            Q == {T \in SUBSET P : h[T] = k[T]}
<1>1. g \in [P -> Nat] /\ IsFiniteSet(P) /\ P \in SUBSET S
  BY FS_Subset
<1>2. /\ h[{}] = 0
      /\ \A s \in SUBSET S : \A x \in s : h[s] = f[x] + h[s \ {x}]
  BY SumsInAnyOrder
<1>. HIDE DEF g
<1>3. /\ k[{}] = 0
      /\ \A s \in SUBSET P : \A x \in s : k[s] = g[x] + k[s \ {x}]
  <2>1. Sums(k, g)
    BY DEF g
  <2>. QED
    BY <1>1, <2>1, SumsInAnyOrder
<1>4. {} \in Q
  BY <1>2, <1>3
<1>5. ASSUME NEW T, NEW x, T \subseteq P, x \in P, x \notin T, T \in Q
      PROVE  T \cup {x} \in Q
  <2>. DEFINE U == T \cup {x}
  <2>1. U \in SUBSET P /\ U \in SUBSET S /\ x \in U /\ U \ {x} = T
    BY <1>1, <1>5
  <2>. HIDE DEF U
  <2>2. h[U] = f[x] + h[T] /\ k[U] = g[x] + k[T] /\ g[x] = f[x]
    BY <1>2, <1>3, <1>5, <2>1 DEF g
  <2>. QED
    BY <1>5, <2>1, <2>2 DEF U
<1>6. P \in Q
  <2>. HIDE DEF Q
  <2>1. \A T : T \subseteq P => T \in Q
    BY ONLY <1>1, <1>4, <1>5, PartsInduction
  <2>. QED
    BY <2>1
<1>. QED
  BY <1>6

LEMMA SumProperties ==
  ASSUME NEW S, IsFiniteSet(S), NEW f \in [S -> Nat]
  PROVE  /\ SumOf(f) \in Nat
         /\ S = {} => SumOf(f) = 0
         /\ \A x \in S : SumOf(f) = f[x] + SumOf([i \in S \ {x} |-> f[i]])
<1>. DEFINE h == CHOOSE k : Sums(k, f)
<1>1. Sums(h, f) /\ SumOf(f) = h[S]
  <2>1. \E k : Sums(k, f)
    BY PartsSumUp
  <2>2. SumOf(f) = h[DOMAIN f]
    BY SumIsOfParts
  <2>. QED
    BY <2>1, <2>2
<1>. HIDE DEF h
<1>2. /\ h[{}] = 0 /\ h[S] \in Nat
      /\ \A x \in S : h[S] = f[x] + h[S \ {x}]
  <2>1. /\ h[{}] = 0
        /\ \A s \in SUBSET S : h[s] \in Nat
        /\ \A s \in SUBSET S : \A x \in s : h[s] = f[x] + h[s \ {x}]
    BY ONLY <1>1, IsFiniteSet(S), f \in [S -> Nat], SumsInAnyOrder
  <2>2. S \in SUBSET S
    OBVIOUS
  <2>. QED
    BY <2>1, <2>2
<1>3. ASSUME NEW x \in S PROVE h[S \ {x}] = SumOf([i \in S \ {x} |-> f[i]])
  <2>. DEFINE P == S \ {x}
              g == [i \in P |-> f[i]]
              k == CHOOSE l : Sums(l, g)
  <2>1. g \in [P -> Nat] /\ IsFiniteSet(P) /\ P \subseteq S /\ DOMAIN g = P
    BY FS_RemoveElement
  <2>. HIDE DEF P
  <2>2. Sums(k, g) /\ SumOf(g) = k[P]
    <3>. HIDE DEF g
    <3>1. \E l : Sums(l, g)
      BY <2>1, PartsSumUp
    <3>2. SumOf(g) = k[DOMAIN g]
      BY SumIsOfParts
    <3>. QED
      BY <2>1, <3>1, <3>2
  <2>3. h[P] = k[P]
    <3>. HIDE DEF k
    <3>. QED
      BY <1>1, <2>1, <2>2, SumsAgree
  <2>. QED
    BY <2>2, <2>3 DEF P
<1>. QED
  BY <1>1, <1>2, <1>3

(* The sum of two disjoint parts                                           *)
LEMMA SumOfDisjoint ==
  ASSUME NEW S, IsFiniteSet(S), NEW f \in [S -> Nat],
         NEW A, NEW B, A \cup B = S, A \cap B = {}
  PROVE  SumOf(f) = SumOf([i \in A |-> f[i]]) + SumOf([i \in B |-> f[i]])
<1>. DEFINE s(T) == SumOf([i \in T |-> f[i]])
            Q == {T \in SUBSET B : s(A \cup T) = s(A) + s(T)}
<1>1. ASSUME NEW T, T \subseteq S
      PROVE  /\ IsFiniteSet(T) /\ s(T) \in Nat /\ (T = {} => s(T) = 0)
             /\ \A x \in T : s(T) = f[x] + s(T \ {x})
  <2>. DEFINE g == [i \in T |-> f[i]]
  <2>1. IsFiniteSet(T)
    BY <1>1, FS_Subset, T \in SUBSET S
  <2>2. g \in [T -> Nat] /\ \A i \in T : g[i] = f[i]
    BY <1>1
  <2>3. \A x \in T : [i \in T \ {x} |-> g[i]] = [i \in T \ {x} |-> f[i]]
    OBVIOUS
  <2>. HIDE DEF g
  <2>4. /\ SumOf(g) \in Nat /\ (T = {} => SumOf(g) = 0)
        /\ \A x \in T : SumOf(g) = g[x] + SumOf([i \in T \ {x} |-> g[i]])
    BY <2>1, <2>2, SumProperties
  <2>5. \A x \in T : SumOf(g) = f[x] + SumOf([i \in T \ {x} |-> f[i]])
    BY <2>2, <2>3, <2>4
  <2>. QED
    BY <2>1, <2>4, <2>5 DEF g
<1>. HIDE DEF s
<1>2. {} \in Q
  <2>1. A \cup {} = A /\ A \subseteq S /\ {} \subseteq S
    OBVIOUS
  <2>2. s(A) \in Nat /\ s({}) = 0
    BY <1>1, <2>1
  <2>3. s(A \cup {}) = s(A) + s({})
    BY <2>1, <2>2
  <2>. QED
    BY <2>3
<1>3. ASSUME NEW T, NEW x, T \subseteq B, x \in B, x \notin T, T \in Q
      PROVE  T \cup {x} \in Q
  <2>. DEFINE U == T \cup {x}
              W == A \cup U
  <2>1. U \subseteq S /\ W \subseteq S /\ x \in U /\ x \in W /\ U \ {x} = T
        /\ W \ {x} = A \cup T /\ A \subseteq S /\ T \subseteq S
    BY <1>3
  <2>. HIDE DEF U, W
  <2>2. s(U) = f[x] + s(T) /\ s(W) = f[x] + s(A \cup T)
    BY <1>1, <2>1
  <2>3. s(A) \in Nat /\ s(T) \in Nat /\ f[x] \in Nat
    BY <1>1, <1>3, <2>1
  <2>4. s(A \cup T) = s(A) + s(T)
    BY <1>3
  <2>5. s(W) = s(A) + s(U)
    BY <2>2, <2>3, <2>4
  <2>. QED
    BY <1>3, <2>5 DEF U, W
<1>4. B \in Q
  <2>1. IsFiniteSet(B)
    BY <1>1
  <2>. HIDE DEF Q
  <2>. QED
    BY <1>2, <1>3, <2>1, PartsInduction
<1>5. s(S) = SumOf(f)
  <2>1. [i \in S |-> f[i]] = f
    OBVIOUS
  <2>. QED
    BY <2>1 DEF s
<1>6. s(S) = s(A) + s(B)
  BY <1>4
<1>. QED
  BY <1>5, <1>6 DEF s

LEMMA SumOfSingle ==
  ASSUME NEW x, NEW f, f \in [{x} -> Nat]
  PROVE  SumOf(f) = f[x]
<1>. DEFINE g == [i \in {x} \ {x} |-> f[i]]
<1>1. IsFiniteSet({x}) /\ IsFiniteSet({x} \ {x}) /\ {x} \ {x} = {}
  <2>1. {x} \ {x} = {}
    OBVIOUS
  <2>. QED
    BY <2>1, FS_Singleton, FS_EmptySet
<1>2. g \in [{x} \ {x} -> Nat]
  OBVIOUS
<1>3. SumOf(f) = f[x] + SumOf(g)
  <2>. DEFINE S == {x}
  <2>1. \A y \in S : SumOf(f) = f[y] + SumOf([i \in S \ {y} |-> f[i]])
    <3>1. IsFiniteSet(S) /\ f \in [S -> Nat]
      BY <1>1
    <3>. HIDE DEF S
    <3>. QED
      BY ONLY <3>1, SumProperties
  <2>. QED
    BY <2>1
<1>. HIDE DEF g
<1>4. SumOf(g) = 0
  BY <1>1, <1>2, SumProperties
<1>5. f[x] \in Nat
  OBVIOUS
<1>. QED
  BY <1>3, <1>4, <1>5

LEMMA SumOfNone ==
  ASSUME NEW S, S = {}, NEW f \in [S -> Nat]
  PROVE  SumOf(f) = 0
<1>1. IsFiniteSet(S)
  BY FS_EmptySet
<1>. QED
  BY <1>1, SumProperties

(* Summed in groups, each of them kept in a row                            *)
Grouped(g, row, C, f, D, cat) ==
  /\ IsFiniteSet(D) /\ f \in [D -> Nat]
  /\ IsFiniteSet(C) /\ \A p \in D : cat[p] \in C
  /\ \A b, c \in C : row[b] = row[c] => b = c
  /\ g \in [{row[c] : c \in C} -> Nat]
  /\ \A c \in C : g[row[c]] = SumOf([p \in {i \in D : cat[i] = c} |-> f[p]])

LEMMA SumOfGroups ==
  ASSUME NEW g, NEW row, NEW C, NEW f, NEW D, NEW cat, Grouped(g, row, C, f, D, cat)
  PROVE  SumOf(g) = SumOf(f)
<1>. DEFINE R(T) == {row[c] : c \in T}
            P(T) == {p \in D : cat[p] \in T}
            G(T) == SumOf([x \in R(T) |-> g[x]])
            F(T) == SumOf([p \in P(T) |-> f[p]])
            Q == {T \in SUBSET C : G(T) = F(T)}
<1>0. /\ IsFiniteSet(D) /\ f \in [D -> Nat]
      /\ IsFiniteSet(C) /\ \A p \in D : cat[p] \in C
      /\ \A b, c \in C : row[b] = row[c] => b = c
      /\ g \in [{row[c] : c \in C} -> Nat]
      /\ \A c \in C : g[row[c]] = SumOf([p \in {i \in D : cat[i] = c} |-> f[p]])
  BY DEF Grouped
<1>1. ASSUME NEW T, T \subseteq C
      PROVE  IsFiniteSet(R(T)) /\ IsFiniteSet(P(T)) /\ R(T) \subseteq R(C)
  <2>1. IsFiniteSet(T)
    BY <1>0, <1>1, FS_Subset, T \in SUBSET C
  <2>2. IsFiniteSet(R(T))
    BY <2>1, FiniteImage
  <2>3. IsFiniteSet(P(T))
    BY <1>0, FS_Subset, P(T) \in SUBSET D
  <2>. QED
    BY <1>1, <2>2, <2>3
<1>2. {} \in Q
  <2>1. R({}) = {} /\ P({}) = {}
    OBVIOUS
  <2>. DEFINE e == [x \in R({}) |-> g[x]]
              d == [p \in P({}) |-> f[p]]
  <2>2. e \in [R({}) -> Nat] /\ d \in [P({}) -> Nat]
    BY <1>0, <2>1
  <2>3. SumOf(e) = 0 /\ SumOf(d) = 0
    <3>. HIDE DEF e, d, R, P
    <3>. QED
      BY <2>1, <2>2, SumOfNone
  <2>. QED
    BY <2>3
<1>3. ASSUME NEW T, NEW c, T \subseteq C, c \in C, c \notin T, T \in Q
      PROVE  T \cup {c} \in Q
  <2>. DEFINE U == T \cup {c}
              e == [x \in R(U) |-> g[x]]
              d == [p \in P(U) |-> f[p]]
              one == {p \in D : cat[p] = c}
  <2>1. U \subseteq C /\ IsFiniteSet(R(U)) /\ IsFiniteSet(P(U)) /\ R(U) \subseteq R(C)
    BY <1>1, <1>3
  <2>2. row[c] \in R(U) /\ R(U) \ {row[c]} = R(T)
    BY <1>0, <1>3
  <2>3. P(U) = one \cup P(T) /\ one \cap P(T) = {}
    BY <1>3
  <2>4. e \in [R(U) -> Nat] /\ d \in [P(U) -> Nat]
    BY <1>0, <2>1
  <2>5. /\ [x \in R(T) |-> e[x]] = [x \in R(T) |-> g[x]]
        /\ e[row[c]] = g[row[c]]
    BY <2>2
  <2>6. /\ [p \in P(T) |-> d[p]] = [p \in P(T) |-> f[p]]
        /\ [p \in one |-> d[p]] = [p \in one |-> f[p]]
    BY <2>3
  <2>7. SumOf(e) = g[row[c]] + G(T)
    <3>. HIDE DEF e, R
    <3>1. \A y \in R(U) : SumOf(e) = e[y] + SumOf([x \in R(U) \ {y} |-> e[x]])
      <4>. HIDE DEF U
      <4>. QED
        BY ONLY <2>1, <2>4, SumProperties
    <3>. HIDE DEF U
    <3>. QED
      BY <2>2, <2>5, <3>1
  <2>8. SumOf(d) = SumOf([p \in one |-> f[p]]) + F(T)
    <3>. HIDE DEF d, P, one
    <3>1. SumOf(d) = SumOf([p \in one |-> d[p]]) + SumOf([p \in P(T) |-> d[p]])
      <4>. HIDE DEF U
      <4>1. one \cup P(T) = P(U) /\ one \cap P(T) = {}
        BY <2>3
      <4>. QED
        BY ONLY <2>1, <2>4, <4>1, SumOfDisjoint
    <3>. QED
      BY <2>6, <3>1
  <2>9. g[row[c]] = SumOf([p \in one |-> f[p]])
    BY <1>0, <1>3
  <2>10. G(T) = F(T)
    BY <1>3
  <2>11. G(U) = F(U)
    BY <2>7, <2>8, <2>9, <2>10
  <2>. QED
    BY <2>1, <2>11
<1>4. C \in Q
  <2>. HIDE DEF Q
  <2>1. \A T : T \subseteq C => T \in Q
    BY ONLY <1>0, <1>2, <1>3, PartsInduction
  <2>. QED
    BY <2>1
<1>5. [x \in R(C) |-> g[x]] = g /\ P(C) = D /\ [p \in D |-> f[p]] = f
  BY <1>0
<1>. QED
  BY <1>4, <1>5

(* A sequence of each member of a set once.                                *)
Arranges(p, n, S) ==
  /\ n \in Nat /\ p \in [1..n -> S]
  /\ \A i, j \in 1..n : p[i] = p[j] => i = j
  /\ \A x \in S : \E i \in 1..n : p[i] = x

(* As many members under other names.                                      *)
LEMMA SameSize ==
  ASSUME NEW A, IsFiniteSet(A), NEW p, \A a, b \in A : p[a] = p[b] => a = b
  PROVE  IsFiniteSet({p[a] : a \in A}) /\ Cardinality({p[a] : a \in A}) = Cardinality(A)
<1>. DEFINE B == {p[a] : a \in A}
            f == [a \in A |-> p[a]]
<1>1. f \in [A -> B] /\ (\A a, b \in A : f[a] = f[b] => a = b) /\ \A y \in B : \E a \in A : f[a] = y
  OBVIOUS
<1>. HIDE DEF f, B
<1>2. f \in Bijection(A, B)
  BY <1>1 DEF Bijection, Injection, Surjection, IsInjective
<1>. QED BY <1>2, FS_Bijection DEF B, ExistsBijection

LEMMA OneToOneArranges ==
  ASSUME NEW S, IsFiniteSet(S), NEW n \in Nat, Cardinality(S) = n, NEW p \in [1..n -> S],
         \A i, j \in 1..n : p[i] = p[j] => i = j
  PROVE  Arranges(p, n, S)
<1>1. p \in Injection(1..n, S)
  BY DEF Injection, IsInjective
<1>2. IsFiniteSet(1..n) /\ Cardinality(1..n) = n
  <2>1. 1 \in Int /\ n \in Int
    OBVIOUS
  <2>. QED BY <2>1, FS_Interval
<1>3. p \in Surjection(1..n, S)
  BY <1>1, <1>2, FS_Injection
<1>4. \A x \in S : \E i \in 1..n : p[i] = x
  BY <1>3 DEF Surjection
<1>. QED BY <1>4 DEF Arranges

LEMMA ArrangedSize ==
  ASSUME NEW S, NEW n, NEW p, Arranges(p, n, S)
  PROVE  IsFiniteSet(S) /\ Cardinality(S) = n /\ S = {p[i] : i \in 1..n}
<1>. USE DEF Arranges
<1>1. S = {p[i] : i \in 1..n}
  OBVIOUS
<1>2. IsFiniteSet(1..n) /\ Cardinality(1..n) = n
  <2>1. 1 \in Int /\ n \in Int
    OBVIOUS
  <2>. QED BY <2>1, FS_Interval
<1>. QED BY <1>1, <1>2, SameSize

(* A set of positions has a last.                                          *)
LEMMA MaxIsIn ==
  ASSUME NEW n \in Nat, NEW S, S \subseteq 1..n, S # {}
  PROVE  Max(S) \in S
<1>. DEFINE D == {n - i : i \in S}
<1>0. \A i \in S : i \in Nat /\ i <= n /\ n - i \in Nat
  OBVIOUS
<1>1. D \in SUBSET Nat /\ D # {}
  BY ONLY <1>0, S # {}
<1>2. PICK d \in D : \A e \in D : d <= e
  <2>. HIDE DEF D
  <2>. QED BY <1>1, LeastNumber
<1>3. PICK i \in S : d = n - i
  BY <1>2
<1>4. \A j \in S : i >= j
  <2>1. \A j \in S : d <= n - j
    BY <1>2
  <2>. QED BY ONLY <1>0, <1>3, <2>1, n \in Nat
<1>. QED BY <1>3, <1>4 DEF Max

(* Two sets without a common member.                                       *)
LEMMA Disjoint ==
  ASSUME NEW X, NEW Y, IsFiniteSet(X), IsFiniteSet(Y), X \cap Y = {}
  PROVE  /\ IsFiniteSet(X \cup Y) /\ Cardinality(X) \in Nat /\ Cardinality(Y) \in Nat
         /\ Cardinality(X \cup Y) = Cardinality(X) + Cardinality(Y)
<1>1. Cardinality(X \cap Y) = 0
  BY FS_EmptySet
<1>2. Cardinality(X) \in Nat /\ Cardinality(Y) \in Nat
  BY FS_CardinalityType
<1>3. IsFiniteSet(X \cup Y) /\ Cardinality(X \cup Y) = Cardinality(X) + Cardinality(Y) - Cardinality(X \cap Y)
  BY FS_Union
<1>. QED BY ONLY <1>1, <1>2, <1>3

(* A sum over a part, from any of its elements.                            *)
PartOf(k, s) == [i \in s |-> k[i]]
LEMMA SumStep ==
  ASSUME NEW S, IsFiniteSet(S), NEW k \in [S -> Nat], NEW s, s \subseteq S
  PROVE  /\ SumOf(PartOf(k, s)) \in Nat
         /\ s = {} => SumOf(PartOf(k, s)) = 0
         /\ \A x \in s : SumOf(PartOf(k, s)) = k[x] + SumOf(PartOf(k, s \ {x}))
<1>1. IsFiniteSet(s)
  BY FS_Subset, s \in SUBSET S
<1>. DEFINE g == PartOf(k, s)
<1>2. g \in [s -> Nat] /\ \A i \in s : g[i] = k[i]
  BY DEF PartOf
<1>3. \A x \in s : PartOf(g, s \ {x}) = PartOf(k, s \ {x})
  BY DEF PartOf
<1>. HIDE DEF g
<1>4. /\ SumOf(g) \in Nat /\ (s = {} => SumOf(g) = 0)
      /\ \A x \in s : SumOf(g) = g[x] + SumOf(PartOf(g, s \ {x}))
  BY <1>1, <1>2, SumProperties DEF PartOf
<1>5. \A x \in s : SumOf(g) = k[x] + SumOf(PartOf(k, s \ {x}))
  BY <1>2, <1>3, <1>4
<1>. QED BY <1>4, <1>5 DEF g

(* The same numbers under other names.                                     *)
LEMMA SumRenamed ==
  ASSUME NEW A, IsFiniteSet(A), NEW f \in [A -> Nat], NEW p, \A a, b \in A : p[a] = p[b] => a = b,
         NEW g \in [{p[a] : a \in A} -> Nat], \A a \in A : g[p[a]] = f[a]
  PROVE  SumOf(g) = SumOf(f)
<1>. DEFINE id == [a \in A |-> a]
<1>1. ASSUME NEW a \in A PROVE g[p[a]] = SumOf([i \in {j \in A : id[j] = a} |-> f[i]])
  <2>1. {j \in A : id[j] = a} = {a}
    OBVIOUS
  <2>. DEFINE h == [i \in {a} |-> f[i]]
  <2>2. h \in [{a} -> Nat] /\ h[a] = f[a]
    OBVIOUS
  <2>. HIDE DEF h
  <2>3. SumOf(h) = f[a]
    BY <2>2, SumOfSingle
  <2>. QED BY <2>1, <2>3 DEF h
<1>2. \A i \in A : id[i] \in A
  OBVIOUS
<1>. HIDE DEF id
<1>3. Grouped(g, p, A, f, A, id)
  BY <1>1, <1>2 DEF Grouped
<1>. QED BY <1>3, SumOfGroups

(* A sum of numbers up to d, zero only if all are.                         *)
LEMMA SumBounds ==
  ASSUME NEW S, IsFiniteSet(S), NEW f \in [S -> Nat], NEW d \in Nat, \A i \in S : f[i] <= d
  PROVE  /\ SumOf(f) \in Nat /\ Cardinality(S) \in Nat
         /\ SumOf(f) <= Cardinality(S) * d
         /\ SumOf(f) = 0 => \A i \in S : f[i] = 0
<1>. DEFINE v(T) == SumOf(PartOf(f, T))
            Q == {T \in SUBSET S : v(T) <= Cardinality(T) * d}
<1>1. \A T \in SUBSET S : IsFiniteSet(T) /\ Cardinality(T) \in Nat
  BY FS_Subset, FS_CardinalityType
<1>2. ASSUME NEW T \in SUBSET S
      PROVE  v(T) \in Nat /\ (T = {} => v(T) = 0) /\ \A x \in T : v(T) = f[x] + v(T \ {x})
  BY SumStep
<1>. HIDE DEF v
<1>3. {} \in Q
  <2>1. v({}) = 0 /\ Cardinality({}) = 0 /\ 0 * d = 0
    BY <1>2, FS_EmptySet
  <2>. QED BY <2>1
<1>4. ASSUME NEW T, NEW x, T \subseteq S, x \in S, x \notin T, T \in Q
      PROVE  T \cup {x} \in Q
  <2>. DEFINE U == T \cup {x}
  <2>1. U \in SUBSET S /\ x \in U /\ U \ {x} = T /\ T \in SUBSET S
    BY <1>4
  <2>2. Cardinality(U) = Cardinality(T) + 1
    BY <1>1, <1>4, <2>1, FS_AddElement
  <2>. HIDE DEF U
  <2>3. v(U) = f[x] + v(T) /\ v(T) \in Nat /\ Cardinality(T) \in Nat
    BY <1>1, <1>2, <2>1
  <2>4. f[x] <= d /\ f[x] \in Nat /\ v(T) <= Cardinality(T) * d
    BY <1>4
  <2>. DEFINE c == Cardinality(T)
  <2>5. (c + 1) * d = c * d + d /\ c * d \in Nat
    BY <2>3
  <2>. HIDE DEF c
  <2>6. v(U) <= Cardinality(U) * d
    BY <2>2, <2>3, <2>4, <2>5 DEF c
  <2>. QED BY <2>1, <2>6 DEF U
<1>. HIDE DEF Q
<1>5. S \in Q
  <2>1. \A T : T \subseteq S => T \in Q
    BY ONLY <1>3, <1>4, IsFiniteSet(S), PartsInduction
  <2>. QED BY <2>1
<1>6. PartOf(f, S) = f
  BY DEF PartOf
<1>7. v(S) = SumOf(f) /\ v(S) \in Nat /\ \A x \in S : v(S) = f[x] + v(S \ {x}) /\ v(S \ {x}) \in Nat
  <2>1. S \in SUBSET S /\ \A x \in S : S \ {x} \in SUBSET S
    OBVIOUS
  <2>. QED BY <1>2, <1>6, <2>1 DEF v
<1>8. v(S) <= Cardinality(S) * d
  BY <1>5 DEF Q
<1>9. ASSUME v(S) = 0, NEW i \in S PROVE f[i] = 0
  <2>1. f[i] \in Nat /\ v(S) = f[i] + v(S \ {i}) /\ v(S \ {i}) \in Nat
    BY <1>7
  <2>. QED BY ONLY <1>9, <2>1
<1>. QED BY <1>1, <1>7, <1>8, <1>9

(* The pairs of a relation from a set, and those from one member more.     *)
From(R, T) == {z \in R : z[1] \in T}
Relates(R, A, B) == R \subseteq A \X B
Partners(R, B, x) == {b \in B : <<x, b>> \in R}
LEMMA OneMore ==
  ASSUME NEW A, NEW B, IsFiniteSet(A), IsFiniteSet(B), NEW R, Relates(R, A, B),
         NEW T, T \subseteq A, NEW x \in A, x \notin T
  PROVE  /\ Cardinality(From(R, T)) \in Nat
         /\ Cardinality(Partners(R, B, x)) \in Nat
         /\ Cardinality(From(R, T \cup {x})) =
              Cardinality(From(R, T)) + Cardinality(Partners(R, B, x))
<1>. DEFINE C == {b \in B : <<x, b>> \in R}
            p == [b \in C |-> <<x, b>>]
            U == {p[b] : b \in C}
            V == From(R, T)
<1>1. IsFiniteSet(R)
  <2>1. IsFiniteSet(A \X B)
    BY FS_Product
  <2>2. R \in SUBSET (A \X B)
    BY DEF Relates
  <2>. QED BY <2>1, <2>2, FS_Subset
<1>2. IsFiniteSet(C)
  BY FS_Subset, C \in SUBSET B
<1>3. IsFiniteSet(V)
  BY <1>1, FS_Subset, V \in SUBSET R DEF From
<1>4. \A b \in C : p[b] = <<x, b>>
  OBVIOUS
<1>5. U = {<<x, b>> : b \in C}
  OBVIOUS
<1>6. IsFiniteSet(U) /\ Cardinality(U) = Cardinality(C)
  <2>1. \A a, b \in C : p[a] = p[b] => a = b
    BY <1>4
  <2>. HIDE DEF C, p
  <2>. QED BY <1>2, <2>1, SameSize
<1>7. From(R, T \cup {x}) = V \cup U
  <2>1. \A z \in R : z[1] = x => \E b \in C : z = <<x, b>>
    BY DEF Relates
  <2>2. \A b \in C : <<x, b>> \in R /\ <<x, b>>[1] = x
    OBVIOUS
  <2>. HIDE DEF C, p, U
  <2>. QED BY <1>5, <2>1, <2>2 DEF From
<1>8. V \cap U = {}
  <2>1. \A z \in V : z[1] \in T
    BY DEF From
  <2>2. \A z \in U : z[1] = x
    <3>. HIDE DEF U, V, C
    <3>. QED BY ONLY <1>5
  <2>. HIDE DEF U, V
  <2>. QED BY <2>1, <2>2
<1>. HIDE DEF C, U, V
<1>9. Cardinality(V \cup U) = Cardinality(V) + Cardinality(U) - Cardinality(V \cap U)
  BY <1>3, <1>6, FS_Union
<1>10. Cardinality(V \cap U) = 0 /\ Cardinality(V) \in Nat /\ Cardinality(C) \in Nat
  BY <1>2, <1>3, <1>8, FS_EmptySet, FS_CardinalityType
<1>11. Cardinality(V \cup U) = Cardinality(V) + Cardinality(C)
  BY ONLY <1>6, <1>9, <1>10
<1>. QED BY <1>7, <1>10, <1>11 DEF C, V, Partners

(* Twice and once the sizes of two relations, counted member by member.    *)
LEMMA CountedByMember ==
  ASSUME NEW A, NEW B, IsFiniteSet(A), IsFiniteSet(B),
         NEW L, Relates(L, A, B), NEW E, Relates(E, A, B), NEW k \in [A -> Nat],
         \A a \in A : k[a] = 2 * Cardinality(Partners(L, B, a))
                               + Cardinality(Partners(E, B, a)) + 1
  PROVE  /\ Cardinality(L) \in Nat /\ Cardinality(E) \in Nat /\ Cardinality(A) \in Nat
         /\ SumOf(k) = 2 * Cardinality(L) + Cardinality(E) + Cardinality(A)
<1>. DEFINE count(T) == 2 * Cardinality(From(L, T)) + Cardinality(From(E, T)) + Cardinality(T)
            Q == {T \in SUBSET A : SumOf(PartOf(k, T)) = count(T)}
<1>1. {} \in Q
  <2>1. From(L, {}) = {} /\ From(E, {}) = {}
    BY DEF From
  <2>2. SumOf(PartOf(k, {})) = 0
    BY SumStep
  <2>3. Cardinality({}) = 0
    BY FS_EmptySet
  <2>4. count({}) = 0
    BY ONLY <2>1, <2>3
  <2>. HIDE DEF count
  <2>. QED BY <2>2, <2>4
<1>2. ASSUME NEW T, NEW x, T \subseteq A, x \in A, x \notin T, T \in Q
      PROVE  T \cup {x} \in Q
  <2>. HIDE DEF Q
  <2>a. /\ Cardinality(From(L, T)) \in Nat
        /\ Cardinality(Partners(L, B, x)) \in Nat
        /\ Cardinality(From(L, T \cup {x})) =
             Cardinality(From(L, T)) + Cardinality(Partners(L, B, x))
    BY ONLY <1>2, IsFiniteSet(A), IsFiniteSet(B), Relates(L, A, B), OneMore
  <2>b. /\ Cardinality(From(E, T)) \in Nat
        /\ Cardinality(Partners(E, B, x)) \in Nat
        /\ Cardinality(From(E, T \cup {x})) =
             Cardinality(From(E, T)) + Cardinality(Partners(E, B, x))
    BY ONLY <1>2, IsFiniteSet(A), IsFiniteSet(B), Relates(E, A, B), OneMore
  <2>. USE DEF Q
  <2>. DEFINE l == Cardinality(From(L, T))
              e == Cardinality(From(E, T))
              c == Cardinality(T)
              i == Cardinality(Partners(L, B, x))
              j == Cardinality(Partners(E, B, x))
              S == T \cup {x}
  <2>1. /\ l \in Nat /\ i \in Nat /\ Cardinality(From(L, S)) = l + i
        /\ e \in Nat /\ j \in Nat /\ Cardinality(From(E, S)) = e + j
    BY <2>a, <2>b
  <2>2. c \in Nat /\ Cardinality(S) = c + 1
    <3>1. IsFiniteSet(T)
      BY <1>2, FS_Subset, T \in SUBSET A
    <3>. QED BY <1>2, <3>1, FS_AddElement, FS_CardinalityType
  <2>3. SumOf(PartOf(k, S)) = k[x] + SumOf(PartOf(k, T))
    <3>1. S \subseteq A /\ x \in S /\ S \ {x} = T
      BY <1>2
    <3>. HIDE DEF S
    <3>. QED BY <3>1, SumStep
  <2>4. k[x] = 2 * i + j + 1
    BY <1>2
  <2>5. SumOf(PartOf(k, T)) = 2 * l + e + c
    BY <1>2
  <2>6. SumOf(PartOf(k, S)) = 2 * Cardinality(From(L, S)) + Cardinality(From(E, S)) + Cardinality(S)
    <3>. HIDE DEF l, e, c, i, j, S
    <3>. QED BY ONLY <2>1, <2>2, <2>3, <2>4, <2>5
  <2>. QED BY <1>2, <2>6
<1>3. A \in Q
  <2>. HIDE DEF Q
  <2>1. \A T, x : T \subseteq A /\ x \in A /\ x \notin T /\ T \in Q => T \cup {x} \in Q
    BY <1>2
  <2>2. \A T : T \subseteq A => T \in Q
    BY <1>1, <2>1, PartsInduction
  <2>. QED BY <2>2
<1>4. From(L, A) = L /\ From(E, A) = E /\ PartOf(k, A) = k
  BY DEF From, PartOf, Relates
<1>5. Cardinality(L) \in Nat /\ Cardinality(E) \in Nat /\ Cardinality(A) \in Nat
  <2>1. IsFiniteSet(A \X B)
    BY FS_Product
  <2>2. L \in SUBSET (A \X B) /\ E \in SUBSET (A \X B)
    BY DEF Relates
  <2>. QED BY <2>1, <2>2, FS_Subset, FS_CardinalityType
<1>. QED BY <1>3, <1>4, <1>5
=============================================================================
