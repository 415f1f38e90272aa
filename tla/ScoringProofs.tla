--------------------------- MODULE ScoringProofs ----------------------------
(***************************************************************************)
(* Proofs about CtiScoring: sums of fractions in any order, the measures   *)
(* of the tasks against what they stand for, sorting by date, and ranks    *)
(* against pairs.                                                          *)
(***************************************************************************)
EXTENDS CtiScoring, PicksProofs
-----------------------------------------------------------------------------
(* Fractions *)

(* Whole-number division, as remainders have it.                           *)
LEMMA Divides ==
  ASSUME NEW n \in Nat, NEW d \in Nat, d # 0
  PROVE /\ n \div d \in Nat
        /\ n % d = 0 <=> n = d * (n \div d)
        /\ n % d = 0 <=> \E p \in Nat : n = d * p
<1>1. n \div d \in Nat /\ n % d \in 0..(d-1) /\ n = d * (n \div d) + (n % d)
  OBVIOUS
<1>2. ASSUME NEW p \in Nat, n = d * p PROVE n % d = 0
  BY <1>2
<1>3. n % d = 0 => n = d * (n \div d)
  <2>. DEFINE x == d * (n \div d)
       y == n % d
  <2>1. n = x + y /\ x \in Nat /\ y \in Nat
    BY <1>1
  <2>. HIDE DEF x, y
  <2>2. y = 0 => n = x
    BY <2>1
  <2>. QED BY <2>2 DEF x, y
<1>. QED BY <1>1, <1>2, <1>3

Positive == Nat \ {0}

(* Fractions are what Frac makes.  Two pairs of numerator and denominator  *)
(* are the same if their cross products are, and q is a denominator of n/d *)
(* if n * q / d is whole.                                                  *)
Fractions == {Frac(n, d) : n \in Nat, d \in Positive}
Whole(n, d, q) == (n * q) % d = 0
Part(n, d, q) == (n * q) \div d
Same(n, d, m, e) == n * e = m * d

(* The denominators of a fraction are those of all that are the same.      *)
LEMMA SameDenominators ==
  ASSUME NEW n \in Nat, NEW d \in Nat, d # 0, NEW m \in Nat, NEW e \in Nat, e # 0,
         Same(n, d, m, e), NEW q \in Nat
  PROVE  Whole(n, d, q) => Whole(m, e, q) /\ Part(n, d, q) = Part(m, e, q)
<1>. USE DEF Whole, Part, Same
<1>. SUFFICES ASSUME (n * q) % d = 0 PROVE (m * q) % e = 0 /\ (n * q) \div d = (m * q) \div e
  OBVIOUS
<1>. DEFINE p == (n * q) \div d
<1>1. n * q \in Nat /\ m * q \in Nat
  OBVIOUS
<1>2. p \in Nat /\ n * q = d * p
  BY <1>1, Divides
<1>. HIDE DEF p
<1>3. d * (m * q) = d * (e * p)
  <2>1. d * (m * q) = (n * e) * q
    OBVIOUS
  <2>2. (n * e) * q = e * (n * q)
    OBVIOUS
  <2>3. e * (d * p) = d * (e * p)
    BY <1>2
  <2>. QED BY ONLY <2>1, <2>2, <2>3, <1>2
<1>4. m * q = e * p
  BY <1>2, <1>3
<1>5. (m * q) % e = 0 /\ m * q = e * ((m * q) \div e) /\ (m * q) \div e \in Nat
  BY <1>1, <1>2, <1>4, Divides
<1>. DEFINE r == (m * q) \div e
<1>. HIDE DEF r
<1>6. e * p = e * r /\ r \in Nat
  BY <1>4, <1>5 DEF r
<1>7. p = r
  BY ONLY <1>2, <1>6, e \in Nat, e # 0
<1>. QED
  BY <1>5, <1>7 DEF p, r

(* There is a least denominator, and Frac is written with it.              *)
Least(n, d) == CHOOSE q \in 1..d : Whole(n, d, q) /\ \A p \in 1..(q - 1) : ~Whole(n, d, p)
LEMMA FracIs == \A n, d : Frac(n, d) = <<Part(n, d, Least(n, d)), Least(n, d)>>
  BY DEF Frac, Least, Whole, Part

LEMMA LeastProperties ==
  ASSUME NEW n \in Nat, NEW d \in Nat, d # 0
  PROVE  /\ Least(n, d) \in 1..d /\ Whole(n, d, Least(n, d))
         /\ \A p \in 1..(Least(n, d) - 1) : ~Whole(n, d, p)
<1>. DEFINE D == {q \in 1..d : Whole(n, d, q)}
<1>1. D \in SUBSET Nat /\ d \in D
  <2>1. n * d \in Nat /\ n * d = d * n
    OBVIOUS
  <2>2. (n * d) % d = 0
    BY <2>1, Divides
  <2>. QED BY <2>2 DEF Whole
<1>2. PICK q \in D : \A e \in D : q <= e
  BY <1>1, LeastNumber
<1>3. q \in 1..d /\ Whole(n, d, q) /\ \A p \in 1..(q - 1) : ~Whole(n, d, p)
  <2>1. \A p \in 1..(q - 1) : p \in 1..d /\ ~(q <= p)
    BY <1>1, <1>2
  <2>. QED BY <1>2, <2>1
<1>. QED
  BY <1>3 DEF Least

(* Frac makes one of all that are the same.                                *)
LEMMA FracSame ==
  ASSUME NEW n \in Nat, NEW d \in Nat, d # 0, NEW m \in Nat, NEW e \in Nat, e # 0, Same(n, d, m, e)
  PROVE  Frac(n, d) = Frac(m, e)
<1>0. Same(m, e, n, d)
  BY DEF Same
<1>1. \A q \in Nat : Whole(n, d, q) => Whole(m, e, q) /\ Part(n, d, q) = Part(m, e, q)
  BY SameDenominators
<1>2. \A q \in Nat : Whole(m, e, q) => Whole(n, d, q)
  BY <1>0, SameDenominators
<1>. DEFINE p == Least(n, d)
            q == Least(m, e)
<1>3. /\ p \in 1..d /\ Whole(n, d, p) /\ \A i \in 1..(p - 1) : ~Whole(n, d, i)
      /\ q \in 1..e /\ Whole(m, e, q) /\ \A i \in 1..(q - 1) : ~Whole(m, e, i)
  BY LeastProperties
<1>. HIDE DEF p, q
<1>4. p \in Nat \ {0} /\ q \in Nat \ {0}
  BY <1>3
<1>5. ~(p < q)
  <2>1. p < q => p \in 1..(q - 1)
    BY <1>4
  <2>. QED BY <1>1, <1>3, <1>4, <2>1
<1>6. ~(q < p)
  <2>1. q < p => q \in 1..(p - 1)
    BY <1>4
  <2>. QED BY <1>2, <1>3, <1>4, <2>1
<1>7. p = q
  BY ONLY <1>4, <1>5, <1>6
<1>. QED
  BY <1>1, <1>3, <1>4, <1>7, FracIs DEF p, q

(* What a fraction's parts are to the parts it was made from.              *)
LEMMA FracParts ==
  ASSUME NEW n \in Nat, NEW d \in Nat, d # 0
  PROVE  /\ Frac(n, d) = <<Frac(n, d)[1], Frac(n, d)[2]>>
         /\ Frac(n, d)[1] \in Nat /\ Frac(n, d)[2] \in Nat /\ Frac(n, d)[2] # 0
         /\ Same(Frac(n, d)[1], Frac(n, d)[2], n, d)
<1>. DEFINE q == Least(n, d)
            p == Part(n, d, q)
<1>1. q \in 1..d /\ Whole(n, d, q)
  BY LeastProperties
<1>2. Frac(n, d) = <<p, q>>
  BY FracIs
<1>. HIDE DEF q
<1>6. q \in Nat /\ q # 0
  BY <1>1
<1>3. n * q \in Nat
  BY <1>6
<1>4. p \in Nat /\ n * q = d * p
  BY <1>1, <1>3, Divides DEF Whole, Part
<1>. HIDE DEF p
<1>5. p * d = n * q
  BY <1>4
<1>. QED BY <1>1, <1>2, <1>4, <1>5, <1>6 DEF Same

LEMMA FractionParts ==
  ASSUME NEW x \in Fractions
  PROVE  x = <<x[1], x[2]>> /\ x[1] \in Nat /\ x[2] \in Positive /\ x = Frac(x[1], x[2])
<1>1. PICK n \in Nat, d \in Positive : x = Frac(n, d)
  BY DEF Fractions, Positive
<1>2. d \in Nat /\ d # 0
  BY DEF Positive
<1>3. x = <<x[1], x[2]>> /\ x[1] \in Nat /\ x[2] \in Nat /\ x[2] # 0 /\ Same(x[1], x[2], n, d)
  BY <1>1, <1>2, FracParts
<1>4. Frac(x[1], x[2]) = Frac(n, d)
  BY <1>2, <1>3, FracSame
<1>. QED BY <1>1, <1>3, <1>4 DEF Positive

LEMMA FracIsFraction ==
  ASSUME NEW n \in Nat, NEW d \in Positive
  PROVE  Frac(n, d) \in Fractions
BY DEF Fractions

(* Two are equal only if they are the same.                                *)
LEMMA FracEqual ==
  ASSUME NEW n \in Nat, NEW d \in Positive, NEW m \in Nat, NEW e \in Positive
  PROVE  Frac(n, d) = Frac(m, e) <=> Same(n, d, m, e)
<1>. USE DEF Positive
<1>1. Same(n, d, m, e) => Frac(n, d) = Frac(m, e)
  BY FracSame
<1>2. ASSUME Frac(n, d) = Frac(m, e) PROVE Same(n, d, m, e)
  <2>. DEFINE p == Frac(n, d)[1]
              q == Frac(n, d)[2]
  <2>1. p \in Nat /\ q \in Nat /\ q # 0 /\ Same(p, q, n, d) /\ Same(p, q, m, e)
    BY <1>2, FracParts
  <2>. HIDE DEF p, q
  <2>2. p * d = n * q /\ p * e = m * q
    BY <2>1 DEF Same
  <2>3. q * (n * e) = q * (m * d)
    <3>1. q * (n * e) = (n * q) * e /\ (p * d) * e = (p * e) * d /\ (m * q) * d = q * (m * d)
      BY <2>1
    <3>. QED BY ONLY <2>2, <3>1
  <2>4. n * e \in Nat /\ m * d \in Nat
    OBVIOUS
  <2>. DEFINE y == n * e
              z == m * d
  <2>. HIDE DEF y, z
  <2>5. y \in Nat /\ z \in Nat /\ q * y = q * z
    BY <2>3, <2>4 DEF y, z
  <2>6. y = z
    BY ONLY <2>1, <2>5
  <2>. QED BY <2>6 DEF Same, y, z
<1>. QED BY <1>1, <1>2

(* Whole numbers, zero, one and a half are fractions.                      *)
LEMMA Wholes ==
  ASSUME NEW k \in Nat
  PROVE  <<k, 1>> = Frac(k, 1) /\ <<k, 1>> \in Fractions
<1>1. Least(k, 1) = 1
  BY LeastProperties
<1>2. Part(k, 1, 1) = k
  BY DEF Part
<1>3. 1 \in Positive
  BY DEF Positive
<1>. QED BY <1>1, <1>2, <1>3, FracIs, FracIsFraction

LEMMA ZeroOne ==
  /\ Zero = Frac(0, 1) /\ Zero \in Fractions
  /\ One = Frac(1, 1) /\ One \in Fractions
BY Wholes DEF Zero, One

LEMMA Halves == <<1, 2>> = Frac(1, 2) /\ <<1, 2>> \in Fractions
<1>1. Least(1, 2) \in 1..2 /\ Whole(1, 2, Least(1, 2))
  <2>1. 1 \in Nat /\ 2 \in Nat /\ 2 # 0
    OBVIOUS
  <2>. QED BY ONLY <2>1, LeastProperties
<1>2. ~Whole(1, 2, 1)
  BY DEF Whole
<1>3. Least(1, 2) = 2
  BY <1>1, <1>2
<1>4. Part(1, 2, 2) = 1
  BY DEF Part
<1>5. 2 \in Positive
  BY DEF Positive
<1>. QED BY <1>3, <1>4, <1>5, FracIs, FracIsFraction

(* Arithmetic, on any denominators.                                        *)
LEMMA Products ==
  ASSUME NEW d \in Positive, NEW e \in Positive
  PROVE  d * e \in Positive
BY DEF Positive

LEMMA PartsOf ==
  ASSUME NEW n \in Nat, NEW d \in Positive
  PROVE  \E p \in Nat, q \in Positive : Frac(n, d) = <<p, q>> /\ p * d = n * q
BY FracParts DEF Positive, Same

LEMMA PlusOf ==
  ASSUME NEW a \in Nat, NEW b \in Positive, NEW c \in Nat, NEW d \in Positive
  PROVE  Plus(Frac(a, b), Frac(c, d)) = Frac(a * d + c * b, b * d)
<1>1. PICK p \in Nat, q \in Positive : Frac(a, b) = <<p, q>> /\ p * b = a * q
  BY PartsOf
<1>2. PICK r \in Nat, s \in Positive : Frac(c, d) = <<r, s>> /\ r * d = c * s
  BY PartsOf
<1>3. (p * s + r * q) * (b * d) = (a * d + c * b) * (q * s)
  BY ONLY <1>1, <1>2, a \in Nat, b \in Positive, c \in Nat, d \in Positive DEF Positive
<1>4. p * s + r * q \in Nat /\ a * d + c * b \in Nat /\ q * s \in Positive /\ b * d \in Positive
  BY DEF Positive
<1>5. Frac(p * s + r * q, q * s) = Frac(a * d + c * b, b * d)
  BY <1>3, <1>4, FracEqual DEF Same
<1>. QED BY <1>1, <1>2, <1>5 DEF Plus

LEMMA TimesOf ==
  ASSUME NEW a \in Nat, NEW b \in Positive, NEW c \in Nat, NEW d \in Positive
  PROVE  Times(Frac(a, b), Frac(c, d)) = Frac(a * c, b * d)
<1>1. PICK p \in Nat, q \in Positive : Frac(a, b) = <<p, q>> /\ p * b = a * q
  BY PartsOf
<1>2. PICK r \in Nat, s \in Positive : Frac(c, d) = <<r, s>> /\ r * d = c * s
  BY PartsOf
<1>3. (p * r) * (b * d) = (a * c) * (q * s)
  <2>1. (p * r) * (b * d) = (p * b) * (r * d) /\ (a * q) * (c * s) = (a * c) * (q * s)
    BY DEF Positive
  <2>. QED BY ONLY <1>1, <1>2, <2>1
<1>4. p * r \in Nat /\ a * c \in Nat /\ q * s \in Positive /\ b * d \in Positive
  BY DEF Positive
<1>5. Frac(p * r, q * s) = Frac(a * c, b * d)
  BY <1>3, <1>4, FracEqual DEF Same
<1>. QED BY <1>1, <1>2, <1>5 DEF Times

LEMMA OverOf ==
  ASSUME NEW a \in Nat, NEW b \in Positive, NEW c \in Positive, NEW d \in Positive
  PROVE  Over(Frac(a, b), Frac(c, d)) = Frac(a * d, b * c)
<1>0. c \in Nat
  BY DEF Positive
<1>1. PICK p \in Nat, q \in Positive : Frac(a, b) = <<p, q>> /\ p * b = a * q
  BY PartsOf
<1>2. PICK r \in Nat, s \in Positive : Frac(c, d) = <<r, s>> /\ r * d = c * s
  BY <1>0, PartsOf
<1>3. (p * s) * (b * c) = (a * d) * (q * r)
  <2>1. (p * s) * (b * c) = (p * b) * (c * s) /\ (a * q) * (r * d) = (a * d) * (q * r)
    BY <1>0 DEF Positive
  <2>. QED BY ONLY <1>1, <1>2, <2>1
<1>4. r \in Positive
  <2>1. c * s \in Positive
    BY Products
  <2>2. r # 0
    BY <1>2, <2>1 DEF Positive
  <2>. QED BY <2>2 DEF Positive
<1>5. p * s \in Nat /\ a * d \in Nat /\ q * r \in Positive /\ b * c \in Positive
  BY <1>4 DEF Positive
<1>6. Frac(p * s, q * r) = Frac(a * d, b * c)
  BY <1>3, <1>5, FracEqual DEF Same
<1>. QED BY <1>1, <1>2, <1>6 DEF Over

(* What the operations make are fractions.                                 *)
LEMMA GapIsFraction ==
  ASSUME NEW x \in Fractions, NEW y \in Fractions
  PROVE  Gap(x, y) \in Fractions
<1>1. /\ x[1] \in Nat /\ x[2] \in Positive /\ y[1] \in Nat /\ y[2] \in Positive
  BY FractionParts
<1>. DEFINE a == x[1] * y[2]
            b == y[1] * x[2]
            c == x[2] * y[2]
<1>2. a \in Nat /\ b \in Nat /\ c \in Positive
  BY <1>1 DEF Positive
<1>3. Gap(x, y) = Frac(IF a > b THEN a - b ELSE b - a, c)
  BY DEF Gap
<1>. HIDE DEF a, b, c
<1>4. (IF a > b THEN a - b ELSE b - a) \in Nat
  BY <1>2
<1>. QED BY <1>2, <1>3, <1>4, FracIsFraction

LEMMA PlusTimesFractions ==
  ASSUME NEW x \in Fractions, NEW y \in Fractions
  PROVE  Plus(x, y) \in Fractions /\ Times(x, y) \in Fractions
<1>1. PICK a \in Nat, b \in Positive, c \in Nat, d \in Positive : x = Frac(a, b) /\ y = Frac(c, d)
  BY DEF Fractions
<1>2. a * d + c * b \in Nat /\ a * c \in Nat /\ b * d \in Positive
  BY DEF Positive
<1>. QED BY <1>1, <1>2, FracIsFraction, PlusOf, TimesOf

(* The order of two products with one factor is that of the others.        *)
LEMMA Cancel ==
  ASSUME NEW x \in Nat, NEW y \in Nat, NEW k \in Positive
  PROVE  (x * k < y * k <=> x < y) /\ (x * k = y * k <=> x = y)
BY DEF Positive

(* The order of fractions is that of their cross products.                 *)
LEMMA LessOf ==
  ASSUME NEW a \in Nat, NEW b \in Positive, NEW c \in Nat, NEW d \in Positive
  PROVE  Less(Frac(a, b), Frac(c, d)) <=> a * d < c * b
<1>1. PICK p \in Nat, q \in Positive : Frac(a, b) = <<p, q>> /\ p * b = a * q
  BY PartsOf
<1>2. PICK r \in Nat, s \in Positive : Frac(c, d) = <<r, s>> /\ r * d = c * s
  BY PartsOf
<1>. DEFINE k == b * d
            l == q * s
            u == p * s
            v == r * q
            x == a * d
            y == c * b
<1>3. u * k = x * l /\ v * k = y * l
  <2>1. u * k = (p * b) * (s * d) /\ x * l = (a * q) * (s * d)
        /\ v * k = (r * d) * (q * b) /\ y * l = (c * s) * (q * b)
    BY DEF Positive
  <2>. QED BY ONLY <1>1, <1>2, <2>1
<1>4. k \in Positive /\ l \in Positive /\ u \in Nat /\ v \in Nat /\ x \in Nat /\ y \in Nat
  BY DEF Positive
<1>5. Less(Frac(a, b), Frac(c, d)) <=> u < v
  BY <1>1, <1>2 DEF Less
<1>. HIDE DEF k, l, u, v, x, y
<1>6. u < v <=> x < y
  BY ONLY <1>3, <1>4, Cancel
<1>. QED BY <1>5, <1>6 DEF x, y

(* Of two fractions one is less or they are equal.                         *)
LEMMA Trichotomy ==
  ASSUME NEW x \in Fractions, NEW y \in Fractions
  PROVE  /\ Less(x, y) \/ Less(y, x) \/ x = y
         /\ ~(Less(x, y) /\ Less(y, x))
         /\ x = y => ~Less(x, y)
<1>1. /\ x[1] \in Nat /\ x[2] \in Positive /\ x = Frac(x[1], x[2])
      /\ y[1] \in Nat /\ y[2] \in Positive /\ y = Frac(y[1], y[2])
  BY FractionParts
<1>. DEFINE a == x[1] * y[2]
            b == y[1] * x[2]
<1>2. a \in Nat /\ b \in Nat
  BY <1>1 DEF Positive
<1>3. a = b => x = y
  <2>. SUFFICES ASSUME a = b PROVE x = y
    OBVIOUS
  <2>1. Same(x[1], x[2], y[1], y[2])
    BY DEF Same
  <2>. QED BY <1>1, <2>1, FracEqual
<1>4. (Less(x, y) <=> a < b) /\ (Less(y, x) <=> b < a)
  BY DEF Less
<1>5. x = y => ~Less(x, y)
  <2>. SUFFICES ASSUME x = y PROVE a = b
    <3>. HIDE DEF a, b
    <3>. QED BY <1>2, <1>4
  <2>. QED BY x = y
<1>. HIDE DEF a, b
<1>. QED BY <1>2, <1>3, <1>4, <1>5

(* Fractions on a common denominator, and their sum.                       *)
LEMMA Widen ==
  ASSUME NEW a \in Nat, NEW b \in Positive, NEW k \in Positive
  PROVE  Frac(a, b) = Frac(a * k, b * k)
<1>1. a * k \in Nat /\ b * k \in Positive /\ a * (b * k) = (a * k) * b
  BY DEF Positive
<1>. QED BY <1>1, FracEqual DEF Same

LEMMA PlusSame ==
  ASSUME NEW a \in Nat, NEW b \in Nat, NEW d \in Positive
  PROVE  Plus(Frac(a, d), Frac(b, d)) = Frac(a + b, d)
<1>1. Plus(Frac(a, d), Frac(b, d)) = Frac(a * d + b * d, d * d)
  BY PlusOf
<1>2. /\ a * d + b * d \in Nat /\ d * d \in Positive /\ a + b \in Nat
      /\ (a * d + b * d) * d = (a + b) * (d * d)
  BY DEF Positive
<1>. QED BY <1>1, <1>2, FracEqual DEF Same

Common(f, S, k, d) == d \in Positive /\ k \in [S -> Nat] /\ \A i \in S : f[i] = Frac(k[i], d)

(* Finitely many fractions have one.                                       *)
LEMMA CommonDenominator ==
  ASSUME NEW S, IsFiniteSet(S), NEW f, \A i \in S : f[i] \in Fractions
  PROVE  \E k, d : Common(f, S, k, d)
<1>. DEFINE Q == {T \in SUBSET S : \E k, d : Common(f, T, k, d)}
<1>1. {} \in Q
  <2>1. Common(f, {}, << >>, 1)
    BY DEF Common, Positive
  <2>. QED BY <2>1
<1>2. ASSUME NEW T, NEW x, T \subseteq S, x \in S, x \notin T, T \in Q
      PROVE  T \cup {x} \in Q
  <2>1. PICK k, d : Common(f, T, k, d)
    BY <1>2
  <2>2. d \in Positive /\ k \in [T -> Nat] /\ \A i \in T : f[i] = Frac(k[i], d)
    BY <2>1 DEF Common
  <2>3. PICK n \in Nat, e \in Positive : f[x] = Frac(n, e)
    BY <1>2, FractionParts
  <2>. DEFINE l == [i \in T \cup {x} |-> IF i = x THEN n * d ELSE k[i] * e]
  <2>4. d * e \in Positive /\ n * d \in Nat /\ f[x] = Frac(n * d, d * e)
    <3>1. d * e = e * d
      BY <2>2 DEF Positive
    <3>2. n * d \in Nat
      BY <2>2 DEF Positive
    <3>. QED BY <2>2, <2>3, <3>1, <3>2, Widen, Products
  <2>5. ASSUME NEW i \in T PROVE k[i] * e \in Nat /\ f[i] = Frac(k[i] * e, d * e)
    <3>1. k[i] \in Nat
      BY <2>2
    <3>2. k[i] * e \in Nat
      BY <3>1 DEF Positive
    <3>. QED BY <2>2, <3>1, <3>2, Widen
  <2>6. l \in [T \cup {x} -> Nat] /\ \A i \in T \cup {x} : f[i] = Frac(l[i], d * e)
    BY <2>4, <2>5
  <2>. HIDE DEF l
  <2>7. Common(f, T \cup {x}, l, d * e)
    BY <2>4, <2>6 DEF Common
  <2>. QED BY <1>2, <2>7
<1>. HIDE DEF Q
<1>3. S \in Q
  <2>1. \A T : T \subseteq S => T \in Q
    BY ONLY <1>1, <1>2, IsFiniteSet(S), PartsInduction
  <2>. QED BY <2>1
<1>. QED BY <1>3 DEF Q

Totals(h, f) ==
  h = [s \in SUBSET DOMAIN f |-> IF s = {} THEN Zero ELSE Plus(f[OneOf(s)], h[s \ {OneOf(s)}])]

(* PlusAll is the fold over the parts of the domain.                       *)
LEMMA PlusAllOfParts ==
  ASSUME NEW f
  PROVE  PlusAll(f) = (CHOOSE h : Totals(h, f))[DOMAIN f]
BY Zenon DEF PlusAll, MapThenFoldSet, Totals, OneOf

(* On a common denominator PlusAll is the sum of the numerators.           *)
LEMMA PlusAllIs ==
  ASSUME NEW S, IsFiniteSet(S), NEW f, DOMAIN f = S, NEW k, NEW d, Common(f, S, k, d)
  PROVE  PlusAll(f) = Frac(SumOf(k), d)
<1>0. d \in Positive /\ k \in [S -> Nat] /\ \A i \in S : f[i] = Frac(k[i], d)
  BY DEF Common
<1>. DEFINE V(s) == Frac(SumOf(PartOf(k, s)), d)
            To(h, s) == IF s = {} THEN Zero ELSE Plus(f[OneOf(s)], h[s \ {OneOf(s)}])
            g == [s \in SUBSET S |-> V(s)]
<1>1. ASSUME NEW s \in SUBSET S
      PROVE  V(s) = IF s = {} THEN Zero ELSE Plus(f[OneOf(s)], V(s \ {OneOf(s)}))
  <2>1. CASE s = {}
    <3>1. SumOf(PartOf(k, s)) = 0
      BY <1>0, <2>1, SumStep
    <3>2. 0 \in Nat /\ 1 \in Positive /\ Same(0, 1, 0, d)
      BY <1>0 DEF Positive, Same
    <3>3. Frac(0, 1) = Frac(0, d)
      BY <1>0, <3>2, FracEqual
    <3>. QED BY <2>1, <3>1, <3>3, ZeroOne
  <2>2. CASE s # {}
    <3>. DEFINE x == OneOf(s)
    <3>1. x \in s /\ x \in S
      BY <2>2 DEF OneOf
    <3>. HIDE DEF x
    <3>2. /\ SumOf(PartOf(k, s)) = k[x] + SumOf(PartOf(k, s \ {x}))
          /\ SumOf(PartOf(k, s \ {x})) \in Nat
      BY <1>0, <3>1, SumStep
    <3>3. k[x] \in Nat /\ f[x] = Frac(k[x], d)
      BY <1>0, <3>1
    <3>4. V(s) = Plus(f[x], V(s \ {x}))
      BY <1>0, <3>2, <3>3, PlusSame
    <3>. QED BY <2>2, <3>4 DEF x
  <2>. QED BY <2>1, <2>2
<1>. HIDE DEF V
<1>2. Totals(g, f)
  <2>1. \A s \in SUBSET S : g[s] = To(g, s)
    <3>1. \A s \in SUBSET S : s \ {OneOf(s)} \in SUBSET S
      OBVIOUS
    <3>. QED BY <1>1, <3>1
  <2>2. g = [s \in SUBSET S |-> To(g, s)]
    <3>. HIDE DEF To
    <3>. QED BY <2>1
  <2>. HIDE DEF g
  <2>. QED BY <2>2, DOMAIN f = S DEF Totals
<1>. DEFINE h == CHOOSE l : Totals(l, f)
<1>3. Totals(h, f)
  <2>. HIDE DEF g
  <2>. QED BY <1>2
<1>4. PlusAll(f) = h[S]
  BY PlusAllOfParts
<1>. HIDE DEF h, g
<1>5. \A s \in SUBSET S : h[s] = IF s = {} THEN Zero ELSE Plus(f[OneOf(s)], h[s \ {OneOf(s)}])
  BY ONLY <1>3, DOMAIN f = S DEF Totals
<1>. DEFINE n == Cardinality(S)
            D == {m \in 0..n : \A s \in SUBSET S : Cardinality(s) <= m => h[s] = V(s)}
<1>6. /\ n \in Nat
      /\ \A s \in SUBSET S : IsFiniteSet(s) /\ Cardinality(s) \in 0..n
  <2>1. n \in Nat
    BY FS_CardinalityType
  <2>2. ASSUME NEW s \in SUBSET S PROVE IsFiniteSet(s) /\ Cardinality(s) \in 0..n
    <3>1. IsFiniteSet(s) /\ Cardinality(s) <= n
      BY FS_Subset
    <3>2. Cardinality(s) \in Nat
      BY <3>1, FS_CardinalityType
    <3>. QED BY <2>1, <3>1, <3>2
  <2>. QED BY <2>1, <2>2
<1>. HIDE DEF n
<1>7. 0 \in D
  <2>1. ASSUME NEW s \in SUBSET S, Cardinality(s) <= 0 PROVE h[s] = V(s)
    <3>1. Cardinality(s) = 0
      BY <1>6, <2>1
    <3>2. s = {}
      BY <1>6, <3>1, FS_EmptySet
    <3>. QED BY <1>1, <1>5, <3>2
  <2>. QED BY <1>6, <2>1
<1>8. ASSUME NEW m \in 0..(n - 1), m \in D PROVE m + 1 \in D
  <2>1. ASSUME NEW s \in SUBSET S, Cardinality(s) <= m + 1 PROVE h[s] = V(s)
    <3>1. CASE s = {}
      BY <1>1, <1>5, <3>1
    <3>2. CASE s # {}
      <4>. DEFINE t == s \ {OneOf(s)}
      <4>1. OneOf(s) \in s /\ t \in SUBSET S
        BY <3>2 DEF OneOf
      <4>2. Cardinality(t) = Cardinality(s) - 1
        BY <1>6, <4>1, FS_RemoveElement
      <4>3. Cardinality(t) <= m
        BY <1>6, <2>1, <4>2
      <4>4. h[t] = V(t)
        BY <1>8, <4>1, <4>3
      <4>. QED BY <1>1, <1>5, <3>2, <4>4
    <3>. QED BY <3>1, <3>2
  <2>2. m + 1 \in 0..n
    BY <1>6
  <2>. QED BY <2>1, <2>2
<1>9. n \in D
  <2>. HIDE DEF D
  <2>1. 0..n \subseteq D
    BY <1>6, <1>7, <1>8, UptoInduction
  <2>. QED BY <1>6, <2>1
<1>10. h[S] = V(S)
  BY <1>6, <1>9 DEF n
<1>11. PartOf(k, S) = k
  BY <1>0 DEF PartOf
<1>. QED BY <1>4, <1>10, <1>11 DEF V

(* PlusAll does not depend on what the parts are called.                   *)
LEMMA PlusAllRenamed ==
  ASSUME NEW A, IsFiniteSet(A), NEW f, DOMAIN f = A, \A a \in A : f[a] \in Fractions,
         NEW p, \A a, b \in A : p[a] = p[b] => a = b,
         NEW g, DOMAIN g = {p[a] : a \in A}, \A a \in A : g[p[a]] = f[a]
  PROVE  PlusAll(g) = PlusAll(f)
<1>. DEFINE B == {p[a] : a \in A}
<1>1. PICK k, d : Common(f, A, k, d)
  BY CommonDenominator
<1>2. d \in Positive /\ k \in [A -> Nat] /\ \A i \in A : f[i] = Frac(k[i], d)
  BY <1>1 DEF Common
<1>. DEFINE l == [b \in B |-> k[CHOOSE a \in A : p[a] = b]]
<1>3. \A a \in A : l[p[a]] = k[a]
  <2>1. ASSUME NEW a \in A PROVE (CHOOSE c \in A : p[c] = p[a]) = a
    OBVIOUS
  <2>. QED BY <2>1
<1>4. DOMAIN l = B
  OBVIOUS
<1>4a. l \in [B -> Nat]
  <2>. HIDE DEF l
  <2>1. \A b \in B : l[b] \in Nat
    BY <1>2, <1>3
  <2>2. l = [b \in B |-> l[b]]
    BY DEF l
  <2>. QED BY <2>1, <2>2
<1>. HIDE DEF l
<1>5. IsFiniteSet(B)
  BY FiniteImage
<1>6. \A b \in B : g[b] = Frac(l[b], d)
  BY <1>2, <1>3
<1>7. Common(g, B, l, d)
  BY <1>2, <1>4a, <1>6 DEF Common
<1>8. PlusAll(g) = Frac(SumOf(l), d) /\ PlusAll(f) = Frac(SumOf(k), d)
  <2>. HIDE DEF B
  <2>1. DOMAIN g = B
    BY DEF B
  <2>. QED BY <1>1, <1>5, <1>7, <2>1, PlusAllIs
<1>9. SumOf(l) = SumOf(k)
  BY <1>2, <1>3, <1>4a, SumRenamed
<1>. QED BY <1>8, <1>9
-----------------------------------------------------------------------------
(* Full and empty shares *)

LEMMA AtMostOf ==
  ASSUME NEW a \in Nat, NEW b \in Positive, NEW c \in Nat, NEW d \in Positive
  PROVE  AtMost(Frac(a, b), Frac(c, d)) <=> a * d <= c * b
<1>1. Less(Frac(c, d), Frac(a, b)) <=> c * b < a * d
  BY LessOf
<1>. DEFINE x == a * d
            y == c * b
<1>2. x \in Nat /\ y \in Nat
  BY DEF Positive
<1>. HIDE DEF x, y
<1>3. y < x <=> ~(x <= y)
  BY <1>2
<1>. QED BY <1>1, <1>3 DEF AtMost, x, y

(* Fractions of whole numbers: up to k, and k itself.                      *)
LEMMA UpToOf ==
  ASSUME NEW a \in Nat, NEW b \in Positive, NEW k \in Nat
  PROVE  /\ AtMost(Frac(a, b), <<k, 1>>) <=> a <= k * b
         /\ Frac(a, b) = <<k, 1>> <=> a = k * b
<1>1. <<k, 1>> = Frac(k, 1) /\ 1 \in Positive /\ a * 1 = a /\ k * b \in Nat
  <2>1. <<k, 1>> = Frac(k, 1)
    BY Wholes
  <2>. QED BY <2>1 DEF Positive
<1>2. AtMost(Frac(a, b), Frac(k, 1)) <=> a * 1 <= k * b
  BY <1>1, AtMostOf
<1>3. Frac(a, b) = Frac(k, 1) <=> a * 1 = k * b
  BY <1>1, FracEqual DEF Same
<1>. QED BY ONLY <1>1, <1>2, <1>3

LEMMA UpToOne ==
  ASSUME NEW a \in Nat, NEW b \in Positive
  PROVE  /\ Frac(a, b) \in Fractions
         /\ AtMost(Frac(a, b), <<1, 1>>) <=> a <= b
         /\ Frac(a, b) = <<1, 1>> <=> a = b
         /\ Frac(a, b) = <<0, 1>> <=> a = 0
<1>1. 1 * b = b /\ 0 * b = 0 /\ 0 \in Nat /\ 1 \in Nat
  BY DEF Positive
<1>2. /\ AtMost(Frac(a, b), <<1, 1>>) <=> a <= 1 * b
      /\ Frac(a, b) = <<1, 1>> <=> a = 1 * b
  BY ONLY <1>1, a \in Nat, b \in Positive, UpToOf
<1>3. Frac(a, b) = <<0, 1>> <=> a = 0 * b
  <2>1. <<0, 1>> = Frac(0, 1) /\ 1 \in Positive
    BY ZeroOne DEF Zero, Positive
  <2>2. Frac(a, b) = Frac(0, 1) <=> Same(a, b, 0, 1)
    BY ONLY <1>1, <2>1, a \in Nat, b \in Positive, FracEqual
  <2>3. Same(a, b, 0, 1) <=> a = 0 * b
    BY DEF Same
  <2>. QED BY ONLY <2>1, <2>2, <2>3
<1>. QED BY ONLY <1>1, <1>2, <1>3, a \in Nat, b \in Positive, FracIsFraction

(* A sum is full only if both its parts are.                               *)
LEMMA PlusUpTo ==
  ASSUME NEW x \in Fractions, NEW y \in Fractions, NEW j \in Nat, NEW k \in Nat,
         AtMost(x, <<j, 1>>), AtMost(y, <<k, 1>>)
  PROVE  /\ AtMost(Plus(x, y), <<j + k, 1>>)
         /\ Plus(x, y) = <<j + k, 1>> => x = <<j, 1>> /\ y = <<k, 1>>
<1>1. PICK a \in Nat, b \in Positive, c \in Nat, d \in Positive : x = Frac(a, b) /\ y = Frac(c, d)
  BY DEF Fractions
<1>2. a <= j * b /\ c <= k * d
  BY <1>1, UpToOf
<1>. DEFINE p == j * b
            q == k * d
            n == a * d + c * b
            m == (j + k) * (b * d)
<1>3. p \in Nat /\ q \in Nat /\ d \in Positive /\ b \in Positive /\ n \in Nat /\ m \in Nat
  BY DEF Positive
<1>4. m = p * d + q * b
  BY DEF Positive
<1>5. (Frac(a, b) = <<j, 1>> <=> a = p) /\ (Frac(c, d) = <<k, 1>> <=> c = q)
  BY UpToOf
<1>6. b * d \in Positive /\ j + k \in Nat
  BY Products
<1>7. (AtMost(Frac(n, b * d), <<j + k, 1>>) <=> n <= m) /\ (Frac(n, b * d) = <<j + k, 1>> <=> n = m)
  <2>. HIDE DEF n
  <2>. QED BY <1>3, <1>6, UpToOf
<1>8. Plus(x, y) = Frac(n, b * d)
  BY <1>1, PlusOf
<1>9. a <= p /\ c <= q
  BY <1>2
<1>. HIDE DEF p, q, m
<1>10. a * d <= p * d /\ c * b <= q * b
  BY ONLY <1>3, <1>9, a \in Nat, c \in Nat DEF Positive
<1>11. n <= m
  <2>1. a * d \in Nat /\ c * b \in Nat /\ p * d \in Nat /\ q * b \in Nat
    BY <1>3 DEF Positive
  <2>. QED BY ONLY <1>4, <1>10, <2>1 DEF n
<1>12. n = m => a = p /\ c = q
  <2>1. a * d \in Nat /\ c * b \in Nat /\ p * d \in Nat /\ q * b \in Nat
    BY <1>3 DEF Positive
  <2>2. n = m => a * d = p * d /\ c * b = q * b
    BY ONLY <1>4, <1>10, <2>1 DEF n
  <2>3. (a * d = p * d => a = p) /\ (c * b = q * b => c = q)
    BY <1>3, Cancel
  <2>. QED BY <2>2, <2>3
<1>. QED BY ONLY <1>1, <1>5, <1>7, <1>8, <1>11, <1>12

(* A multiple is full only if what it multiplies is one.                   *)
LEMMA TimesUpTo ==
  ASSUME NEW x \in Fractions, NEW j \in Positive, AtMost(x, <<1, 1>>)
  PROVE  /\ Times(<<j, 1>>, x) \in Fractions
         /\ AtMost(Times(<<j, 1>>, x), <<j, 1>>)
         /\ Times(<<j, 1>>, x) = <<j, 1>> => x = <<1, 1>>
<1>0. j \in Nat /\ 1 \in Positive
  BY DEF Positive
<1>1. PICK a \in Nat, b \in Positive : x = Frac(a, b)
  BY DEF Fractions
<1>2. <<j, 1>> = Frac(j, 1) /\ <<j, 1>> \in Fractions
  BY <1>0, Wholes
<1>3. Times(<<j, 1>>, x) = Frac(j * a, 1 * b)
  <2>1. Times(Frac(j, 1), Frac(a, b)) = Frac(j * a, 1 * b)
    BY ONLY <1>0, <1>1, TimesOf
  <2>. QED BY ONLY <1>1, <1>2, <2>1
<1>4. 1 * b = b /\ j * a \in Nat /\ b \in Nat
  BY <1>0 DEF Positive
<1>5. a <= 1 * b /\ (x = <<1, 1>> <=> a = 1 * b)
  BY <1>1, UpToOf
<1>6. /\ AtMost(Frac(j * a, b), <<j, 1>>) <=> j * a <= j * b
      /\ Frac(j * a, b) = <<j, 1>> <=> j * a = j * b
  <2>. DEFINE n == j * a
  <2>1. n \in Nat
    BY <1>4
  <2>. HIDE DEF n
  <2>2. /\ AtMost(Frac(n, b), <<j, 1>>) <=> n <= j * b
        /\ Frac(n, b) = <<j, 1>> <=> n = j * b
    BY <1>0, <2>1, UpToOf
  <2>. QED BY <2>2 DEF n
<1>7. j * a <= j * b /\ (j * a = j * b => a = b)
  BY <1>0, <1>4, <1>5 DEF Positive
<1>8. Times(<<j, 1>>, x) \in Fractions
  BY <1>2, PlusTimesFractions
<1>. QED BY ONLY <1>3, <1>4, <1>5, <1>6, <1>7, <1>8

(* A share is one only if all is there, zero only if nothing is.           *)
LEMMA OverUpTo ==
  ASSUME NEW x \in Fractions, NEW k \in Positive
  PROVE  /\ Over(x, <<k, 1>>) \in Fractions
         /\ AtMost(x, <<k, 1>>) => AtMost(Over(x, <<k, 1>>), <<1, 1>>)
         /\ Over(x, <<k, 1>>) = <<1, 1>> => x = <<k, 1>>
         /\ Over(x, <<k, 1>>) = <<0, 1>> => x = <<0, 1>>
<1>0. k \in Nat /\ 1 \in Positive
  BY DEF Positive
<1>1. PICK a \in Nat, b \in Positive : x = Frac(a, b)
  BY DEF Fractions
<1>2. Over(x, <<k, 1>>) = Frac(a * 1, b * k)
  BY <1>0, <1>1, Wholes, OverOf
<1>3. /\ a * 1 = a /\ b * k \in Positive /\ b * k = k * b
      /\ 1 * (b * k) = b * k /\ 0 * (b * k) = 0 /\ 0 * b = 0
  BY <1>0 DEF Positive
<1>4. /\ AtMost(x, <<k, 1>>) <=> a <= k * b
      /\ x = <<k, 1>> <=> a = k * b
      /\ x = <<0, 1>> <=> a = 0 * b
  BY <1>0, <1>1, UpToOf
<1>5. /\ AtMost(Frac(a, b * k), <<1, 1>>) <=> a <= 1 * (b * k)
      /\ Frac(a, b * k) = <<1, 1>> <=> a = 1 * (b * k)
      /\ Frac(a, b * k) = <<0, 1>> <=> a = 0 * (b * k)
  <2>. DEFINE e == b * k
  <2>1. e \in Positive
    BY <1>3
  <2>. HIDE DEF e
  <2>2. /\ AtMost(Frac(a, e), <<1, 1>>) <=> a <= 1 * e
        /\ Frac(a, e) = <<1, 1>> <=> a = 1 * e
        /\ Frac(a, e) = <<0, 1>> <=> a = 0 * e
    BY <2>1, UpToOf
  <2>. QED BY <2>2 DEF e
<1>6. Frac(a, b * k) \in Fractions
  BY <1>3, FracIsFraction
<1>. QED BY ONLY <1>2, <1>3, <1>4, <1>5, <1>6

(* What is left of one is all only if nothing was taken.                   *)
LEMMA OneMinusUpTo ==
  ASSUME NEW x \in Fractions, AtMost(x, <<1, 1>>)
  PROVE  /\ OneMinus(x) \in Fractions
         /\ AtMost(OneMinus(x), <<1, 1>>)
         /\ OneMinus(x) = <<1, 1>> => x = <<0, 1>>
<1>1. x = Frac(x[1], x[2]) /\ x[1] \in Nat /\ x[2] \in Positive
  BY FractionParts
<1>. DEFINE a == x[1]
            b == x[2]
<1>. HIDE DEF a, b
<1>2. x = Frac(a, b) /\ a \in Nat /\ b \in Positive
  BY <1>1 DEF a, b
<1>3. a <= 1 * b /\ (x = <<0, 1>> <=> a = 0 * b)
  BY <1>2, UpToOf
<1>4. 1 * b = b /\ a * 1 = a /\ 0 * b = 0 /\ a <= b /\ b - a \in Nat /\ b \in Nat
  BY <1>2, <1>3 DEF Positive
<1>5. OneMinus(x) = Frac(IF b > a THEN b - a ELSE a - b, b)
  BY <1>4 DEF OneMinus, Gap, One, a, b
<1>6. (IF b > a THEN b - a ELSE a - b) = b - a
  BY <1>4, <1>2
<1>. DEFINE c == b - a
<1>7. c \in Nat /\ c <= b /\ (c = b => a = 0)
  BY <1>2, <1>4
<1>8. OneMinus(x) = Frac(c, b)
  BY <1>5, <1>6
<1>. HIDE DEF c
<1>9. /\ AtMost(Frac(c, b), <<1, 1>>) <=> c <= 1 * b
      /\ Frac(c, b) = <<1, 1>> <=> c = 1 * b
      /\ Frac(c, b) \in Fractions
  BY <1>2, <1>7, UpToOf, FracIsFraction
<1>. QED BY ONLY <1>3, <1>4, <1>7, <1>8, <1>9

(* A mean is zero only if everything is.                                   *)
LEMMA PlusAllFraction ==
  ASSUME NEW S, IsFiniteSet(S), NEW f, DOMAIN f = S, \A i \in S : f[i] \in Fractions
  PROVE  PlusAll(f) \in Fractions
<1>1. PICK k, d : Common(f, S, k, d)
  BY CommonDenominator
<1>2. d \in Positive /\ k \in [S -> Nat] /\ PlusAll(f) = Frac(SumOf(k), d)
  BY <1>1, PlusAllIs DEF Common
<1>3. SumOf(k) \in Nat
  BY <1>2, SumProperties
<1>. QED BY <1>2, <1>3, FracIsFraction

LEMMA MeanUpTo ==
  ASSUME NEW S, IsFiniteSet(S), S # {}, NEW f, DOMAIN f = S,
         \A i \in S : f[i] \in Fractions /\ AtMost(f[i], <<1, 1>>)
  PROVE  /\ Mean(f) \in Fractions /\ AtMost(Mean(f), <<1, 1>>)
         /\ Mean(f) = <<0, 1>> => \A i \in S : f[i] = <<0, 1>>
<1>1. PICK k, d : Common(f, S, k, d)
  BY CommonDenominator
<1>2. d \in Positive /\ k \in [S -> Nat] /\ (\A i \in S : f[i] = Frac(k[i], d))
      /\ PlusAll(f) = Frac(SumOf(k), d)
  BY <1>1, PlusAllIs DEF Common
<1>. DEFINE n == Cardinality(S)
            t == SumOf(k)
<1>3. n \in Positive
  BY FS_CardinalityType, FS_EmptySet DEF Positive
<1>4. d \in Nat /\ n \in Nat /\ 1 * d = d /\ 0 * d = 0
  BY <1>2, <1>3 DEF Positive
<1>5. ASSUME NEW i \in S PROVE k[i] <= d /\ (k[i] = 0 => f[i] = <<0, 1>>)
  <2>1. k[i] \in Nat /\ f[i] = Frac(k[i], d) /\ AtMost(f[i], <<1, 1>>)
    BY <1>2
  <2>2. k[i] <= d /\ (f[i] = <<0, 1>> <=> k[i] = 0)
    BY ONLY <1>2, <2>1, UpToOne
  <2>. QED BY <2>2
<1>6. t \in Nat /\ t <= n * d /\ (t = 0 => \A i \in S : k[i] = 0)
  BY <1>2, <1>4, <1>5, SumBounds
<1>. HIDE DEF n, t
<1>7. /\ Frac(t, d) \in Fractions
      /\ AtMost(Frac(t, d), <<n, 1>>) <=> t <= n * d
      /\ Frac(t, d) = <<0, 1>> <=> t = 0
  BY ONLY <1>2, <1>4, <1>6, UpToOf, UpToOne
<1>8. Mean(f) = Over(Frac(t, d), <<n, 1>>)
  BY <1>2 DEF Mean, n, t
<1>9. /\ Mean(f) \in Fractions
      /\ AtMost(Frac(t, d), <<n, 1>>) => AtMost(Mean(f), <<1, 1>>)
      /\ Mean(f) = <<0, 1>> => Frac(t, d) = <<0, 1>>
  BY <1>3, <1>7, <1>8, OverUpTo
<1>. QED BY <1>4, <1>5, <1>6, <1>7, <1>9

(* A part of a finite set is all of it only if it has as many members.     *)
LEMMA PartCardinality ==
  ASSUME NEW S, IsFiniteSet(S), NEW T, T \subseteq S
  PROVE  /\ IsFiniteSet(T) /\ Cardinality(T) \in Nat /\ Cardinality(S) \in Nat
         /\ Cardinality(T) <= Cardinality(S)
         /\ Cardinality(T) = Cardinality(S) => T = S
         /\ S # {} => Cardinality(S) \in Positive
BY FS_Subset, FS_CardinalityType, FS_EmptySet, T \in SUBSET S DEF Positive

(* The share of a part is one only for the whole.                          *)
LEMMA ShareUpTo ==
  ASSUME NEW S, IsFiniteSet(S), S # {}, NEW T, T \subseteq S
  PROVE  LET share == Frac(Cardinality(T), Cardinality(S)) IN
         /\ share \in Fractions /\ AtMost(share, <<1, 1>>)
         /\ share = <<1, 1>> => T = S
<1>. DEFINE a == Cardinality(T)
            b == Cardinality(S)
<1>1. a \in Nat /\ b \in Positive /\ a <= b /\ (a = b => T = S)
  BY PartCardinality
<1>. HIDE DEF a, b
<1>2. 1 * b = b
  BY <1>1 DEF Positive
<1>3. /\ AtMost(Frac(a, b), <<1, 1>>) <=> a <= 1 * b
      /\ Frac(a, b) = <<1, 1>> <=> a = 1 * b
      /\ Frac(a, b) \in Fractions
  BY <1>1, UpToOf, FracIsFraction
<1>4. /\ Frac(a, b) \in Fractions /\ AtMost(Frac(a, b), <<1, 1>>)
      /\ Frac(a, b) = <<1, 1>> => T = S
  BY <1>1, <1>2, <1>3
<1>. QED BY <1>4 DEF a, b
-----------------------------------------------------------------------------
(* The measures *)

(* F1 is Dice's coefficient: 2PR/(P+R) with P = t/a and R = t/b is         *)
(* 2t/(a+b), and is not computed where it is 0/0.                          *)
LEMMA DiceIsF1 ==
  ASSUME NEW A, NEW B, IsFiniteSet(A), IsFiniteSet(B)
  PROVE  SetF1(A, B) = Dice(A, B) /\ SetF1(A, B) \in Fractions
<1>. DEFINE t == Cardinality(A \cap B)
            a == Cardinality(A)
            b == Cardinality(B)
            p == IF A = {} THEN Zero ELSE Frac(t, a)
            r == IF B = {} THEN Zero ELSE Frac(t, b)
            both == Plus(p, r)
<1>0. /\ t \in Nat /\ a \in Nat /\ b \in Nat /\ t <= a /\ t <= b
      /\ (A # {} => a \in Positive) /\ (B # {} => b \in Positive)
      /\ (A = {} => a = 0) /\ (B = {} => b = 0)
  <2>1. A \cap B \subseteq A /\ A \cap B \subseteq B
    OBVIOUS
  <2>. QED BY <2>1, PartCardinality, FS_EmptySet
<1>1. /\ SetF1(A, B) = IF A = {} /\ B = {} THEN One
                       ELSE IF both = Zero THEN Zero
                       ELSE Over(Times(<<2, 1>>, Times(p, r)), both)
      /\ Dice(A, B) = IF A \cup B = {} THEN One ELSE Frac(2 * t, a + b)
  BY DEF SetF1, Dice
<1>. HIDE DEF t, a, b
<1>2. CASE A = {} /\ B = {}
  BY <1>1, <1>2, ZeroOne
<1>3. CASE t = 0 /\ ~(A = {} /\ B = {})
  <2>1. ASSUME NEW c \in Positive PROVE Frac(0, c) = Zero
    <3>1. 0 \in Nat /\ 1 \in Positive /\ Same(0, c, 0, 1)
      BY DEF Positive, Same
    <3>. QED BY <3>1, FracEqual, ZeroOne
  <2>2. p = Zero /\ r = Zero
    BY <1>0, <1>3, <2>1
  <2>3. Plus(Zero, Zero) = Zero
    <3>1. Plus(Frac(0, 1), Frac(0, 1)) = Frac(0 + 0, 1)
      BY PlusSame, 1 \in Positive, 0 \in Nat DEF Positive
    <3>. QED BY <3>1, ZeroOne
  <2>4. a + b \in Positive /\ 2 * t = 0
    BY <1>0, <1>3 DEF Positive
  <2>5. Frac(2 * t, a + b) = Zero
    BY <2>1, <2>4
  <2>. QED BY <1>1, <1>3, <2>2, <2>3, <2>5, ZeroOne
<1>4. CASE t # 0
  <2>0. A # {} /\ B # {} /\ t \in Positive /\ a \in Positive /\ b \in Positive
    BY <1>0, <1>4 DEF Positive
  <2>1. p = Frac(t, a) /\ r = Frac(t, b)
    BY <2>0
  <2>. DEFINE n == t * b + t * a
              d == a * b
              m == 2 * (t * t)
  <2>2. both = Frac(n, d) /\ Times(p, r) = Frac(t * t, d)
    <3>1. /\ Plus(Frac(t, a), Frac(t, b)) = Frac(n, d)
          /\ Times(Frac(t, a), Frac(t, b)) = Frac(t * t, d)
      BY ONLY <1>0, <2>0, PlusOf, TimesOf
    <3>. QED BY ONLY <2>1, <3>1
  <2>3. n \in Positive /\ d \in Positive /\ m \in Nat /\ t * t \in Nat
    BY <2>0 DEF Positive
  <2>4. both # Zero
    <3>1. n \in Nat /\ n # 0 /\ 0 * d = 0
      BY <2>3 DEF Positive
    <3>. HIDE DEF n, d
    <3>2. Frac(n, d) = <<0, 1>> <=> n = 0 * d
      BY <2>3, <3>1, UpToOf
    <3>. QED BY <2>2, <3>1, <3>2 DEF Zero
  <2>5. Times(<<2, 1>>, Frac(t * t, d)) = Frac(m, d)
    <3>. DEFINE x == t * t
    <3>0. x \in Nat /\ m = 2 * x
      BY <2>3
    <3>. HIDE DEF x, d
    <3>1. <<2, 1>> = Frac(2, 1) /\ 1 \in Positive /\ 1 * d = d
      <4>1. <<2, 1>> = Frac(2, 1)
        BY Wholes
      <4>. QED BY <2>3, <4>1 DEF Positive
    <3>2. Times(Frac(2, 1), Frac(x, d)) = Frac(2 * x, 1 * d)
      BY <2>3, <3>0, <3>1, TimesOf
    <3>. QED BY <3>0, <3>1, <3>2 DEF x
  <2>6. Over(Frac(m, d), Frac(n, d)) = Frac(m * d, d * n)
    <3>. HIDE DEF m, d, n
    <3>. QED BY <2>3, OverOf
  <2>7. Frac(m * d, d * n) = Frac(2 * t, a + b)
    <3>1. (m * d) * (a + b) = (2 * t) * (d * n)
      BY <2>0 DEF Positive
    <3>2. m * d \in Nat /\ d * n \in Positive /\ 2 * t \in Nat /\ a + b \in Positive
      <4>1. m * d \in Nat
        BY <2>3 DEF Positive
      <4>2. d * n \in Positive
        BY <2>3, Products
      <4>. QED BY <2>0, <4>1, <4>2 DEF Positive
    <3>. QED BY <3>1, <3>2, FracEqual DEF Same
  <2>8. Frac(2 * t, a + b) \in Fractions
    <3>1. 2 * t \in Nat /\ a + b \in Positive
      BY <2>0 DEF Positive
    <3>. QED BY <3>1, FracIsFraction
  <2>. QED BY <1>1, <2>0, <2>2, <2>4, <2>5, <2>6, <2>7, <2>8
<1>. QED BY <1>2, <1>3, <1>4

(* A fraction in lowest terms is one.                                      *)
LEMMA ProperIsFraction ==
  ASSUME NEW a, Proper(a)
  PROVE  a \in Fractions
BY FracIsFraction DEF Proper, Positive

(* VSP: the score falls with the distance of the base scores.              *)
ScoreOf(mad) == IF mad > 77 THEN Zero ELSE Frac(77 - mad, 77)
LEMMA ScoreOfDistance ==
  ASSUME NEW m \in Nat
  PROVE  /\ ScoreOf(m) \in Fractions
         /\ \A n \in Nat : n <= m => AtMost(ScoreOf(m), ScoreOf(n))
<1>. DEFINE v(n) == IF n > 77 THEN 0 ELSE 77 - n
<1>0. 77 \in Positive /\ 0 \in Nat
  BY DEF Positive
<1>1. ASSUME NEW n \in Nat PROVE v(n) \in Nat /\ ScoreOf(n) = Frac(v(n), 77)
  <2>1. CASE n > 77
    <3>1. Frac(0, 77) = <<0, 1>>
      BY <1>0, UpToOne
    <3>. QED BY <2>1, <3>1 DEF ScoreOf, Zero
  <2>2. CASE ~(n > 77)
    BY <2>2 DEF ScoreOf
  <2>. QED BY <2>1, <2>2
<1>2. ASSUME NEW n \in Nat, n <= m PROVE AtMost(ScoreOf(m), ScoreOf(n))
  <2>1. v(m) * 77 <= v(n) * 77
    BY <1>2
  <2>2. v(m) \in Nat /\ v(n) \in Nat /\ ScoreOf(m) = Frac(v(m), 77) /\ ScoreOf(n) = Frac(v(n), 77)
    BY <1>1
  <2>. HIDE DEF v
  <2>3. AtMost(Frac(v(m), 77), Frac(v(n), 77)) <=> v(m) * 77 <= v(n) * 77
    BY ONLY <1>0, <2>2, AtMostOf
  <2>. QED BY ONLY <2>1, <2>2, <2>3
<1>3. ScoreOf(m) \in Fractions
  <2>1. v(m) \in Nat /\ ScoreOf(m) = Frac(v(m), 77)
    BY <1>1
  <2>. HIDE DEF v
  <2>. QED BY <1>0, <2>1, FracIsFraction
<1>. QED BY <1>2, <1>3

Apart(a, b) == IF a > b THEN a - b ELSE b - a

(* A parsed answer is scored by its distance from the label.               *)
LEMMA VspScores ==
  ASSUME NEW predicted, NEW gold, gold.base \in Nat, \A v \in predicted : v.base \in Nat
  PROVE  /\ ScoreVsp(predicted, gold).score \in Fractions
         /\ predicted # {} /\ (\A v \in predicted : v.valid) =>
              ScoreVsp(predicted, gold).score =
                ScoreOf(Apart((CHOOSE w \in predicted : TRUE).base, gold.base))
<1>. DEFINE valid == {v \in predicted : v.valid}
            w == CHOOSE v \in valid : TRUE
            mad == IF valid = {} THEN gold.base ELSE Apart(w.base, gold.base)
<1>1. ScoreVsp(predicted, gold).score = ScoreOf(mad)
  BY DEF ScoreVsp, ScoreOf, Scored, Apart
<1>2. mad \in Nat
  <2>1. CASE valid = {}
    BY <2>1
  <2>2. CASE valid # {}
    <3>1. w \in predicted
      BY <2>2
    <3>2. w.base \in Nat
      BY <3>1
    <3>. HIDE DEF w, valid
    <3>. QED BY <2>2, <3>2 DEF Apart
  <2>. QED BY <2>1, <2>2
<1>3. (\A v \in predicted : v.valid) => valid = predicted
  OBVIOUS
<1>. HIDE DEF valid
<1>4. predicted # {} /\ (\A v \in predicted : v.valid) =>
        mad = Apart((CHOOSE v \in predicted : TRUE).base, gold.base)
  BY <1>3
<1>. HIDE DEF mad
<1>5. ScoreOf(mad) \in Fractions
  BY <1>2, ScoreOfDistance
<1>. QED BY <1>1, <1>4, <1>5

(* Forecast: probabilities and scores are fractions, and the pair of the   *)
(* AUC is the probability and the outcome.                                 *)
LEMMA ProbabilityIsFraction ==
  ASSUME NEW n, n.hundredths \in Nat
  PROVE  Probability(n) \in Fractions
<1>1. 100 \in Positive /\ 10000 \in Positive
  BY DEF Positive
<1>2. /\ Frac(n.hundredths, 100) \in Fractions
      /\ Frac(n.hundredths, 10000) \in Fractions /\ One \in Fractions
  BY <1>1, FracIsFraction, ZeroOne
<1>. QED BY <1>2 DEF Probability

LEMMA ForecastScores ==
  ASSUME NEW predicted, \A n \in predicted : n.hundredths \in Nat, NEW resolved \in BOOLEAN
  PROVE  LET s == ScoreForecast(predicted, resolved) IN
         /\ s.score \in Fractions
         /\ s.pair = <<s.pair[1], resolved>> /\ s.pair[1] \in Fractions
<1>. DEFINE prob == IF predicted = {} THEN <<1, 2>> ELSE Probability(CHOOSE n \in predicted : TRUE)
            outcome == IF resolved THEN One ELSE Zero
            brier == Times(Gap(prob, outcome), Gap(prob, outcome))
<1>1. prob \in Fractions
  BY Halves, ProbabilityIsFraction
<1>2. outcome \in Fractions
  BY ZeroOne
<1>. DEFINE s == ScoreForecast(predicted, resolved)
<1>3. s.score = OneMinus(brier) /\ s.pair = <<prob, resolved>>
  BY DEF ScoreForecast
<1>. HIDE DEF prob, outcome
<1>4. Gap(prob, outcome) \in Fractions
  BY <1>1, <1>2, GapIsFraction
<1>5. brier \in Fractions
  BY <1>4, PlusTimesFractions
<1>. HIDE DEF brier, s
<1>6. OneMinus(brier) \in Fractions
  BY <1>5, GapIsFraction, ZeroOne DEF OneMinus
<1>7. s.score \in Fractions /\ s.pair = <<s.pair[1], resolved>> /\ s.pair[1] \in Fractions
  BY <1>1, <1>3, <1>6
<1>. QED BY <1>7 DEF s

(* TAA: indices that have every name with one meaning right.               *)
Indexed(c) ==
  /\ \A a, b \in Range(c.rows) : a.name = b.name => a = b
  /\ \A a \in Range(c.rows) : \A n \in Range(NamesOf(a)) :
       (\A b \in Range(c.rows) : n \in Range(NamesOf(b)) => b = a) =>
         n \in DOMAIN c.alias /\ c.alias[n] = a.name
  /\ \A a \in Range(c.rows) : a.name \in DOMAIN c.related /\ c.related[a.name] = a.related

(* A name has one meaning if one actor has it.                             *)
LEMMA OneMeaning ==
  ASSUME NEW rows, NEW n, Cardinality(Meanings(rows, n)) = 1, IsFiniteSet(Meanings(rows, n))
  PROVE  \E a \in Range(rows) : /\ Meanings(rows, n) = {a}
                                /\ n \in Range(NamesOf(a))
                                /\ \A b \in Range(rows) : n \in Range(NamesOf(b)) => b = a
<1>1. PICK a : Meanings(rows, n) = {a}
  BY FS_Singleton
<1>2. \A b : b \in {a} <=> b \in Range(rows) /\ n \in Range(NamesOf(b))
  BY <1>1 DEF Meanings
<1>3. a \in {a}
  OBVIOUS
<1>. QED BY <1>1, <1>2, <1>3

(* Credit is due for the actor a name stands for, and its related.         *)
LEMMA TaaScores ==
  ASSUME Indexed(context), IsFiniteSet(Range(context.rows)), NEW predicted, NEW gold
  PROVE  LET score == ScoreTaa(predicted, gold).score
             mean(n) == Meanings(context.rows, n)
             said == CHOOSE n \in predicted : TRUE
         IN /\ score \in Fractions
            /\ predicted = {} => score = Zero
            /\ (predicted # {} /\ Cardinality(mean(said)) = 1 /\ Cardinality(mean(gold)) = 1) =>
                 LET a == CHOOSE x \in mean(said) : TRUE
                     b == CHOOSE x \in mean(gold) : TRUE
                 IN  /\ score = One <=> a = b
                     /\ score = <<1, 2>> <=> a # b /\ (a.name \in b.related \/ b.name \in a.related)
<1>. DEFINE score == ScoreTaa(predicted, gold).score
            mean(n) == Meanings(context.rows, n)
            said == CHOOSE n \in predicted : TRUE
<1>1. score = IF predicted = {} THEN Zero ELSE Credit(Canonical(said), Canonical(gold))
  BY DEF ScoreTaa, Scored
<1>2. \A x, y : Credit(x, y) \in {One, <<1, 2>>, Zero}
  BY DEF Credit
<1>3. score \in Fractions
  BY <1>1, <1>2, ZeroOne, Halves
<1>4. One # <<1, 2>> /\ One # Zero /\ Zero # <<1, 2>>
  BY DEF One, Zero
<1>. HIDE DEF said, score
<1>5. ASSUME predicted # {}, Cardinality(mean(said)) = 1, Cardinality(mean(gold)) = 1
      PROVE  LET a == CHOOSE x \in mean(said) : TRUE
                 b == CHOOSE x \in mean(gold) : TRUE
             IN  /\ score = One <=> a = b
                 /\ score = <<1, 2>> <=> a # b /\ (a.name \in b.related \/ b.name \in a.related)
  <2>0. IsFiniteSet(mean(said)) /\ IsFiniteSet(mean(gold))
    BY FS_Subset, mean(said) \in SUBSET Range(context.rows),
       mean(gold) \in SUBSET Range(context.rows) DEF Meanings
  <2>. HIDE DEF mean
  <2>1. PICK a \in Range(context.rows) :
          /\ mean(said) = {a} /\ said \in Range(NamesOf(a))
          /\ \A b \in Range(context.rows) : said \in Range(NamesOf(b)) => b = a
    BY <1>5, <2>0, OneMeaning DEF mean
  <2>2. PICK b \in Range(context.rows) :
          /\ mean(gold) = {b} /\ gold \in Range(NamesOf(b))
          /\ \A c \in Range(context.rows) : gold \in Range(NamesOf(c)) => c = b
    BY <1>5, <2>0, OneMeaning DEF mean
  <2>3. Canonical(said) = a.name /\ Canonical(gold) = b.name
    BY <2>1, <2>2 DEF Indexed, Canonical
  <2>4. RelatedTo(a.name) = a.related /\ RelatedTo(b.name) = b.related
    BY <2>1, <2>2 DEF Indexed, RelatedTo
  <2>5. a.name = b.name <=> a = b
    BY <2>1, <2>2 DEF Indexed
  <2>6. score = IF a = b THEN One
                ELSE IF a.name \in b.related \/ b.name \in a.related THEN <<1, 2>> ELSE Zero
    BY <1>1, <1>5, <2>3, <2>4, <2>5 DEF Credit
  <2>7. (CHOOSE x \in mean(said) : TRUE) = a /\ (CHOOSE x \in mean(gold) : TRUE) = b
    BY <2>1, <2>2
  <2>8. /\ score = One <=> a = b
        /\ score = <<1, 2>> <=> a # b /\ (a.name \in b.related \/ b.name \in a.related)
    BY <1>4, <2>6
  <2>. QED BY <2>7, <2>8
<1>6. predicted = {} => score = Zero
  BY <1>1
<1>. QED BY <1>3, <1>5, <1>6 DEF score, said

(* SYN: full marks only if each of the three parts has them.               *)
LEMMA SynScores ==
  ASSUME NEW claims, NEW gold, NEW grounded, IsFiniteSet(claims), IsFiniteSet(gold),
         grounded \subseteq claims, \A c \in gold : Proper(c.hedge) /\ AtMost(c.hedge, One)
  PROVE  LET score == ScoreSyn(claims, gold, grounded).score IN
         /\ score \in Fractions /\ AtMost(score, One)
         /\ score = One =>
              /\ \A c \in gold : \E d \in claims : SameClaim(c, d)
              /\ grounded = claims
              /\ \A c \in gold : c.hedge = Zero
<1>. DEFINE score == ScoreSyn(claims, gold, grounded).score
            matched == {c \in gold : \E d \in claims : SameClaim(c, d)}
            recall == IF gold = {} THEN One ELSE Frac(Cardinality(matched), Cardinality(gold))
            faith == Frac(Cardinality(grounded), Cardinality(claims))
            hedges == [c \in matched |-> c.hedge]
            calibration == OneMinus(Mean(hedges))
            j == IF claims = {} THEN 0 ELSE 2
            k == IF matched = {} THEN 0 ELSE 1
            x == IF claims = {} THEN Zero ELSE Times(<<2, 1>>, faith)
            y == IF matched = {} THEN Zero ELSE calibration
            all == Plus(recall, Plus(x, y))
            w == 1 + j + k
<1>1. score = Over(all, <<w, 1>>)
  BY DEF ScoreSyn, Scored
<1>2. matched \subseteq gold /\ IsFiniteSet(matched)
  BY FS_Subset, matched \in SUBSET gold
<1>3. ASSUME NEW c \in matched
      PROVE  hedges[c] = c.hedge /\ hedges[c] \in Fractions /\ AtMost(hedges[c], <<1, 1>>)
  BY ProperIsFraction DEF One
<1>4. matched = {c \in gold : \E d \in claims : SameClaim(c, d)} /\ DOMAIN hedges = matched
  OBVIOUS
<1>. HIDE DEF score, matched, hedges
<1>5. recall \in Fractions /\ AtMost(recall, <<1, 1>>) /\ (recall = <<1, 1>> => matched = gold)
  <2>1. CASE gold = {}
    <3>1. AtMost(Frac(1, 1), <<1, 1>>) <=> 1 <= 1
      BY UpToOne, 1 \in Nat, 1 \in Positive DEF Positive
    <3>. QED BY <1>2, <2>1, <3>1, ZeroOne DEF One
  <2>2. CASE gold # {}
    BY <1>2, <2>2, ShareUpTo
  <2>. QED BY <2>1, <2>2
<1>6. x \in Fractions /\ AtMost(x, <<j, 1>>) /\ (x = <<j, 1>> => grounded = claims) /\ j \in Nat
  <2>1. CASE claims = {}
    <3>1. AtMost(Frac(0, 1), <<0, 1>>) <=> 0 <= 0 * 1
      BY UpToOf, 0 \in Nat, 1 \in Positive DEF Positive
    <3>. QED BY <2>1, <3>1, ZeroOne DEF Zero
  <2>2. CASE claims # {}
    <3>1. faith \in Fractions /\ AtMost(faith, <<1, 1>>) /\ (faith = <<1, 1>> => grounded = claims)
      BY <2>2, ShareUpTo
    <3>. HIDE DEF faith
    <3>2. 2 \in Positive /\ 2 \in Nat
      BY DEF Positive
    <3>3. /\ Times(<<2, 1>>, faith) \in Fractions
          /\ AtMost(Times(<<2, 1>>, faith), <<2, 1>>)
          /\ Times(<<2, 1>>, faith) = <<2, 1>> => faith = <<1, 1>>
      BY <3>1, <3>2, TimesUpTo
    <3>. QED BY <2>2, <3>1, <3>2, <3>3
  <2>. QED BY <2>1, <2>2
<1>7. /\ y \in Fractions /\ AtMost(y, <<k, 1>>) /\ k \in Nat
      /\ y = <<k, 1>> => \A c \in matched : c.hedge = <<0, 1>>
  <2>1. CASE matched = {}
    <3>1. AtMost(Frac(0, 1), <<0, 1>>) <=> 0 <= 0 * 1
      BY UpToOf, 0 \in Nat, 1 \in Positive DEF Positive
    <3>. QED BY <2>1, <3>1, ZeroOne DEF Zero
  <2>2. CASE matched # {}
    <3>1. /\ Mean(hedges) \in Fractions /\ AtMost(Mean(hedges), <<1, 1>>)
          /\ Mean(hedges) = <<0, 1>> => \A c \in matched : hedges[c] = <<0, 1>>
      BY <1>2, <1>3, <1>4, <2>2, MeanUpTo
    <3>2. /\ calibration \in Fractions /\ AtMost(calibration, <<1, 1>>)
          /\ calibration = <<1, 1>> => Mean(hedges) = <<0, 1>>
      BY <3>1, OneMinusUpTo
    <3>. HIDE DEF calibration
    <3>3. y = calibration /\ k = 1
      BY <2>2
    <3>. HIDE DEF y, k
    <3>. QED BY <1>3, <3>1, <3>2, <3>3
  <2>. QED BY <2>1, <2>2
<1>. HIDE DEF recall, x, y, j, k
<1>8. /\ AtMost(Plus(x, y), <<j + k, 1>>) /\ Plus(x, y) \in Fractions /\ j + k \in Nat
      /\ Plus(x, y) = <<j + k, 1>> => x = <<j, 1>> /\ y = <<k, 1>>
  BY <1>6, <1>7, PlusUpTo, PlusTimesFractions
<1>9. /\ AtMost(all, <<1 + (j + k), 1>>) /\ all \in Fractions
      /\ all = <<1 + (j + k), 1>> => recall = <<1, 1>> /\ Plus(x, y) = <<j + k, 1>>
  <2>. DEFINE z == Plus(x, y)
              n == j + k
  <2>1. z \in Fractions /\ n \in Nat /\ AtMost(z, <<n, 1>>) /\ 1 \in Nat
    BY <1>8
  <2>. HIDE DEF z, n
  <2>2. /\ AtMost(Plus(recall, z), <<1 + n, 1>>) /\ Plus(recall, z) \in Fractions
        /\ Plus(recall, z) = <<1 + n, 1>> => recall = <<1, 1>> /\ z = <<n, 1>>
    BY <1>5, <2>1, PlusUpTo, PlusTimesFractions
  <2>. QED BY <2>2 DEF z, n
<1>10. w = 1 + (j + k) /\ w \in Positive
  BY <1>6, <1>7 DEF Positive
<1>. HIDE DEF all, w
<1>11. score \in Fractions /\ AtMost(score, <<1, 1>>) /\ (score = <<1, 1>> => all = <<w, 1>>)
  BY <1>1, <1>9, <1>10, OverUpTo
<1>12. ASSUME score = One
       PROVE  /\ \A c \in gold : \E d \in claims : SameClaim(c, d)
              /\ grounded = claims
              /\ \A c \in gold : c.hedge = Zero
  <2>1. recall = <<1, 1>> /\ x = <<j, 1>> /\ y = <<k, 1>>
    BY <1>8, <1>9, <1>10, <1>11, <1>12 DEF One
  <2>2. matched = gold /\ grounded = claims /\ \A c \in matched : c.hedge = <<0, 1>>
    BY <1>5, <1>6, <1>7, <2>1
  <2>. QED BY <1>4, <2>2 DEF Zero
<1>. QED BY <1>11, <1>12 DEF One, score

(* What scoring relies on in an answer.                                    *)
AnswerOf(t, answer) ==
  /\ IsFiniteSet(answer)
  /\ t = "vsp" => \A v \in answer : v.base \in Nat
  /\ t = "forecast" => \A n \in answer : n.hundredths \in Nat

(* The answer is in the lines, whichever of them it is taken from.         *)
LEMMA LastLineIsLine ==
  ASSUME NEW lines, lines \in Seq(Range(lines))
  PROVE  LastLine(lines) = {} \/ LastLine(lines) \in Range(lines)
<1>. DEFINE n == Len(lines)
            found == {i \in DOMAIN lines : lines[i] # {}}
<1>1. n \in Nat /\ DOMAIN lines = 1..n
  BY LenProperties
<1>2. CASE found = {}
  BY <1>2 DEF LastLine
<1>3. CASE found # {}
  <2>1. found \subseteq 1..n
    BY <1>1
  <2>2. Max(found) \in found
    <3>. HIDE DEF found
    <3>. QED BY <1>1, <1>3, <2>1, MaxIsIn
  <2>3. Max(found) \in DOMAIN lines /\ LastLine(lines) = lines[Max(found)]
    BY <1>3, <2>2 DEF LastLine, found
  <2>. QED BY <2>3 DEF Range
<1>. QED BY <1>2, <1>3

LEMMA ResponseParsed ==
  ASSUME NEW t \in ScoredTasks, NEW lines \in AnswersTo(t)
  PROVE  AnswerOf(t, ParseResponse(t, lines))
<1>. DEFINE a == ParseResponse(t, lines)
<1>1. lines \in Seq(Range(lines)) /\ \A ids \in Range(lines) : IsFiniteSet(ids)
  BY ScoringAssumption
<1>2. IsFiniteSet(a) /\ a \subseteq UNION Range(lines)
  <2>1. CASE t \in {"ate", "syn"}
    <3>1. IsFiniteSet(Range(lines))
      <4>1. Len(lines) \in Nat /\ DOMAIN lines = 1..Len(lines)
        BY <1>1, LenProperties
      <4>2. IsFiniteSet(1..Len(lines))
        BY <4>1, FS_Interval
      <4>3. IsFiniteSet({lines[i] : i \in DOMAIN lines})
        BY <4>1, <4>2, FiniteImage
      <4>. QED BY <4>3 DEF Range
    <3>2. IsFiniteSet(UNION Range(lines))
      BY <1>1, <3>1, FS_UNION
    <3>. QED BY <2>1, <3>2 DEF ParseResponse
  <2>2. CASE t \notin {"ate", "syn"}
    <3>1. a = LastLine(lines)
      BY <2>2 DEF ParseResponse
    <3>2. LastLine(lines) = {} \/ LastLine(lines) \in Range(lines)
      BY <1>1, LastLineIsLine
    <3>. QED BY <1>1, <3>1, <3>2, FS_EmptySet
  <2>. QED BY <2>1, <2>2
<1>. HIDE DEF a
<1>3. t = "vsp" => \A v \in a : v.base \in Nat
  BY <1>2, ScoringAssumption
<1>4. t = "forecast" => \A n \in a : n.hundredths \in Nat
  BY <1>2, ScoringAssumption
<1>. QED BY <1>2, <1>3, <1>4 DEF AnswerOf, a
-----------------------------------------------------------------------------
(* The table of actors *)

(* The table of actors: names and aliases are sequences, names unique.     *)
Rows(rows) ==
  rows \in Seq(Range(rows)) /\ \A a \in Range(rows) : a.aliases \in Seq(Range(a.aliases))
Table(rows) == Rows(rows) /\ Unique(rows)

(* A row is at a position, and is found by its own name.                   *)
LEMMA RowsAre ==
  ASSUME NEW rows, Rows(rows)
  PROVE  /\ Len(rows) \in Nat /\ DOMAIN rows = 1..Len(rows) /\ IsFiniteSet(Range(rows))
         /\ \A i \in 1..Len(rows) : rows[i] \in Range(rows)
         /\ \A a \in Range(rows) : \E i \in 1..Len(rows) : rows[i] = a
         /\ \A a \in Range(rows) : a.name \in Range(NamesOf(a))
<1>1. Len(rows) \in Nat /\ DOMAIN rows = 1..Len(rows)
  BY LenProperties DEF Rows
<1>2. IsFiniteSet(Range(rows))
  <2>1. IsFiniteSet(1..Len(rows))
    BY <1>1, FS_Interval
  <2>2. IsFiniteSet({rows[i] : i \in DOMAIN rows})
    BY <1>1, <2>1, FiniteImage
  <2>. QED BY <2>2 DEF Range
<1>3. ASSUME NEW a \in Range(rows) PROVE a.name \in Range(NamesOf(a))
  <2>. DEFINE s == <<a.name>>
              t == a.aliases
              S == {a.name} \cup Range(t)
  <2>1. s \in Seq(S) /\ Len(s) = 1 /\ s[1] = a.name
    OBVIOUS
  <2>2. t \in Seq(S)
    <3>1. t \in Seq(Range(t))
      BY DEF Rows
    <3>2. Len(t) \in Nat /\ t \in [1..Len(t) -> Range(t)]
      BY <3>1
    <3>3. t \in [1..Len(t) -> S]
      BY <3>2
    <3>. QED BY <3>2, <3>3
  <2>. HIDE DEF s, t, S
  <2>3. s \o t \in Seq(S) /\ Len(s \o t) = Len(s) + Len(t) /\ \A i \in 1..Len(s) : (s \o t)[i] = s[i]
    BY ONLY <2>1, <2>2, ConcatProperties
  <2>4. Len(t) \in Nat /\ Len(s \o t) \in Nat /\ DOMAIN (s \o t) = 1..Len(s \o t)
    BY ONLY <2>2, <2>3, LenProperties
  <2>5. 1 \in DOMAIN (s \o t) /\ (s \o t)[1] = a.name
    BY ONLY <2>1, <2>3, <2>4
  <2>. QED BY <2>5 DEF NamesOf, Range, s, t
<1>. QED BY <1>1, <1>2, <1>3 DEF Range

(* Published clusters are rows, and upserting them keeps names unique.     *)
LEMMA Normalised ==
  ASSUME NEW c \in Clusters
  PROVE  Rows(Normalise(c))
<1>. DEFINE s == c.entries
            rows == Normalise(c)
            rel(i) == IF c.from = "galaxy"
                      THEN {e.name : e \in {f \in Range(s) : f.uuid \in s[i].related}} ELSE {}
            made(i) == Actor(s[i].name, s[i].synonyms, rel(i))
<1>1. s \in Seq(Range(s)) /\ \A e \in Range(s) : e.synonyms \in Seq(Range(e.synonyms))
  BY ReferenceAssumption
<1>2. Len(s) \in Nat /\ DOMAIN s = 1..Len(s) /\ \A i \in 1..Len(s) : s[i] \in Range(s)
  BY <1>1, LenProperties DEF Range
<1>3. /\ DOMAIN rows = 1..Len(s) /\ rows = [i \in 1..Len(s) |-> rows[i]]
      /\ \A i \in 1..Len(s) : rows[i].aliases = s[i].synonyms
  <2>1. rows = [i \in DOMAIN s |-> made(i)]
    BY DEF Normalise, NormaliseGalaxy, NormaliseMalpedia
  <2>2. \A i : made(i).aliases = s[i].synonyms
    BY DEF Actor
  <2>. HIDE DEF rows, made, s
  <2>. QED BY ONLY <1>2, <2>1, <2>2
<1>. HIDE DEF rows, s
<1>4. rows \in [1..Len(s) -> Range(rows)]
  BY <1>3 DEF Range
<1>5. rows \in Seq(Range(rows))
  BY <1>2, <1>4
<1>6. \A a \in Range(rows) : a.aliases \in Seq(Range(a.aliases))
  <2>. SUFFICES ASSUME NEW a \in Range(rows) PROVE a.aliases \in Seq(Range(a.aliases))
    OBVIOUS
  <2>1. PICK i \in 1..Len(s) : a = rows[i]
    BY <1>3 DEF Range
  <2>2. s[i].synonyms \in Seq(Range(s[i].synonyms))
    BY <1>1, <1>2
  <2>3. a.aliases = s[i].synonyms
    BY <1>3, <2>1
  <2>. QED BY ONLY <2>2, <2>3
<1>. QED BY <1>5, <1>6 DEF Rows, rows

LEMMA Upserted ==
  ASSUME NEW rows, Rows(rows), Table(actors), Unique(NewRows(rows))
  PROVE  Table(UpsertThreatActors(rows))
<1>. DEFINE of(n) == rows[Max({i \in DOMAIN rows : rows[i].name = n})]
            P == [i \in DOMAIN actors |->
                    IF \E r \in Range(rows) : r.name = actors[i].name
                    THEN of(actors[i].name) ELSE actors[i]]
            N == NewRows(rows)
            U == UpsertThreatActors(rows)
            S == Range(rows) \cup Range(actors)
            m == Len(actors)
            k == Len(N)
<1>1. U = P \o N
  BY DEF UpsertThreatActors
<1>2. /\ m \in Nat /\ DOMAIN actors = 1..m /\ (\A i \in 1..m : actors[i] \in Range(actors))
      /\ Len(rows) \in Nat /\ DOMAIN rows = 1..Len(rows)
      /\ \A i \in 1..Len(rows) : rows[i] \in Range(rows)
      /\ \A a \in Range(rows) : \E i \in 1..Len(rows) : rows[i] = a
  BY RowsAre DEF Table
<1>3. ASSUME NEW i \in 1..m PROVE P[i] \in S /\ P[i].name = actors[i].name
  <2>1. CASE \E r \in Range(rows) : r.name = actors[i].name
    <3>. DEFINE T == {j \in DOMAIN rows : rows[j].name = actors[i].name}
    <3>1. T \subseteq 1..Len(rows) /\ T # {}
      BY <1>2, <2>1
    <3>2. Max(T) \in T
      <4>. HIDE DEF T
      <4>. QED BY <1>2, <3>1, MaxIsIn
    <3>3. P[i] = rows[Max(T)]
      BY <1>2, <2>1
    <3>4. rows[Max(T)] \in S /\ rows[Max(T)].name = actors[i].name
      BY ONLY <1>2, <3>2
    <3>. QED BY ONLY <3>3, <3>4
  <2>2. CASE ~\E r \in Range(rows) : r.name = actors[i].name
    BY <1>2, <2>2
  <2>. QED BY <2>1, <2>2
<1>4. P \in [1..m -> S]
  <2>1. DOMAIN P = 1..m /\ P = [i \in 1..m |-> P[i]]
    BY <1>2
  <2>. HIDE DEF P
  <2>. QED BY <1>3, <2>1
<1>. HIDE DEF P
<1>5. P \in Seq(S) /\ Len(P) = m
  BY <1>2, <1>4
<1>. DEFINE I == {i \in DOMAIN rows : \A a \in Range(actors) : a.name # rows[i].name}
<1>6. N = Pick(rows, I) /\ I \subseteq 1..Len(rows) /\ I \in SUBSET (1..Len(rows))
  BY <1>2 DEF NewRows
<1>7. N \in Seq(Range(rows)) /\ Range(N) = {rows[i] : i \in I}
  <2>1. rows \in Seq(Range(rows))
    BY DEF Rows
  <2>. HIDE DEF I, N
  <2>. QED BY <1>6, <2>1, PickProperties, PickRange
<1>8. k \in Nat /\ DOMAIN N = 1..k /\ N \in [1..k -> Range(rows)]
      /\ \A i \in 1..k : N[i] \in Range(N)
  BY <1>7, LenProperties DEF Range
<1>9. \A i \in 1..k : \A j \in 1..m : N[i].name # actors[j].name
  <2>1. \A i \in 1..k : \E l \in I : N[i] = rows[l]
    BY <1>7, <1>8
  <2>. QED BY <1>2, <2>1
<1>. HIDE DEF N, I
<1>10. N \in Seq(S)
  <2>1. N \in [1..k -> S]
    BY <1>8
  <2>. QED BY <1>8, <2>1
<1>. HIDE DEF m, k
<1>11. /\ U \in Seq(S) /\ Len(U) = m + k
       /\ \A i \in 1..m : U[i] = P[i]
       /\ \A i \in 1..k : U[m + i] = N[i]
  <2>. HIDE DEF U, S
  <2>1. Len(N) = k
    BY DEF k
  <2>2. /\ P \o N \in Seq(S) /\ Len(P \o N) = Len(P) + Len(N)
        /\ \A i \in 1..Len(P) : (P \o N)[i] = P[i]
        /\ \A i \in 1..Len(N) : (P \o N)[Len(P) + i] = N[i]
    <3>1. P \in Seq(S) /\ N \in Seq(S)
      BY ONLY <1>5, <1>10
    <3>. HIDE DEF N
    <3>. QED BY ONLY <3>1, ConcatProperties
  <2>. QED BY ONLY <1>1, <1>5, <2>1, <2>2
<1>. HIDE DEF U
<1>12. DOMAIN U = 1..(m + k) /\ U \in [1..(m + k) -> S]
  BY <1>11
<1>13. ASSUME NEW i \in 1..(m + k) PROVE i \in 1..m \/ \E j \in 1..k : i = m + j
  <2>1. i \in 1..m \/ i - m \in 1..k
    BY <1>2, <1>8
  <2>2. i = m + (i - m)
    BY <1>2
  <2>. QED BY <2>1, <2>2
<1>14. Unique(U)
  <2>. SUFFICES ASSUME NEW i \in 1..(m + k), NEW j \in 1..(m + k), U[i].name = U[j].name PROVE i = j
    BY <1>12 DEF Unique
  <2>1. CASE i \in 1..m /\ j \in 1..m
    <3>1. actors[i].name = actors[j].name
      BY <1>3, <1>11, <2>1
    <3>. QED BY <1>2, <2>1, <3>1 DEF Table, Unique
  <2>2. ASSUME NEW a \in 1..k, i = m + a, j \in 1..m PROVE FALSE
    BY <1>3, <1>9, <1>11, <2>2
  <2>3. ASSUME NEW a \in 1..k, j = m + a, i \in 1..m PROVE FALSE
    BY <1>3, <1>9, <1>11, <2>3
  <2>4. ASSUME NEW a \in 1..k, NEW b \in 1..k, i = m + a, j = m + b PROVE i = j
    <3>1. N[a].name = N[b].name
      BY <1>11, <2>4
    <3>2. a = b
      BY <1>8, <3>1 DEF Unique, N
    <3>. QED BY <2>4, <3>2
  <2>. QED BY <1>13, <2>1, <2>2, <2>3, <2>4
<1>15. Range(U) \subseteq S /\ U \in Seq(Range(U))
  <2>1. U \in [1..(m + k) -> Range(U)] /\ Range(U) \subseteq S
    BY <1>12 DEF Range
  <2>. QED BY <1>2, <1>8, <2>1
<1>16. \A a \in S : a.aliases \in Seq(Range(a.aliases))
  BY DEF Table, Rows
<1>. QED BY <1>14, <1>15, <1>16 DEF Table, Rows, U

(* So an attempt builds indices that have every such name right.           *)
LEMMA ContextIsIndexed ==
  ASSUME Table(actors), asked = "taa"
  PROVE  Indexed(BuildContext) /\ IsFiniteSet(Range(BuildContext.rows))
<1>. DEFINE c == BuildContext
            n == Len(actors)
<1>1. c.alias = BuildAliasIndex /\ c.related = BuildRelatedIndex /\ c.rows = actors
  BY DEF BuildContext
<1>2. /\ n \in Nat /\ DOMAIN actors = 1..n /\ IsFiniteSet(Range(actors))
      /\ \A i \in 1..n : actors[i] \in Range(actors)
      /\ \A a \in Range(actors) : \E i \in 1..n : actors[i] = a
  BY RowsAre DEF Table
<1>3. \A a, b \in Range(actors) : a.name = b.name => a = b
  BY <1>2 DEF Table, Unique
<1>. HIDE DEF c
<1>4. ASSUME NEW a \in Range(actors), NEW x \in Range(NamesOf(a)),
             \A b \in Range(actors) : x \in Range(NamesOf(b)) => b = a
      PROVE  x \in DOMAIN BuildAliasIndex /\ BuildAliasIndex[x] = a.name
  <2>. DEFINE T == {i \in DOMAIN actors : x \in Range(NamesOf(actors[i]))}
  <2>1. T \subseteq 1..n /\ T # {}
    BY <1>2
  <2>2. Max(T) \in T
    <3>. HIDE DEF T
    <3>. QED BY <1>2, <2>1, MaxIsIn
  <2>3. actors[Max(T)] = a
    BY <1>2, <1>4, <2>2
  <2>4. x \in UNION {Range(NamesOf(b)) : b \in Range(actors)}
    OBVIOUS
  <2>5. BuildAliasIndex[x] = actors[Max(T)].name /\ x \in DOMAIN BuildAliasIndex
    BY <2>4 DEF BuildAliasIndex
  <2>. QED BY <2>3, <2>5
<1>5. ASSUME NEW a \in Range(actors)
      PROVE  a.name \in DOMAIN BuildRelatedIndex /\ BuildRelatedIndex[a.name] = a.related
  <2>1. (CHOOSE b \in Range(actors) : b.name = a.name) = a
    BY <1>3
  <2>. QED BY <2>1 DEF BuildRelatedIndex
<1>6. Indexed(c)
  BY <1>1, <1>3, <1>4, <1>5 DEF Indexed
<1>. QED BY <1>1, <1>2, <1>6 DEF c
-----------------------------------------------------------------------------
(* Items *)

(* What an item's result is for its label, by task.                        *)
CreditIsDue(r, gold) ==
  LET mean(n) == Meanings(r.by.rows, n)
      said == CHOOSE n \in r.answer : TRUE
      score == r.scored.score
  IN  /\ r.answer = {} => score = Zero
      /\ (r.answer # {} /\ Cardinality(mean(said)) = 1
          /\ Cardinality(mean(gold)) = 1) =>
           LET a == CHOOSE x \in mean(said) : TRUE
               b == CHOOSE x \in mean(gold) : TRUE
           IN  /\ score = One <=> a = b
               /\ score = <<1, 2>> <=> a # b /\ (a.name \in b.related \/ b.name \in a.related)
FullMarksAreEarned(r, gold) ==
  LET same(c, d) == c.type = d.type /\ (c.value = d.value \/ c.type = "actor")
  IN  /\ AtMost(r.scored.score, One)
      /\ r.scored.score = One =>
           /\ \A c \in gold : \E d \in r.answer : same(c, d)
           /\ r.grounded = r.answer
           /\ \A c \in gold : c.hedge = Zero
NearnessCounts(r, gold) ==
  LET m == Apart((CHOOSE w \in r.answer : TRUE).base, gold.base)
  IN  (\A v \in r.answer : v.valid) /\ r.answer # {} =>
        m \in Nat /\ r.scored.score = ScoreOf(m)
PairIsOutcome(r, gold) ==
  r.scored.pair = <<r.scored.pair[1], gold>> /\ r.scored.pair[1] \in Fractions
Fits(t, r, gold) ==
  /\ r.scored.score \in Fractions
  /\ t = "rcm" => r.scored.score = Dice(r.answer, gold)
  /\ t = "ate" => r.scored.score = Dice(NormaliseTechniques(r.answer, r.by.technique),
                                        NormaliseTechniques(gold, r.by.technique))
  /\ t = "taa" => CreditIsDue(r, gold)
  /\ t = "syn" => FullMarksAreEarned(r, gold)
  /\ t = "vsp" => NearnessCounts(r, gold)
  /\ t = "forecast" => PairIsOutcome(r, gold)

(* An item that is scored fits its label under the attempt's indices.      *)
LEMMA NormalisedFinite ==
  ASSUME NEW ids, IsFiniteSet(ids), NEW index
  PROVE  IsFiniteSet(NormaliseTechniques(ids, index))
<1>. DEFINE f == [e \in ids |-> IF e \in DOMAIN index THEN index[e] ELSE e]
<1>1. NormaliseTechniques(ids, index) = {f[e] : e \in ids}
  BY DEF NormaliseTechniques
<1>. HIDE DEF f
<1>. QED BY <1>1, FiniteImage

LEMMA ItemFits ==
  ASSUME NEW t \in ScoredTasks, NEW gold \in LabelsOf(t), NEW answer, AnswerOf(t, answer),
         NEW grounded, grounded \subseteq answer,
         t = "taa" => Indexed(context) /\ IsFiniteSet(Range(context.rows)),
         NEW r, r = [scored |-> EvaluateItem(t, gold, answer, grounded),
                     answer |-> answer, grounded |-> grounded, by |-> context]
  PROVE  Fits(t, r, gold)
<1>1. /\ r.scored = EvaluateItem(t, gold, answer, grounded)
      /\ r.answer = answer /\ r.grounded = grounded /\ r.by = context
  OBVIOUS
<1>2. IsFiniteSet(answer)
  BY DEF AnswerOf
<1>3. CASE t = "rcm"
  <2>1. r.scored = ScoreIds(answer, gold)
    BY <1>1, <1>3 DEF EvaluateItem
  <2>2. IsFiniteSet(gold)
    BY <1>3, ScoringAssumption
  <2>3. r.scored.score = SetF1(answer, gold)
    BY <2>1 DEF ScoreIds, Scored
  <2>4. SetF1(answer, gold) = Dice(answer, gold) /\ SetF1(answer, gold) \in Fractions
    BY <1>2, <2>2, DiceIsF1
  <2>. QED BY ONLY <1>1, <1>3, <2>3, <2>4 DEF Fits
<1>4. CASE t = "ate"
  <2>. DEFINE A == NormaliseTechniques(answer, context.technique)
              B == NormaliseTechniques(gold, context.technique)
  <2>1. r.scored = ScoreIds(A, B)
    BY <1>1, <1>4 DEF EvaluateItem
  <2>2. IsFiniteSet(gold)
    BY <1>4, ScoringAssumption
  <2>3. IsFiniteSet(A) /\ IsFiniteSet(B)
    BY <1>2, <2>2, NormalisedFinite
  <2>4. r.scored.score = SetF1(A, B)
    BY <2>1 DEF ScoreIds, Scored
  <2>5. SetF1(A, B) = Dice(A, B) /\ SetF1(A, B) \in Fractions
    <3>. HIDE DEF A, B
    <3>. QED BY <2>3, DiceIsF1
  <2>. QED BY ONLY <1>1, <1>4, <2>4, <2>5 DEF Fits
<1>5. CASE t = "taa"
  <2>1. r.scored = ScoreTaa(answer, gold)
    BY <1>1, <1>5 DEF EvaluateItem
  <2>. DEFINE score == ScoreTaa(answer, gold).score
              mean(n) == Meanings(context.rows, n)
              said == CHOOSE n \in answer : TRUE
              a == CHOOSE x \in mean(said) : TRUE
              b == CHOOSE x \in mean(gold) : TRUE
  <2>2. /\ score \in Fractions
        /\ answer = {} => score = Zero
        /\ (answer # {} /\ Cardinality(mean(said)) = 1 /\ Cardinality(mean(gold)) = 1) =>
             /\ score = One <=> a = b
             /\ score = <<1, 2>> <=> a # b /\ (a.name \in b.related \/ b.name \in a.related)
    BY <1>5, TaaScores
  <2>3. CreditIsDue(r, gold)
    <3>1. r.scored.score = score
      BY <2>1
    <3>. HIDE DEF score
    <3>. QED BY ONLY <1>1, <2>2, <3>1 DEF CreditIsDue
  <2>. QED BY ONLY <1>5, <2>1, <2>2, <2>3 DEF Fits
<1>6. CASE t = "syn"
  <2>1. r.scored = ScoreSyn(answer, gold, grounded)
    BY <1>1, <1>6 DEF EvaluateItem
  <2>2. IsFiniteSet(gold) /\ \A c \in gold : Proper(c.hedge) /\ AtMost(c.hedge, One)
    BY <1>6, ScoringAssumption
  <2>3. LET score == ScoreSyn(answer, gold, grounded).score IN
         /\ score \in Fractions /\ AtMost(score, One)
         /\ score = One =>
              /\ \A c \in gold : \E d \in answer : SameClaim(c, d)
              /\ grounded = answer
              /\ \A c \in gold : c.hedge = Zero
    BY <1>2, <2>2, SynScores
  <2>4. \A c, d : SameClaim(c, d) => c.type = d.type /\ (c.value = d.value \/ c.type = "actor")
    BY DEF SameClaim
  <2>5. FullMarksAreEarned(r, gold)
    BY ONLY <1>1, <2>1, <2>3, <2>4 DEF FullMarksAreEarned
  <2>. QED BY ONLY <1>6, <2>1, <2>3, <2>5 DEF Fits
<1>7. CASE t = "vsp"
  <2>1. r.scored = ScoreVsp(answer, gold)
    BY <1>1, <1>7 DEF EvaluateItem
  <2>2. gold.base \in Nat /\ \A v \in answer : v.base \in Nat
    BY <1>7, ScoringAssumption DEF AnswerOf
  <2>. DEFINE s == ScoreVsp(answer, gold).score
              w == CHOOSE v \in answer : TRUE
  <2>3. /\ s \in Fractions
        /\ answer # {} /\ (\A v \in answer : v.valid) => s = ScoreOf(Apart(w.base, gold.base))
    BY <2>2, VspScores
  <2>4. answer # {} => Apart(w.base, gold.base) \in Nat
    <3>1. answer # {} => w.base \in Nat
      BY <2>2
    <3>. HIDE DEF w
    <3>. QED BY <2>2, <3>1 DEF Apart
  <2>5. NearnessCounts(r, gold)
    <3>. HIDE DEF s
    <3>1. r.scored.score = s
      BY <2>1 DEF s
    <3>. QED BY ONLY <1>1, <2>3, <2>4, <3>1 DEF NearnessCounts
  <2>. QED BY ONLY <1>7, <2>1, <2>3, <2>5 DEF Fits
<1>8. CASE t = "forecast"
  <2>1. r.scored = ScoreForecast(answer, gold)
    BY <1>1, <1>8 DEF EvaluateItem
  <2>2. gold \in BOOLEAN /\ \A n \in answer : n.hundredths \in Nat
    BY <1>8, ScoringAssumption DEF AnswerOf
  <2>3. LET s == ScoreForecast(answer, gold) IN
         /\ s.score \in Fractions
         /\ s.pair = <<s.pair[1], gold>> /\ s.pair[1] \in Fractions
    BY <2>2, ForecastScores
  <2>4. PairIsOutcome(r, gold)
    BY ONLY <2>1, <2>3 DEF PairIsOutcome
  <2>. QED BY ONLY <1>8, <2>1, <2>3, <2>4 DEF Fits
<1>. QED BY <1>3, <1>4, <1>5, <1>6, <1>7, <1>8 DEF ScoredTasks
-----------------------------------------------------------------------------
(* The prequential score *)

(* The run, the indices of the attempt and the results so far.             *)
RunIsTyped ==
  /\ asked \in ScoredTasks
  /\ label \in [1..Questions -> LabelsOf(asked)]
  /\ date \in [1..Questions -> Nat]
  /\ DOMAIN result \subseteq 1..Questions
ContextFits ==
  context.open /\ asked = "taa" => Indexed(context) /\ IsFiniteSet(Range(context.rows))
ResultsFit == \A q \in DOMAIN result : Fits(asked, result[q], label[q])

(* There are finitely many results, at most one of each item.              *)
LEMMA ResultsFinite ==
  ASSUME RunIsTyped
  PROVE  /\ IsFiniteSet(DOMAIN result) /\ Cardinality(DOMAIN result) \in 0..Questions
         /\ DOMAIN result = {} <=> Cardinality(DOMAIN result) = 0
<1>1. Questions \in Nat /\ 1 \in Int /\ Questions \in Int
  BY ScoringAssumption
<1>2. IsFiniteSet(1..Questions) /\ Cardinality(1..Questions) = Questions
  BY <1>1, FS_Interval
<1>3. DOMAIN result \in SUBSET (1..Questions)
  BY DEF RunIsTyped
<1>. QED BY <1>1, <1>2, <1>3, FS_Subset, FS_EmptySet, FS_CardinalityType

(* The order the database returns is some arrangement of the results.      *)
LEMMA RowsArrange ==
  ASSUME NEW S, IsFiniteSet(S), NEW rows \in SetToSeqs(S)
  PROVE  Arranges(rows, Cardinality(S), S)
<1>1. Cardinality(S) \in Nat
  BY FS_CardinalityType
<1>2. /\ rows \in [1..Cardinality(S) -> S]
      /\ \A i, j \in 1..Cardinality(S) : rows[i] = rows[j] => i = j
  BY DEF SetToSeqs
<1>. QED BY <1>1, <1>2, OneToOneArranges

(* The powers of the fading factor are fractions.                          *)
LEMMA PowerIsFraction ==
  ASSUME NEW n \in 0..Questions
  PROVE  Power[n] \in Fractions
<1>. DEFINE N == Questions
            Is(P) == P = [i \in 0..N |-> IF i = 0 THEN One ELSE Times(Fading, P[i - 1])]
            g == [i \in 1..N |-> [v \in Fractions |-> Times(Fading, v)]]
<1>1. N \in Nat /\ Fading \in Fractions /\ One \in Fractions
  BY ScoringAssumption, ProperIsFraction, ZeroOne
<1>2. g \in [1..N -> [Fractions -> Fractions]]
  BY <1>1, PlusTimesFractions
<1>3. \A i \in 1..N, v \in Fractions : g[i][v] = Times(Fading, v)
  OBVIOUS
<1>. HIDE DEF g
<1>4. PICK h : Iterates(h, N, Fractions, One, g)
  <2>. HIDE DEF N
  <2>. QED BY <1>1, <1>2, Recursion
<1>5. h \in [0..N -> Fractions] /\ h[0] = One /\ \A i \in 1..N : h[i] = Times(Fading, h[i - 1])
  <2>1. h \in [0..N -> Fractions] /\ h[0] = One /\ \A i \in 1..N : h[i] = g[i][h[i - 1]]
    BY <1>4 DEF Iterates
  <2>2. \A i \in 1..N : h[i - 1] \in Fractions
    BY ONLY <1>1, <2>1
  <2>. QED BY ONLY <1>3, <2>1, <2>2
<1>6. Is(h)
  <2>1. \A i \in 0..N : h[i] = IF i = 0 THEN One ELSE Times(Fading, h[i - 1])
    BY ONLY <1>1, <1>5
  <2>2. h = [i \in 0..N |-> h[i]]
    BY <1>5
  <2>. QED BY ONLY <2>1, <2>2
<1>7. Is(Power)
  <2>1. Power = CHOOSE P : Is(P)
    BY DEF Power
  <2>. HIDE DEF Is
  <2>. QED BY <1>6, <2>1
<1>8. /\ 0 \in 0..N => Power[0] = One
      /\ \A i \in 0..(N - 1) : Power[i + 1] = Times(Fading, Power[i])
  <2>1. \A i \in 0..N : Power[i] = IF i = 0 THEN One ELSE Times(Fading, Power[i - 1])
    BY Zenon, <1>7
  <2>. HIDE DEF Is
  <2>2. ASSUME NEW i \in 0..(N - 1) PROVE i + 1 \in 0..N /\ i + 1 # 0 /\ (i + 1) - 1 = i
    BY <1>1
  <2>. QED BY <2>1, <2>2
<1>. DEFINE D == {i \in 0..N : Power[i] \in Fractions}
<1>9. 0 \in D /\ \A i \in 0..(N - 1) : i \in D => i + 1 \in D
  <2>1. 0 \in 0..N /\ \A i \in 0..(N - 1) : i + 1 \in 0..N
    BY <1>1
  <2>2. \A v \in Fractions : Times(Fading, v) \in Fractions
    BY <1>1, PlusTimesFractions
  <2>. HIDE DEF Is, N
  <2>. QED BY <1>1, <1>8, <2>1, <2>2
<1>10. 0..N \subseteq D
  <2>. HIDE DEF D, N
  <2>. QED BY <1>1, <1>9, UptoInduction
<1>. QED BY <1>10

(* A series of items no two of which are of one date, in ascending order.  *)
Series(s, n) ==
  /\ n \in Nat /\ DOMAIN s = 1..n
  /\ \A i \in 1..n : s[i].date \in Nat
  /\ \A i, j \in 1..n : s[i].date = s[j].date => i = j
Ascends(f, s, n) ==
  f \in [1..n -> 1..n] /\ \A i, j \in 1..n : i < j => s[f[i]].date < s[f[j]].date

(* There is such an order: that of the places of the dates.                *)
LEMMA CanBeSorted ==
  ASSUME NEW s, NEW n, Series(s, n)
  PROVE  \E f : Ascends(f, s, n)
<1>. DEFINE d == [i \in 1..n |-> s[i].date]
            I == {d[i] : i \in 1..n}
            at(x) == CHOOSE i \in 1..n : d[i] = x
            f == [k \in 1..n |-> at(Place(I, k))]
<1>1. /\ n \in Nat /\ \A i \in 1..n : d[i] \in Nat /\ d[i] = s[i].date
      /\ \A i, j \in 1..n : d[i] = d[j] => i = j
  BY DEF Series
<1>2. IsFiniteSet(1..n) /\ Cardinality(1..n) = n
  <2>1. 1 \in Int /\ n \in Int
    BY <1>1
  <2>. QED BY <1>1, <2>1, FS_Interval
<1>. HIDE DEF d
<1>3. I \subseteq Nat /\ IsFiniteSet(I) /\ Cardinality(I) = n
  BY <1>1, <1>2, SameSize
<1>4. \A x \in I : at(x) \in 1..n /\ d[at(x)] = x
  OBVIOUS
<1>. HIDE DEF at
<1>5. /\ \A k \in 1..n : Place(I, k) \in I
      /\ \A k, l \in 1..n : k < l => Place(I, k) < Place(I, l)
  <2>. HIDE DEF I
  <2>. QED BY <1>3, PlaceProperties
<1>. HIDE DEF I
<1>6. \A k \in 1..n : f[k] \in 1..n /\ d[f[k]] = Place(I, k)
  BY <1>4, <1>5
<1>7. f \in [1..n -> 1..n]
  BY <1>6
<1>. HIDE DEF f
<1>8. Ascends(f, s, n)
  <2>1. \A k \in 1..n : s[f[k]].date = Place(I, k)
    BY <1>1, <1>6
  <2>. QED BY ONLY <1>5, <1>7, <2>1 DEF Ascends
<1>. QED BY <1>8

(* And it has every item once.                                             *)
LEMMA AscendingArranges ==
  ASSUME NEW s, NEW n, Series(s, n), NEW f, Ascends(f, s, n)
  PROVE  Arranges(f, n, 1..n)
<1>1. n \in Nat /\ \A i \in 1..n : s[i].date \in Nat
  BY DEF Series
<1>2. f \in [1..n -> 1..n]
  BY DEF Ascends
<1>3. ASSUME NEW i \in 1..n, NEW j \in 1..n, f[i] = f[j] PROVE i = j
  <2>. DEFINE x == s[f[i]].date
  <2>1. x \in Nat /\ s[f[j]].date = x
    BY <1>1, <1>2, <1>3
  <2>2. ~(i < j) /\ ~(j < i)
    <3>1. (i < j => x < x) /\ (j < i => x < x)
      BY <1>3, <2>1 DEF Ascends
    <3>. HIDE DEF x
    <3>. QED BY <2>1, <3>1
  <2>. QED BY <1>1, <2>2
<1>4. IsFiniteSet(1..n) /\ Cardinality(1..n) = n
  <2>1. 1 \in Int /\ n \in Int
    BY <1>1
  <2>. QED BY <1>1, <2>1, FS_Interval
<1>. QED BY <1>1, <1>2, <1>3, <1>4, OneToOneArranges

(* Sorted puts the series in it.                                           *)
LEMMA SortedAscends ==
  ASSUME NEW s, NEW n, Series(s, n)
  PROVE  \E f : /\ Ascends(f, s, n)
                /\ Sorted(s) = [i \in 1..n |-> s[f[i]]]
<1>. DEFINE before(i, j) == \/ s[i].date < s[j].date
                            \/ s[i].date = s[j].date /\ i < j
            Fit(f) == \A i, j \in 1..n : i < j => before(f[i], f[j])
            place == CHOOSE f \in [1..n -> 1..n] : Fit(f)
<1>1. /\ n \in Nat /\ DOMAIN s = 1..n /\ \A i \in 1..n : s[i].date \in Nat
      /\ \A i, j \in 1..n : s[i].date = s[j].date => i = j
  BY DEF Series
<1>2. Sorted(s) = [i \in 1..n |-> s[place[i]]]
  BY <1>1 DEF Sorted
<1>3. \E f \in [1..n -> 1..n] : Fit(f)
  BY CanBeSorted DEF Ascends
<1>. HIDE DEF Fit
<1>4. place \in [1..n -> 1..n] /\ Fit(place)
  BY <1>3
<1>. HIDE DEF place
<1>5. ASSUME NEW i \in 1..n, NEW j \in 1..n, i < j
      PROVE  s[place[i]].date < s[place[j]].date
  <2>1. place[i] \in 1..n /\ place[j] \in 1..n
    BY <1>4
  <2>2. before(place[i], place[j])
    BY <1>4, <1>5 DEF Fit
  <2>3. \A k, l \in 1..n : s[k].date = s[l].date => ~(k < l)
    BY <1>1
  <2>. QED BY ONLY <2>1, <2>2, <2>3
<1>. QED BY <1>2, <1>4, <1>5 DEF Ascends

(* The i-th of n in ascending order has n - i later ones.                  *)
LEMMA LaterOnes ==
  ASSUME NEW S, NEW n, NEW p, Arranges(p, n, S), NEW d, \A x \in S : d[x] \in Nat,
         \A i, j \in 1..n : i < j => d[p[i]] < d[p[j]], NEW i \in 1..n
  PROVE  Cardinality({x \in S : d[x] > d[p[i]]}) = n - i
<1>. DEFINE A == (i + 1)..n
<1>1. /\ n \in Nat /\ p \in [1..n -> S] /\ S = {p[j] : j \in 1..n}
      /\ \A j, k \in 1..n : p[j] = p[k] => j = k
  BY ArrangedSize DEF Arranges
<1>2. \A j \in 1..n : d[p[j]] \in Nat
  BY <1>1
<1>3. \A j \in 1..n : d[p[j]] > d[p[i]] <=> i < j
  <2>1. \A j \in 1..n : (i < j => d[p[i]] < d[p[j]]) /\ (j < i => d[p[j]] < d[p[i]])
    OBVIOUS
  <2>2. \A j \in 1..n : i < j \/ j < i \/ i = j
    BY <1>1
  <2>. QED BY ONLY <1>2, <2>1, <2>2, i \in 1..n
<1>4. A \subseteq 1..n /\ \A j \in 1..n : j \in A <=> i < j
  BY <1>1
<1>5. {x \in S : d[x] > d[p[i]]} = {p[j] : j \in A}
  <2>. HIDE DEF A
  <2>. QED BY ONLY <1>1, <1>3, <1>4
<1>6. IsFiniteSet(A) /\ Cardinality(A) = n - i
  <2>1. i + 1 \in Int /\ n \in Int /\ i \in Int /\ i <= n
    BY <1>1
  <2>2. IsFiniteSet(A) /\ Cardinality(A) = IF i + 1 > n THEN 0 ELSE n - (i + 1) + 1
    BY <2>1, FS_Interval
  <2>. QED BY ONLY <2>1, <2>2
<1>. HIDE DEF A
<1>7. Cardinality({p[j] : j \in A}) = Cardinality(A)
  <2>1. \A a, b \in A : p[a] = p[b] => a = b
    BY <1>1, <1>4
  <2>. QED BY <1>6, <2>1, SameSize
<1>. QED BY <1>5, <1>6, <1>7

(* The prequential score is the recency-weighted mean: the sorted rows are *)
(* the results under other names, and a weight's exponent is the number of *)
(* results of a later date.                                                *)
LEMMA PrequentialIsWeighted ==
  ASSUME RunIsTyped, ResultsFit, DatesApart, DOMAIN result # {},
         NEW rows \in SetToSeqs(DOMAIN result)
  PROVE  PrequentialForRun(rows) = Weighted
<1>. DEFINE D == DOMAIN result
            n == Cardinality(D)
            s == [i \in DOMAIN rows |->
                    [date |-> date[rows[i]], score |-> result[rows[i]].scored.score]]
<1>1. IsFiniteSet(D) /\ n \in 0..Questions /\ n \in Nat /\ n # 0
  BY ResultsFinite, ScoringAssumption
<1>2. /\ Arranges(rows, n, D)
      /\ rows \in [1..n -> D] /\ DOMAIN rows = 1..n
      /\ \A i, j \in 1..n : rows[i] = rows[j] => i = j
  BY <1>1, RowsArrange DEF Arranges
<1>3. \A q \in D : date[q] \in Nat /\ result[q].scored.score \in Fractions
  BY DEF RunIsTyped, ResultsFit, Fits
<1>4. PrequentialForRun(rows) = FadingMean(Sorted(s))
  <2>1. rows # << >>
    <3>1. DOMAIN rows # {}
      BY <1>1, <1>2
    <3>2. DOMAIN << >> = {}
      OBVIOUS
    <3>. QED BY <3>1, <3>2
  <2>. QED BY <2>1 DEF PrequentialForRun, PrequentialAccuracy
<1>5. /\ DOMAIN s = 1..n
      /\ \A i \in 1..n : s[i].date = date[rows[i]] /\ s[i].score = result[rows[i]].scored.score
  BY <1>2
<1>. HIDE DEF s
<1>6. Series(s, n)
  <2>1. \A i \in 1..n : s[i].date \in Nat
    BY <1>2, <1>3, <1>5
  <2>2. ASSUME NEW i \in 1..n, NEW j \in 1..n, s[i].date = s[j].date PROVE i = j
    <3>1. rows[i] \in D /\ rows[j] \in D /\ date[rows[i]] = date[rows[j]]
      BY <1>2, <1>5, <2>2
    <3>2. rows[i] = rows[j]
      BY <3>1 DEF DatesApart
    <3>. QED BY <1>2, <3>2
  <2>. QED BY <1>1, <1>5, <2>1, <2>2 DEF Series
<1>7. PICK f : Ascends(f, s, n) /\ Sorted(s) = [i \in 1..n |-> s[f[i]]]
  BY <1>6, SortedAscends
<1>. DEFINE t == [i \in 1..n |-> s[f[i]]]
            p == [i \in 1..n |-> rows[f[i]]]
<1>8. Arranges(f, n, 1..n)
  BY <1>6, <1>7, AscendingArranges
<1>9. Arranges(p, n, D)
  <2>1. /\ f \in [1..n -> 1..n] /\ \A i, j \in 1..n : f[i] = f[j] => i = j
        /\ \A i \in 1..n : \E j \in 1..n : f[j] = i
    BY <1>8 DEF Arranges
  <2>2. \A x \in D : \E i \in 1..n : rows[i] = x
    BY <1>2 DEF Arranges
  <2>3. \A i \in 1..n : p[i] = rows[f[i]]
    OBVIOUS
  <2>4. p \in [1..n -> D]
    BY <1>2, <2>1
  <2>. HIDE DEF D, n, p, t
  <2>5. \A i, j \in 1..n : p[i] = p[j] => i = j
    <3>. SUFFICES ASSUME NEW i \in 1..n, NEW j \in 1..n, p[i] = p[j] PROVE i = j
      OBVIOUS
    <3>1. f[i] \in 1..n /\ f[j] \in 1..n /\ rows[f[i]] = rows[f[j]]
      BY <2>1, <2>3
    <3>. QED BY ONLY <1>2, <2>1, <3>1
  <2>6. \A x \in D : \E i \in 1..n : p[i] = x
    BY ONLY <2>1, <2>2, <2>3
  <2>. QED BY <1>1, <2>4, <2>5, <2>6 DEF Arranges
<1>10. \A i \in 1..n : p[i] \in D /\ p[i] = rows[f[i]] /\ f[i] \in 1..n
  BY <1>2, <1>8 DEF Arranges
<1>11. \A i \in 1..n : t[i].score = result[p[i]].scored.score
  BY <1>5, <1>10
<1>12. \A i, j \in 1..n : i < j => date[p[i]] < date[p[j]]
  BY <1>5, <1>7, <1>10 DEF Ascends
<1>. HIDE DEF p
<1>13. \A i \in 1..n : Recency(p[i]) = Power[n - i] /\ n - i \in 0..Questions
  <2>. SUFFICES ASSUME NEW i \in 1..n PROVE Recency(p[i]) = Power[n - i] /\ n - i \in 0..Questions
    OBVIOUS
  <2>1. \A x \in D : date[x] \in Nat
    BY <1>3
  <2>. HIDE DEF D, n
  <2>2. Cardinality({x \in D : date[x] > date[p[i]]}) = n - i
    BY <1>9, <1>12, <2>1, LaterOnes
  <2>3. n - i \in 0..Questions
    BY <1>1, ScoringAssumption
  <2>. QED BY <2>2, <2>3 DEF Recency, D
<1>. DEFINE A == 1..n
            w == [i \in A |-> Power[n - i]]
            v == [i \in A |-> Times(Power[n - i], t[i].score)]
            W == [q \in D |-> Recency(q)]
            V == [q \in D |-> Times(Recency(q), result[q].scored.score)]
<1>14. /\ IsFiniteSet(A) /\ D = {p[i] : i \in A} /\ \A i, j \in A : p[i] = p[j] => i = j
  <2>1. 1 \in Int /\ n \in Int
    BY <1>1
  <2>2. IsFiniteSet(A)
    BY <2>1, FS_Interval
  <2>. HIDE DEF D, n
  <2>. QED BY <1>9, <2>2, ArrangedSize DEF Arranges
<1>15. \A i \in A : w[i] \in Fractions /\ v[i] \in Fractions
  <2>. SUFFICES ASSUME NEW i \in A PROVE w[i] \in Fractions /\ v[i] \in Fractions
    OBVIOUS
  <2>1. Power[n - i] \in Fractions
    BY <1>13, PowerIsFraction
  <2>2. t[i].score \in Fractions
    BY <1>3, <1>10, <1>11
  <2>. HIDE DEF t, n
  <2>. QED BY <2>1, <2>2, PlusTimesFractions
<1>16. \A i \in A : W[p[i]] = w[i] /\ V[p[i]] = v[i]
  BY <1>10, <1>11, <1>13
<1>17. DOMAIN w = A /\ DOMAIN v = A /\ DOMAIN W = D /\ DOMAIN V = D
  OBVIOUS
<1>18. FadingMean(t) = Over(PlusAll(v), PlusAll(w))
  <2>1. Len(t) = n
    <3>. HIDE DEF n
    <3>. QED BY <1>1
  <2>. HIDE DEF t
  <2>. QED BY <2>1 DEF FadingMean
<1>19. Weighted = Over(PlusAll(V), PlusAll(W))
  BY DEF Weighted
<1>20. PlusAll(V) = PlusAll(v) /\ PlusAll(W) = PlusAll(w)
  <2>. HIDE DEF A, D, w, v, W, V
  <2>1. PlusAll(V) = PlusAll(v)
    BY <1>14, <1>15, <1>16, <1>17, PlusAllRenamed
  <2>2. PlusAll(W) = PlusAll(w)
    BY <1>14, <1>15, <1>16, <1>17, PlusAllRenamed
  <2>. QED BY <2>1, <2>2
<1>. QED BY ONLY <1>4, <1>7, <1>18, <1>19, <1>20
-----------------------------------------------------------------------------
(* The AUC *)

(* The pairs whose first has more than the second, and as much.            *)
Ahead(v, P, Q) == {z \in P \X Q : Less(v[z[2]], v[z[1]])}
Level(v, P, Q) == {z \in P \X Q : v[z[1]] = v[z[2]]}
LEMMA PairsFinite ==
  ASSUME NEW P, IsFiniteSet(P), NEW Q, IsFiniteSet(Q), NEW v
  PROVE  /\ IsFiniteSet(Ahead(v, P, Q)) /\ IsFiniteSet(Level(v, P, Q))
         /\ Cardinality(Ahead(v, P, Q)) \in Nat /\ Cardinality(Level(v, P, Q)) \in Nat
<1>1. IsFiniteSet(P \X Q)
  BY FS_Product
<1>2. Ahead(v, P, Q) \in SUBSET (P \X Q) /\ Level(v, P, Q) \in SUBSET (P \X Q)
  BY DEF Ahead, Level
<1>. QED BY <1>1, <1>2, FS_Subset, FS_CardinalityType

(* Among all are those among the part and those with the rest.             *)
LEMMA PairsSplit ==
  ASSUME NEW D, IsFiniteSet(D), NEW P, P \subseteq D, NEW v
  PROVE  /\ Cardinality(Ahead(v, P, D)) =
              Cardinality(Ahead(v, P, P)) + Cardinality(Ahead(v, P, D \ P))
         /\ Cardinality(Level(v, P, D)) =
              Cardinality(Level(v, P, P)) + Cardinality(Level(v, P, D \ P))
<1>1. IsFiniteSet(P) /\ IsFiniteSet(D \ P)
  BY FS_Subset, P \in SUBSET D, D \ P \in SUBSET D
<1>2. /\ Ahead(v, P, D) = Ahead(v, P, P) \cup Ahead(v, P, D \ P)
      /\ Ahead(v, P, P) \cap Ahead(v, P, D \ P) = {}
  BY DEF Ahead
<1>3. /\ Level(v, P, D) = Level(v, P, P) \cup Level(v, P, D \ P)
      /\ Level(v, P, P) \cap Level(v, P, D \ P) = {}
  BY DEF Level
<1>4. /\ IsFiniteSet(Ahead(v, P, P)) /\ IsFiniteSet(Ahead(v, P, D \ P))
      /\ IsFiniteSet(Level(v, P, P)) /\ IsFiniteSet(Level(v, P, D \ P))
  BY <1>1, PairsFinite
<1>5. Cardinality(Ahead(v, P, D)) = Cardinality(Ahead(v, P, P)) + Cardinality(Ahead(v, P, D \ P))
  BY <1>2, <1>4, Disjoint
<1>6. Cardinality(Level(v, P, D)) = Cardinality(Level(v, P, P)) + Cardinality(Level(v, P, D \ P))
  BY <1>3, <1>4, Disjoint
<1>. QED BY <1>5, <1>6

(* Of a pair of a part either is ahead, or they are level.                 *)
LEMMA PairsWithin ==
  ASSUME NEW P, IsFiniteSet(P), NEW v, \A q \in P : v[q] \in Fractions
  PROVE  /\ Cardinality(P) \in Nat
         /\ 2 * Cardinality(Ahead(v, P, P)) + Cardinality(Level(v, P, P))
              = Cardinality(P) * Cardinality(P)
<1>. DEFINE A == Ahead(v, P, P)
            E == Level(v, P, P)
            B == {z \in P \X P : Less(v[z[1]], v[z[2]])}
            swap == [z \in A |-> <<z[2], z[1]>>]
            n == Cardinality(P)
<1>1. IsFiniteSet(A) /\ IsFiniteSet(E) /\ Cardinality(A) \in Nat /\ Cardinality(E) \in Nat
  BY PairsFinite
<1>2. B = {swap[z] : z \in A}
  <2>1. ASSUME NEW z \in B PROVE \E y \in A : z = swap[y]
    <3>. DEFINE y == <<z[2], z[1]>>
    <3>1. y \in A
      BY DEF Ahead
    <3>2. swap[y] = <<y[2], y[1]>> /\ z = <<z[1], z[2]>>
      BY <3>1
    <3>. QED BY <3>1, <3>2
  <2>2. ASSUME NEW y \in A PROVE swap[y] \in B
    <3>1. swap[y] = <<y[2], y[1]>>
      OBVIOUS
    <3>2. <<y[2], y[1]>> \in B
      BY DEF Ahead
    <3>. QED BY <3>1, <3>2
  <2>. HIDE DEF B, A, swap
  <2>. QED BY <2>1, <2>2
<1>3. \A y, z \in A : swap[y] = swap[z] => y = z
  <2>. SUFFICES ASSUME NEW y \in A, NEW z \in A, swap[y] = swap[z] PROVE y = z
    OBVIOUS
  <2>1. <<y[2], y[1]>> = <<z[2], z[1]>>
    OBVIOUS
  <2>2. y = <<y[1], y[2]>> /\ z = <<z[1], z[2]>>
    BY DEF Ahead
  <2>. QED BY <2>1, <2>2
<1>4. IsFiniteSet(B) /\ Cardinality(B) = Cardinality(A)
  <2>. HIDE DEF A, B, swap
  <2>. QED BY <1>1, <1>2, <1>3, SameSize
<1>5. P \X P = (A \cup B) \cup E /\ A \cap B = {} /\ (A \cup B) \cap E = {}
  <2>. SUFFICES ASSUME NEW z \in P \X P
                PROVE  /\ Less(v[z[2]], v[z[1]]) \/ Less(v[z[1]], v[z[2]]) \/ v[z[1]] = v[z[2]]
                       /\ ~(Less(v[z[2]], v[z[1]]) /\ Less(v[z[1]], v[z[2]]))
                       /\ v[z[1]] = v[z[2]] => ~Less(v[z[2]], v[z[1]]) /\ ~Less(v[z[1]], v[z[2]])
    BY Zenon DEF Ahead, Level
  <2>1. v[z[1]] \in Fractions /\ v[z[2]] \in Fractions
    OBVIOUS
  <2>. QED BY <2>1, Trichotomy
<1>6. Cardinality(P \X P) = n * n /\ n \in Nat
  BY FS_Product, FS_CardinalityType
<1>. HIDE DEF A, B, E
<1>7. /\ IsFiniteSet(A \cup B)
      /\ Cardinality(A \cup B) = Cardinality(A) + Cardinality(A)
  BY <1>1, <1>4, <1>5, Disjoint
<1>8. Cardinality((A \cup B) \cup E) = Cardinality(A \cup B) + Cardinality(E)
  BY <1>1, <1>5, <1>7, Disjoint
<1>9. n * n = 2 * Cardinality(A) + Cardinality(E)
  <2>. DEFINE m == n * n
  <2>1. m = Cardinality(A) + Cardinality(A) + Cardinality(E)
    BY ONLY <1>5, <1>6, <1>7, <1>8
  <2>. HIDE DEF m
  <2>2. m = 2 * Cardinality(A) + Cardinality(E)
    BY ONLY <1>1, <2>1
  <2>. QED BY <2>2 DEF m
<1>. QED BY <1>6, <1>9 DEF A, E

Pairs(P, Q) == P \X Q

(* Twice the rank of an item, those level with it sharing the middle.      *)
TwiceRank(v, D, q) == 2 * Cardinality({r \in D : Less(v[r], v[q])})
                        + Cardinality({r \in D : v[r] = v[q]}) + 1
Ranked(k, v, P, D) ==
  /\ IsFiniteSet(D) /\ P \subseteq D /\ \A q \in D : v[q] \in Fractions
  /\ k \in [P -> Nat] /\ \A q \in P : k[q] = TwiceRank(v, D, q)

(* Wilcoxon: the ranks of a part, less what they are among itself, count   *)
(* the pairs with the rest.                                                *)
RanksAre(k, v, P, D) ==
  /\ Cardinality(P) \in Nat
  /\ SumOf(k) - Cardinality(P) * (Cardinality(P) + 1)
       = 2 * Cardinality(Ahead(v, P, D \ P)) + Cardinality(Level(v, P, D \ P))
  /\ Cardinality(Pairs(P, D \ P)) = Cardinality(P) * (Cardinality(D) - Cardinality(P))
LEMMA RanksCountPairs ==
  ASSUME NEW k, NEW v, NEW P, NEW D, Ranked(k, v, P, D)
  PROVE  RanksAre(k, v, P, D)
<1>. DEFINE L == Ahead(v, P, D)
            E == Level(v, P, D)
            n == Cardinality(P)
            M == D \ P
<1>. USE DEF Ranked
<1>1. IsFiniteSet(P) /\ IsFiniteSet(M) /\ Relates(L, P, D) /\ Relates(E, P, D)
  BY FS_Subset, P \in SUBSET D, M \in SUBSET D DEF Ahead, Level, Relates
<1>2. ASSUME NEW q \in P
      PROVE  k[q] = 2 * Cardinality(Partners(L, D, q)) + Cardinality(Partners(E, D, q)) + 1
  <2>1. Partners(L, D, q) = {r \in D : Less(v[r], v[q])}
    BY DEF Partners, Ahead
  <2>2. Partners(E, D, q) = {r \in D : v[r] = v[q]}
    BY DEF Partners, Level
  <2>. QED BY <2>1, <2>2 DEF TwiceRank
<1>3. SumOf(k) = 2 * Cardinality(L) + Cardinality(E) + n
  <2>. HIDE DEF L, E
  <2>. QED BY <1>1, <1>2, CountedByMember
<1>. DEFINE a == Cardinality(Ahead(v, P, P))
            e == Cardinality(Level(v, P, P))
            w == Cardinality(Ahead(v, P, M))
            t == Cardinality(Level(v, P, M))
            m == n * n
<1>4. Cardinality(L) = a + w /\ Cardinality(E) = e + t
  BY PairsSplit
<1>5. n \in Nat /\ 2 * a + e = m
  BY <1>1, PairsWithin
<1>6. a \in Nat /\ e \in Nat /\ w \in Nat /\ t \in Nat
  BY <1>1, PairsFinite
<1>7. m \in Nat /\ n * (n + 1) = m + n
  <2>. HIDE DEF n
  <2>. QED BY <1>5
<1>8. SumOf(k) - n * (n + 1) = 2 * w + t
  <2>1. SumOf(k) = 2 * (a + w) + (e + t) + n
    BY ONLY <1>3, <1>4
  <2>. DEFINE s == SumOf(k)
              u == n * (n + 1)
  <2>. HIDE DEF a, e, w, t, m, n, s, u, L, E, M
  <2>2. s = 2 * (a + w) + (e + t) + n /\ u = m + n
    BY ONLY <1>7, <2>1 DEF s, u
  <2>3. s - u = 2 * w + t
    BY ONLY <1>5, <1>6, <1>7, <2>2
  <2>. QED BY <2>3 DEF s, u
<1>9. Cardinality(P \X M) = n * (Cardinality(D) - n)
  <2>1. Cardinality(P \X M) = n * Cardinality(M)
    BY <1>1, FS_Product
  <2>2. Cardinality(M) = Cardinality(D) - Cardinality(D \cap P)
    BY FS_Difference
  <2>3. D \cap P = P
    OBVIOUS
  <2>. QED BY <2>1, <2>2, <2>3
<1>. QED BY <1>5, <1>8, <1>9 DEF Pairs, RanksAre

(* Pairs of positions are pairs of what is at them.                        *)
ImageOf(p, I) == {p[i] : i \in I}
Renamed(A, p, I, J, u, v) ==
  /\ IsFiniteSet(A) /\ I \subseteq A /\ J \subseteq A
  /\ \A i, j \in A : p[i] = p[j] => i = j
  /\ \A i \in A : u[i] = v[p[i]]
LEMMA PairsRenamed ==
  ASSUME NEW A, NEW p, NEW I, NEW J, NEW u, NEW v, Renamed(A, p, I, J, u, v)
  PROVE  /\ Cardinality(Ahead(v, ImageOf(p, I), ImageOf(p, J))) = Cardinality(Ahead(u, I, J))
         /\ Cardinality(Level(v, ImageOf(p, I), ImageOf(p, J))) = Cardinality(Level(u, I, J))
         /\ Cardinality(Pairs(ImageOf(p, I), ImageOf(p, J))) = Cardinality(Pairs(I, J))
<1>. DEFINE P == ImageOf(p, I)
            M == ImageOf(p, J)
<1>. USE DEF Renamed
<1>. DEFINE K == I \X J
            f == [z \in K |-> <<p[z[1]], p[z[2]]>>]
<1>1. IsFiniteSet(I) /\ IsFiniteSet(J)
  BY FS_Subset, I \in SUBSET A, J \in SUBSET A
<1>2. IsFiniteSet(K)
  BY <1>1, FS_Product
<1>3. \A y, z \in K : f[y] = f[z] => y = z
  <2>. SUFFICES ASSUME NEW y \in K, NEW z \in K, f[y] = f[z] PROVE y = z
    OBVIOUS
  <2>1. p[y[1]] = p[z[1]] /\ p[y[2]] = p[z[2]]
    OBVIOUS
  <2>2. /\ y = <<y[1], y[2]>> /\ z = <<z[1], z[2]>>
        /\ y[1] \in A /\ z[1] \in A /\ y[2] \in A /\ z[2] \in A
    OBVIOUS
  <2>3. y[1] = z[1] /\ y[2] = z[2]
    BY <2>1, <2>2
  <2>. QED BY ONLY <2>2, <2>3
<1>4. \A z \in K : z[1] \in A /\ z[2] \in A /\ f[z] = <<p[z[1]], p[z[2]]>> /\ f[z] \in P \X M
  BY DEF ImageOf
<1>5. ASSUME NEW x \in P \X M PROVE \E z \in K : f[z] = x
  <2>1. PICK i \in I, j \in J : x = <<p[i], p[j]>>
    BY DEF ImageOf
  <2>2. <<i, j>> \in K /\ f[<<i, j>>] = <<p[i], p[j]>>
    OBVIOUS
  <2>. HIDE DEF f, K
  <2>. QED BY <2>1, <2>2
<1>6. \A z \in K : /\ v[f[z][1]] = u[z[1]] /\ v[f[z][2]] = u[z[2]]
  BY <1>4
<1>. HIDE DEF f
<1>. DEFINE X == Ahead(u, I, J)
            Y == Level(u, I, J)
<1>7. X \subseteq K /\ Y \subseteq K
  BY DEF Ahead, Level
<1>8. /\ Ahead(v, P, M) = {f[z] : z \in X} /\ Level(v, P, M) = {f[z] : z \in Y}
      /\ P \X M = {f[z] : z \in K}
  <2>1. \A z \in K : (f[z] \in Ahead(v, P, M) <=> z \in X) /\ (f[z] \in Level(v, P, M) <=> z \in Y)
    BY <1>4, <1>6 DEF Ahead, Level
  <2>2. Ahead(v, P, M) \subseteq P \X M /\ Level(v, P, M) \subseteq P \X M
    BY DEF Ahead, Level
  <2>. DEFINE G == Ahead(v, P, M)
              H == Level(v, P, M)
              N == P \X M
  <2>3. /\ \A z \in K : (f[z] \in G <=> z \in X) /\ (f[z] \in H <=> z \in Y) /\ f[z] \in N
        /\ G \subseteq N /\ H \subseteq N
        /\ \A x \in N : \E z \in K : f[z] = x
    BY <1>4, <1>5, <2>1, <2>2
  <2>. HIDE DEF G, H, N, X, Y, K
  <2>4. G = {f[z] : z \in X} /\ H = {f[z] : z \in Y} /\ N = {f[z] : z \in K}
    BY ONLY <1>7, <2>3
  <2>. QED BY <2>4 DEF G, H, N
<1>9. IsFiniteSet(X) /\ IsFiniteSet(Y)
  BY <1>1, PairsFinite
<1>. HIDE DEF X, Y, K
<1>10. Cardinality({f[z] : z \in X}) = Cardinality(X)
  BY <1>3, <1>7, <1>9, SameSize
<1>11. Cardinality({f[z] : z \in Y}) = Cardinality(Y)
  BY <1>3, <1>7, <1>9, SameSize
<1>12. Cardinality({f[z] : z \in K}) = Cardinality(K)
  BY <1>2, <1>3, SameSize
<1>. QED BY <1>8, <1>10, <1>11, <1>12 DEF X, Y, K, Pairs

(* The AUC counts the pairs that the sum of the ranks does.                *)
LEMMA AucIsRankSum ==
  ASSUME RunIsTyped, ResultsFit, asked = "forecast", NEW rows \in SetToSeqs(DOMAIN result)
  PROVE  AucForRun(rows) = RankSum
<1>. DEFINE D == DOMAIN result
            N == Cardinality(D)
            A == DOMAIN rows
            v == [q \in D |-> result[q].scored.pair[1]]
            u == [i \in A |-> result[rows[i]].scored.pair[1]]
            P == {q \in D : result[q].scored.pair[2]}
            I == {i \in A : result[rows[i]].scored.pair[2]}
            J == A \ I
            n == Cardinality(P)
            k == [q \in P |-> TwiceRank(v, D, q)]
<1>1. IsFiniteSet(D) /\ N \in Nat
  BY ResultsFinite
<1>2. Arranges(rows, N, D)
  BY <1>1, RowsArrange
<1>3. /\ A = 1..N /\ rows \in [A -> D] /\ (\A i, j \in A : rows[i] = rows[j] => i = j)
      /\ \A q \in D : \E i \in A : rows[i] = q
  <2>. HIDE DEF N
  <2>. QED BY <1>2 DEF Arranges
<1>4. IsFiniteSet(A)
  <2>1. 1 \in Int /\ N \in Int
    BY <1>1
  <2>. QED BY <1>3, <2>1, FS_Interval
<1>5. \A q \in D : v[q] \in Fractions
  BY DEF ResultsFit, Fits, PairIsOutcome
<1>6. P = {rows[i] : i \in I} /\ D \ P = {rows[j] : j \in J} /\ \A i \in A : u[i] = v[rows[i]]
  BY <1>3
<1>7. /\ Cardinality(Ahead(v, P, D \ P)) = Cardinality(Ahead(u, I, J))
      /\ Cardinality(Level(v, P, D \ P)) = Cardinality(Level(u, I, J))
      /\ Cardinality(Pairs(P, D \ P)) = Cardinality(Pairs(I, J))
  <2>1. I \subseteq A /\ J \subseteq A
    OBVIOUS
  <2>. DEFINE M == D \ P
  <2>2. P = ImageOf(rows, I) /\ M = ImageOf(rows, J)
    BY <1>6 DEF ImageOf
  <2>3. /\ Cardinality(Ahead(v, P, M)) = Cardinality(Ahead(u, I, J))
        /\ Cardinality(Level(v, P, M)) = Cardinality(Level(u, I, J))
        /\ Cardinality(Pairs(P, M)) = Cardinality(Pairs(I, J))
    <3>. HIDE DEF D, A, v, u, P, I, J, M
    <3>1. Renamed(A, rows, I, J, u, v)
      BY <1>3, <1>4, <1>6, <2>1 DEF Renamed
    <3>2. /\ Cardinality(Ahead(v, ImageOf(rows, I), ImageOf(rows, J))) = Cardinality(Ahead(u, I, J))
          /\ Cardinality(Level(v, ImageOf(rows, I), ImageOf(rows, J))) = Cardinality(Level(u, I, J))
          /\ Cardinality(Pairs(ImageOf(rows, I), ImageOf(rows, J))) = Cardinality(Pairs(I, J))
      BY ONLY <3>1, PairsRenamed
    <3>. QED BY ONLY <2>2, <3>2
  <2>. QED BY <2>3
<1>8. (I = {} <=> P = {}) /\ (J = {} <=> P = D)
  <2>1. P \subseteq D
    OBVIOUS
  <2>2. D \ P = {} <=> P = D
    <3>. HIDE DEF D, P
    <3>. QED BY <2>1
  <2>3. (I = {} <=> {rows[i] : i \in I} = {}) /\ (J = {} <=> {rows[j] : j \in J} = {})
    <3>. HIDE DEF I, J
    <3>. QED OBVIOUS
  <2>. QED BY ONLY <1>6, <2>2, <2>3
<1>9. k \in [P -> Nat]
  <2>. SUFFICES ASSUME NEW q \in P
                PROVE  TwiceRank(v, D, q) \in Nat
    OBVIOUS
  <2>1. {r \in D : Less(v[r], v[q])} \in SUBSET D /\ {r \in D : v[r] = v[q]} \in SUBSET D
    OBVIOUS
  <2>. HIDE DEF D, v
  <2>2. /\ Cardinality({r \in D : Less(v[r], v[q])}) \in Nat
        /\ Cardinality({r \in D : v[r] = v[q]}) \in Nat
    BY <1>1, <2>1, FS_Subset, FS_CardinalityType
  <2>. QED BY <2>2 DEF TwiceRank
<1>10. /\ n \in Nat
       /\ SumOf(k) - n * (n + 1)
            = 2 * Cardinality(Ahead(v, P, D \ P)) + Cardinality(Level(v, P, D \ P))
       /\ Cardinality(Pairs(P, D \ P)) = n * (N - n)
  <2>1. P \subseteq D
    OBVIOUS
  <2>2. \A q \in P : k[q] = TwiceRank(v, D, q)
    OBVIOUS
  <2>. HIDE DEF k, D, P, v
  <2>3. Ranked(k, v, P, D)
    BY <1>1, <1>5, <1>9, <2>1, <2>2 DEF Ranked
  <2>4. RanksAre(k, v, P, D)
    BY ONLY <2>3, RanksCountPairs
  <2>. QED BY <2>4 DEF RanksAre
<1>11. AucForRun(rows) =
         IF I = {} \/ J = {} THEN NoScore
         ELSE Frac(2 * Cardinality(Ahead(u, I, J)) + Cardinality(Level(u, I, J)),
                   2 * Cardinality(Pairs(I, J)))
  <2>1. Ahead(u, I, J) = {w \in I \X J : Less(result[rows[w[2]]].scored.pair[1],
                                              result[rows[w[1]]].scored.pair[1])}
    BY DEF Ahead
  <2>2. Level(u, I, J) = {w \in I \X J : result[rows[w[1]]].scored.pair[1]
                                           = result[rows[w[2]]].scored.pair[1]}
    BY DEF Level
  <2>. QED BY <2>1, <2>2 DEF AucForRun, Pairs
<1>12. RankSum = IF P = {} \/ P = D THEN NoScore
                 ELSE Frac(SumOf(k) - n * (n + 1), 2 * n * (N - n))
  <2>. DEFINE w(q) == result[q].scored.pair[1]
  <2>1. k = [q \in P |-> 2 * Cardinality({r \in D : Less(w(r), w(q))})
                           + Cardinality({r \in D : w(r) = w(q)}) + 1]
    <3>1. ASSUME NEW q \in P
          PROVE  /\ {r \in D : Less(v[r], v[q])} =
                      {r \in D : Less(result[r].scored.pair[1], result[q].scored.pair[1])}
                 /\ {r \in D : v[r] = v[q]} =
                      {r \in D : result[r].scored.pair[1] = result[q].scored.pair[1]}
      OBVIOUS
    <3>. HIDE DEF v, P
    <3>. QED BY <3>1 DEF TwiceRank
  <2>. HIDE DEF k
  <2>. QED BY <2>1 DEF RankSum
<1>13. 2 * n * (N - n) = 2 * (n * (N - n))
  <2>. HIDE DEF n, N
  <2>. QED BY <1>1, <1>10
<1>. QED
  <2>. HIDE DEF k, n, N, D, P, I, J, u, v
  <2>. QED BY <1>7, <1>8, <1>10, <1>11, <1>12, <1>13
-----------------------------------------------------------------------------
(* The run *)

(* The total of a run that no attempt is scoring.                          *)
RightTotal ==
  /\ DatesApart => total.prequential = Weighted
  /\ asked = "forecast" => total.auc = RankSum
TotalIsRight == (total # NoScore /\ ~context.open /\ DOMAIN result # {}) => RightTotal

(* An attempt may score items before the next one starts with other        *)
(* reference data, so what a result must fit are the indices it was scored *)
(* with.                                                                   *)
ScoringInv == Table(actors) /\ RunIsTyped /\ ContextFits /\ ResultsFit /\ TotalIsRight
LEMMA ScoringStarts == ScoringInit => ScoringInv
<1>. SUFFICES ASSUME ScoringInit PROVE ScoringInv
  OBVIOUS
<1>. USE DEF ScoringInit
<1>1. Table(actors)
  BY DEF ReferenceInit, Table, Rows, Unique, Range
<1>2. RunIsTyped
  BY ScoringAssumption DEF RunIsTyped, Undated
<1>3. ContextFits
  BY DEF ContextFits, Closed
<1>. QED BY <1>1, <1>2, <1>3 DEF ScoringInv, ResultsFit, TotalIsRight

(* The weekly flows keep the table of actors.                              *)
LEMMA ReferenceKept ==
  ASSUME Table(actors), SyncReference
  PROVE  Table(actors)'
<1>1. ASSUME NEW b \in Bundles, IngestAttack(b) PROVE Table(actors)'
  BY <1>1 DEF IngestAttack, Table, Rows, Unique
<1>2. ASSUME NEW c \in Clusters, IngestGalaxy(c) PROVE Table(actors)'
  <2>. DEFINE rows == Normalise(c)
  <2>1. Rows(rows) /\ Unique(NewRows(rows))
    BY <1>2, Normalised DEF IngestGalaxy
  <2>2. actors' = UpsertThreatActors(rows)
    BY <1>2 DEF IngestGalaxy
  <2>3. Table(UpsertThreatActors(rows))
    <3>. HIDE DEF rows
    <3>. QED BY <2>1, Upserted
  <2>. QED BY <2>2, <2>3
<1>. QED BY <1>1, <1>2 DEF SyncReference

(* What does not touch the run leaves it right.                            *)
LEMMA ScoringStays ==
  ASSUME ScoringInv, UNCHANGED run
  PROVE  (RunIsTyped /\ ContextFits /\ ResultsFit /\ TotalIsRight)'
<1>1. RunIsTyped'
  BY DEF ScoringInv, RunIsTyped, run
<1>2. ContextFits'
  BY DEF ScoringInv, ContextFits, run
<1>3. ResultsFit'
  BY DEF ScoringInv, ResultsFit, run
<1>4. TotalIsRight'
  BY DEF ScoringInv, TotalIsRight, RightTotal, DatesApart, Weighted, Recency, RankSum, run
<1>. QED BY <1>1, <1>2, <1>3, <1>4

(* Each attempt starts with indices built from the table.                  *)
LEMMA StartScoringKeeps ==
  ASSUME ScoringInv, StartScoring
  PROVE  ScoringInv'
<1>. USE DEF ScoringInv, StartScoring, reference
<1>1. Table(actors)' /\ RunIsTyped' /\ ResultsFit'
  BY DEF RunIsTyped, ResultsFit
<1>2. ContextFits'
  <2>1. asked = "taa" => Indexed(BuildContext) /\ IsFiniteSet(Range(BuildContext.rows))
    BY ContextIsIndexed
  <2>2. context' = BuildContext /\ asked' = asked
    OBVIOUS
  <2>. HIDE DEF ScoringInv, StartScoring
  <2>. QED BY <2>1, <2>2 DEF ContextFits
<1>3. TotalIsRight'
  <2>1. context'.open
    BY DEF BuildContext
  <2>. QED BY <2>1 DEF TotalIsRight
<1>. QED BY <1>1, <1>2, <1>3

(* A scored answer is added to the results, the others stay.               *)
LEMMA ScoreAnswerKeeps ==
  ASSUME ScoringInv, NEW q \in 1..Questions, ScoreAnswer(q)
  PROVE  ScoringInv'
<1>. USE DEF ScoringInv
<1>. DEFINE gold == label[q]
<1>. DEFINE Grounded(answer) == IF asked = "syn" THEN SUBSET answer ELSE {{}}
            Record(answer, grounded) ==
              [scored   |-> EvaluateItem(asked, gold, answer, grounded),
               answer   |-> answer, grounded |-> grounded, by |-> context]
            With(R) == [r \in DOMAIN result \cup {q} |-> IF r # q THEN result[r] ELSE R]
<1>1. \E lines \in AnswersTo(asked) : \E grounded \in Grounded(ParseResponse(asked, lines)) :
        result' = With(Record(ParseResponse(asked, lines), grounded))
  BY Zenon DEF ScoreAnswer
<1>a. PICK lines \in AnswersTo(asked) : \E grounded \in Grounded(ParseResponse(asked, lines)) :
        result' = With(Record(ParseResponse(asked, lines), grounded))
  BY Zenon, <1>1
<1>. DEFINE answer == ParseResponse(asked, lines)
<1>b. PICK grounded \in Grounded(answer) : result' = With(Record(answer, grounded))
  BY Zenon, <1>a
<1>. DEFINE R == Record(answer, grounded)
<1>2. /\ context.open /\ q \notin DOMAIN result
      /\ UNCHANGED <<reference, asked, label, date, context, total>>
  BY DEF ScoreAnswer
<1>3. result' = [r \in DOMAIN result \cup {q} |-> IF r # q THEN result[r] ELSE R]
  BY <1>b
<1>4. Fits(asked, R, gold)
  <2>1. asked \in ScoredTasks /\ gold \in LabelsOf(asked)
    BY DEF RunIsTyped
  <2>2. AnswerOf(asked, answer)
    BY <2>1, ResponseParsed
  <2>3. grounded \subseteq answer
    <3>. HIDE DEF answer
    <3>. QED OBVIOUS
  <2>4. asked = "taa" => Indexed(context) /\ IsFiniteSet(Range(context.rows))
    BY <1>2 DEF ContextFits
  <2>5. R = [scored |-> EvaluateItem(asked, gold, answer, grounded),
             answer |-> answer, grounded |-> grounded, by |-> context]
    OBVIOUS
  <2>. HIDE DEF answer, gold, R, Record, ScoringInv
  <2>. QED BY <2>1, <2>2, <2>3, <2>4, <2>5, ItemFits
<1>. HIDE DEF R, answer, With, Record
<1>5. Table(actors)' /\ RunIsTyped' /\ ContextFits'
  BY <1>2, <1>3 DEF RunIsTyped, ContextFits, reference
<1>6. ResultsFit'
  <2>1. \A r \in DOMAIN result' : r # q => r \in DOMAIN result /\ result'[r] = result[r]
    BY <1>3
  <2>2. result'[q] = R /\ label' = label /\ asked' = asked
    BY <1>2, <1>3
  <2>. QED BY <1>4, <2>1, <2>2 DEF ResultsFit
<1>7. TotalIsRight'
  BY <1>2 DEF TotalIsRight
<1>. QED BY <1>5, <1>6, <1>7

(* Results that fit are what the reference measures say.                   *)
LEMMA FitsMatchReference ==
  ASSUME ScoringInv
  PROVE  ScoresMatchReference
<1>. USE DEF ScoringInv
<1>1. ASSUME NEW q \in DOMAIN result
      PROVE  CASE asked = "rcm"  -> result[q].scored.score = Dice(result[q].answer, label[q])
               [] asked = "ate"  -> result[q].scored.score =
                    Dice(NormaliseTechniques(result[q].answer, result[q].by.technique),
                         NormaliseTechniques(label[q], result[q].by.technique))
               [] asked = "taa"  -> ActorCredit(q)
               [] asked = "syn"  -> AllClaims(q)
               [] OTHER -> TRUE
  <2>1. Fits(asked, result[q], label[q])
    BY DEF ResultsFit
  <2>2. ActorCredit(q) <=> CreditIsDue(result[q], label[q])
    BY DEF ActorCredit, CreditIsDue
  <2>3. AllClaims(q) <=> FullMarksAreEarned(result[q], label[q])
    BY DEF AllClaims, FullMarksAreEarned
  <2>. HIDE DEF ScoringInv
  <2>. QED BY <2>1, <2>2, <2>3 DEF Fits
<1>2. ASSUME asked = "vsp" PROVE NearerIsBetter
  <2>. SUFFICES ASSUME NEW q \in DOMAIN result, NEW r \in DOMAIN result,
                       \A v \in result[q].answer \cup result[r].answer : v.valid,
                       result[q].answer # {}, result[r].answer # {},
                       Distance(q) <= Distance(r)
                PROVE  AtMost(result[r].scored.score, result[q].scored.score)
    BY DEF NearerIsBetter
  <2>1. NearnessCounts(result[q], label[q]) /\ NearnessCounts(result[r], label[r])
    BY <1>2 DEF ResultsFit, Fits
  <2>2. /\ Distance(q) \in Nat /\ result[q].scored.score = ScoreOf(Distance(q))
        /\ Distance(r) \in Nat /\ result[r].scored.score = ScoreOf(Distance(r))
    BY <2>1 DEF NearnessCounts, Distance, Apart
  <2>. QED BY <2>2, ScoreOfDistance
<1>. QED BY <1>1, <1>2 DEF ScoresMatchReference, TotalIsRight, RightTotal

(* Aggregation makes the total right, in whatever order the rows come.     *)
LEMMA AggregateRunKeeps ==
  ASSUME ScoringInv, AggregateRun
  PROVE  ScoringInv'
<1>. USE DEF ScoringInv
<1>1. PICK rows \in SetToSeqs(DOMAIN result) :
        total' = [prequential |-> PrequentialForRun(rows),
                  auc |-> IF asked = "forecast" THEN AucForRun(rows) ELSE NoScore]
  BY DEF AggregateRun
<1>2. context' = Closed /\ UNCHANGED <<reference, asked, label, date, result>>
  BY DEF AggregateRun
<1>3. Table(actors)' /\ RunIsTyped' /\ ResultsFit'
  BY <1>2 DEF reference, RunIsTyped, ResultsFit
<1>4. ContextFits'
  BY <1>2 DEF ContextFits, Closed
<1>5. ASSUME DOMAIN result # {} PROVE RightTotal'
  <2>1. DatesApart => PrequentialForRun(rows) = Weighted
    BY <1>5, PrequentialIsWeighted
  <2>2. asked = "forecast" => AucForRun(rows) = RankSum
    BY AucIsRankSum
  <2>3. (DatesApart' <=> DatesApart) /\ Weighted' = Weighted /\ RankSum' = RankSum
    BY <1>2 DEF DatesApart, Weighted, Recency, RankSum
  <2>4. /\ total'.prequential = PrequentialForRun(rows)
        /\ asked = "forecast" => total'.auc = AucForRun(rows)
    BY <1>1
  <2>. HIDE DEF ScoringInv
  <2>. QED BY ONLY <1>2, <2>1, <2>2, <2>3, <2>4 DEF RightTotal
<1>6. TotalIsRight'
  <2>1. DOMAIN result' = DOMAIN result
    BY <1>2
  <2>. QED BY <1>5, <2>1 DEF TotalIsRight
<1>. QED BY <1>3, <1>4, <1>6

(* Every answer of a run has the score that its measure stands for, under  *)
(* the reference data of its attempt, and the run the recency-weighted     *)
(* mean of the scores and the AUC of its forecasts, for any number of      *)
(* questions, labels, answers and dates, any fading factor, any published  *)
(* reference data and however often the run is attempted.                  *)
THEOREM ScoresAreRight == ScoringSpec => []ScoresMatchReference
<1>1. ScoringInv /\ [ScoringNext]_scoringVars => ScoringInv'
  <2>. SUFFICES ASSUME ScoringInv, [ScoringNext]_scoringVars PROVE ScoringInv'
    OBVIOUS
  <2>1. CASE StartScoring
    BY <2>1, StartScoringKeeps
  <2>2. ASSUME NEW q \in 1..Questions, ScoreAnswer(q) PROVE ScoringInv'
    BY <2>2, ScoreAnswerKeeps
  <2>3. CASE AggregateRun
    BY <2>3, AggregateRunKeeps
  <2>4. CASE Refresh
    BY <2>4, ReferenceKept, ScoringStays DEF Refresh, ScoringInv
  <2>5. CASE UNCHANGED scoringVars
    <3>1. Table(actors)' /\ UNCHANGED run
      BY <2>5 DEF scoringVars, reference, ScoringInv, Table, Rows, Unique
    <3>. QED BY <3>1, ScoringStays DEF ScoringInv
  <2>. QED BY <2>1, <2>2, <2>3, <2>4, <2>5 DEF ScoringNext
<1>. QED BY <1>1, ScoringStarts, FitsMatchReference, PTL DEF ScoringSpec
=============================================================================
