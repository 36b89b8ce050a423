------------------------------ MODULE DataLemmas ------------------------------
(***************************************************************************)
(* Facts about the data the modules are built from: induction in the form  *)
(* of sets of natural numbers, maxima, the remainder that the append       *)
(* counter is compared with, lists and their ends.  They hold for all      *)
(* values, so the maximum of a list is shown to exist by induction.        *)
(***************************************************************************)
EXTENDS Integers, Sequences, FiniteSets, FiniteSetsExt, Functions,
        FiniteSetTheorems, WellFoundedInduction, TLAPS

\* The order of the natural numbers as a relation.
LEMMA NatOrder == \A x, y \in Nat : x < y => <<x, y>> \in OpToRel(<, Nat)
  BY Zenon DEF OpToRel

\* A set of naturals with 0 that is closed under successor is all of them.
LEMMA SetInduction ==
  ASSUME NEW S, S \subseteq Nat, 0 \in S, \A n \in S : n + 1 \in S
  PROVE  S = Nat
<1>1. SUFFICES ASSUME Nat \ S # {} PROVE FALSE
  OBVIOUS
<1> DEFINE R == OpToRel(<, Nat)
<1>2. IsWellFoundedOn(R, Nat)
  BY NatLessThanWellFounded, Zenon
<1>3. \A x, y \in Nat : x < y => <<x, y>> \in R
  BY NatOrder, Zenon
<1> HIDE DEF R
<1>4. PICK x \in Nat \ S : \A y \in Nat \ S : ~ (<<y, x>> \in R)
  BY <1>1, <1>2, WFMin, Zenon
<1>5. x - 1 \in Nat /\ x - 1 < x
  OBVIOUS
<1>6. x - 1 \in S
  BY <1>3, <1>4, <1>5
<1> QED BY <1>4, <1>5, <1>6

-----------------------------------------------------------------------------
(* Maxima and minima *)

\* A set of positions has a least one.
LEMMA LeastOf ==
  ASSUME NEW S, S \subseteq Nat, S # {}
  PROVE  Min(S) \in S /\ \A y \in S : Min(S) <= y
<1> DEFINE R == OpToRel(<, Nat)
<1>1. IsWellFoundedOn(R, Nat)
  BY NatLessThanWellFounded, Zenon
<1>2. \A x, y \in Nat : x < y => <<x, y>> \in R
  BY NatOrder, Zenon
<1> HIDE DEF R
<1>3. PICK x \in S : \A y \in S : ~ (<<y, x>> \in R)
  BY <1>1, WFMin, Zenon
<1>4. ASSUME NEW y \in S PROVE x <= y
  <2>1. x \in Nat /\ y \in Nat
    OBVIOUS
  <2>2. ~(y < x)
    BY <1>2, <1>3, <2>1, Zenon
  <2> QED BY <2>1, <2>2
<1> QED BY <1>4, Zenon DEF Min

\* A set of natural numbers that is bounded has a greatest one.
LEMMA GreatestOf ==
  ASSUME NEW n \in Nat, NEW S, S \subseteq 0 .. n, S # {}
  PROVE  Max(S) \in S /\ \A y \in S : Max(S) >= y
<1> DEFINE T == {n - x : x \in S}
<1>1. T \subseteq Nat /\ T # {}
  <2>1. \A x \in S : n - x \in Nat
    OBVIOUS
  <2>2. PICK x \in S : TRUE
    OBVIOUS
  <2>3. n - x \in T
    BY <2>2
  <2> QED BY <2>1, <2>3
<1>2. PICK m \in T : \A y \in T : m <= y
  <2> HIDE DEF T
  <2> QED BY <1>1, LeastOf
<1>3. PICK x \in S : m = n - x
  BY <1>2
<1>4. \A y \in S : x >= y
  <2> SUFFICES ASSUME NEW y \in S PROVE x >= y
    OBVIOUS
  <2>1. m <= n - y
    BY <1>2
  <2> HIDE DEF T
  <2>2. x \in Nat /\ y \in Nat
    BY <1>3
  <2> QED BY <1>3, <2>1, <2>2
<1> QED BY <1>4, Zenon DEF Max

\* The larger of two numbers.
LEMMA MaxOfTwo ==
  ASSUME NEW a \in Nat, NEW b \in Nat
  PROVE  /\ Max({a, b}) \in Nat
         /\ Max({a, b}) >= a
         /\ Max({a, b}) >= b
         /\ Max({a, b}) = a \/ Max({a, b}) = b
<1>1. \E x \in {a, b} : \A y \in {a, b} : x >= y
  OBVIOUS
<1>2. Max({a, b}) \in {a, b} /\ \A y \in {a, b} : Max({a, b}) >= y
  BY <1>1, Zenon DEF Max
<1> QED BY <1>2

\* Finitely many natural numbers and one more have a maximum.
LEMMA MaxExists ==
  ASSUME NEW a \in Nat, NEW n \in Nat, NEW f \in [1 .. n -> Nat]
  PROVE  \E x \in {a} \cup Range(f) : \A y \in {a} \cup Range(f) : x >= y
<1> DEFINE Has(k) == \A g \in [1 .. k -> Nat] :
                       \E x \in {a} \cup Range(g) : \A y \in {a} \cup Range(g) : x >= y
           S == {k \in Nat : Has(k)}
<1>1. Has(0)
  <2>1. \A g \in [1 .. 0 -> Nat] : Range(g) = {}
    BY DEF Range
  <2> SUFFICES ASSUME NEW g \in [1 .. 0 -> Nat]
               PROVE  \E x \in {a} \cup Range(g) : \A y \in {a} \cup Range(g) : x >= y
    OBVIOUS
  <2>2. {a} \cup Range(g) = {a}
    BY <2>1
  <2> QED BY <2>2
<1>2. ASSUME NEW k \in Nat, Has(k)
      PROVE  Has(k + 1)
  <2> SUFFICES ASSUME NEW g \in [1 .. k + 1 -> Nat]
               PROVE  \E x \in {a} \cup Range(g) : \A y \in {a} \cup Range(g) : x >= y
    OBVIOUS
  <2> DEFINE h == [j \in 1 .. k |-> g[j]]
  <2>1. h \in [1 .. k -> Nat]
    OBVIOUS
  <2>2. PICK x \in {a} \cup Range(h) : \A y \in {a} \cup Range(h) : x >= y
    BY <1>2, <2>1
  <2>3. Range(g) = Range(h) \cup {g[k + 1]}
    <3>1. \A j \in 1 .. k + 1 : j \in 1 .. k \/ j = k + 1
      OBVIOUS
    <3>2. k + 1 \in 1 .. k + 1 /\ \A j \in 1 .. k : j \in 1 .. k + 1
      OBVIOUS
    <3>3. \A y \in Range(g) : y \in Range(h) \/ y = g[k + 1]
      BY <3>1 DEF Range
    <3>4. \A y \in Range(h) : y \in Range(g)
      BY <3>2 DEF Range
    <3>5. g[k + 1] \in Range(g)
      BY <3>2 DEF Range
    <3> QED BY <3>3, <3>4, <3>5
  <2>4. x \in Nat /\ g[k + 1] \in Nat /\ Range(h) \subseteq Nat
    BY <2>1 DEF Range
  <2>5. CASE x >= g[k + 1]
    BY <2>2, <2>3, <2>4, <2>5
  <2>6. CASE ~(x >= g[k + 1])
    <3>1. \A y \in {a} \cup Range(g) : g[k + 1] >= y
      BY <2>2, <2>3, <2>4, <2>6
    <3> QED BY <3>1, <2>3
  <2> QED BY <2>5, <2>6
<1> HIDE DEF Has
<1>3. 0 \in S /\ \A k \in S : k + 1 \in S
  BY <1>1, <1>2
<1>4. S = Nat
  BY <1>3, SetInduction
<1>5. Has(n)
  BY <1>4
<1> QED BY <1>5 DEF Has

-----------------------------------------------------------------------------
(* Positions *)

\* A set of positions of a list has a number of elements.
LEMMA PositionsCount ==
  ASSUME NEW n \in Nat, NEW S, S \subseteq 1 .. n
  PROVE  IsFiniteSet(S) /\ Cardinality(S) \in Nat
<1>1. IsFiniteSet(1 .. n)
  BY FS_Interval, n \in Int, 1 \in Int
<1>2. IsFiniteSet(S)
  BY <1>1, FS_Subset
<1> QED BY <1>2, FS_CardinalityType

-----------------------------------------------------------------------------
(* The remainder *)

\* A remainder is below its divisor.
LEMMA Remainder ==
  ASSUME NEW a \in Nat, NEW P \in Nat \ {0}
  PROVE  /\ a \div P \in Int
         /\ a % P \in 0 .. P - 1
         /\ a = P * (a \div P) + (a % P)
  OBVIOUS

\* Quotient and remainder are unique.
LEMMA RemainderUnique ==
  ASSUME NEW P \in Nat \ {0}, NEW q1 \in Int, NEW q2 \in Int,
         NEW r1 \in 0 .. P - 1, NEW r2 \in 0 .. P - 1,
         P * q1 + r1 = P * q2 + r2
  PROVE  r1 = r2
<1>1. \A d \in Int : d >= 1 => P * d >= P
  OBVIOUS
<1>2. P * (q1 - q2) = r2 - r1 /\ P * (q2 - q1) = r1 - r2
  OBVIOUS
<1>3. ~(q1 - q2 >= 1) /\ ~(q2 - q1 >= 1)
  BY <1>1, <1>2
<1>4. q1 = q2
  BY <1>3
<1> QED BY <1>4

\* A counter that does not reach a multiple moves its remainder by one.
LEMMA RemainderStep ==
  ASSUME NEW a \in Nat, NEW P \in Nat \ {0}, (a + 1) % P # 0
  PROVE  (a + 1) % P = (a % P) + 1
<1> DEFINE q == a \div P
           r == a % P
           s == (a + 1) \div P
           t == (a + 1) % P
<1>1. q \in Int /\ r \in 0 .. P - 1 /\ a = P * q + r
  BY Remainder
<1>2. s \in Int /\ t \in 0 .. P - 1 /\ a + 1 = P * s + t
  BY Remainder, a + 1 \in Nat
<1> HIDE DEF q, r, s, t
<1>3. P * q + r = P * s + (t - 1) /\ t - 1 \in 0 .. P - 1
  BY <1>1, <1>2 DEF t
<1>4. r = t - 1
  BY <1>1, <1>2, <1>3, RemainderUnique
<1> QED BY <1>1, <1>2, <1>4 DEF r, t

=============================================================================
