------------------------------ MODULE NatFacts ------------------------------
(***************************************************************************)
(* Facts about natural numbers and remainders that the proofs about the    *)
(* sequence counter and about the tick counter share.                      *)
(***************************************************************************)
EXTENDS Integers, FiniteSetTheorems, WellFoundedInduction, TLAPS

\* A set of naturals that is not empty has a least element.
LEMMA HasLeast ==
  ASSUME NEW S \in SUBSET Nat, S # {}
  PROVE  \E x \in S : \A y \in S : x <= y
<1> DEFINE R == {ss \in Nat \X Nat : ss[1] < ss[2]}
<1>1. IsWellFoundedOn(R, Nat)
  BY NatLessThanWellFounded DEF OpToRel
<1>2. \E x \in S : \A y \in S : ~(<<y, x>> \in R)
  <2> HIDE DEF R
  <2> QED
    BY <1>1, WFMin
<1>3. PICK x \in S : \A y \in S : <<y, x>> \notin R
  BY <1>2
<1>4. ASSUME NEW y \in S PROVE x <= y
  <2>1. <<y, x>> \in Nat \X Nat
    OBVIOUS
  <2>2. y < x => <<y, x>> \in R
    BY <2>1
  <2> QED
    BY <1>3, <2>2
<1> QED
  BY <1>4

\* How many numbers there are up to one.
LEMMA CountTo == \A n \in Nat : IsFiniteSet(1 .. n) /\ Cardinality(1 .. n) = n
<1> SUFFICES ASSUME NEW n \in Nat PROVE IsFiniteSet(1 .. n) /\ Cardinality(1 .. n) = n
  OBVIOUS
<1> QED
  BY FS_Interval

\* What defines the remainder.
LEMMA ModUnique ==
  ASSUME NEW m \in Nat \ {0}, NEW q \in Int, NEW r \in 0 .. m - 1
  PROVE  (q * m + r) % m = r
OBVIOUS

\* Quotient and remainder.
LEMMA DivMod ==
  ASSUME NEW a \in Int, NEW m \in Nat \ {0}
  PROVE  /\ (a \div m) \in Int /\ (a % m) \in 0 .. m - 1
         /\ a = (a \div m) * m + (a % m)
OBVIOUS

\* The remainder of the next number is the next one, or 0 after the last.
LEMMA ModNext ==
  ASSUME NEW a \in Int, NEW m \in Nat \ {0}
  PROVE  (a + 1) % m = IF (a % m) = m - 1 THEN 0 ELSE (a % m) + 1
<1> DEFINE q == a \div m
           r == a % m
<1>1. a = q * m + r /\ q \in Int /\ r \in 0 .. m - 1
  BY DivMod
<1> HIDE DEF q, r
<1>2. CASE r = m - 1
  <2>1. a + 1 = (q + 1) * m + 0
    BY <1>1, <1>2
  <2>2. (a + 1) % m = 0
    BY <2>1, <1>1, ModUnique
  <2> QED
    BY <2>2, <1>2 DEF r
<1>3. CASE r # m - 1
  <2>1. a + 1 = q * m + (r + 1) /\ r + 1 \in 0 .. m - 1
    BY <1>1, <1>3
  <2>2. (a + 1) % m = r + 1
    BY <2>1, <1>1, ModUnique
  <2> QED
    BY <2>2, <1>3 DEF r
<1> QED
  BY <1>2, <1>3

\* A remainder may be taken before or after adding.
LEMMA ModAdd ==
  ASSUME NEW a \in Int, NEW b \in Int, NEW m \in Nat \ {0}
  PROVE  ((a % m) + b) % m = (a + b) % m
<1> DEFINE q == a \div m
           r == a % m
           s == (r + b) \div m
           t == (r + b) % m
<1>1. a = q * m + r /\ q \in Int /\ r \in 0 .. m - 1
  BY DivMod
<1>2. r + b = s * m + t /\ s \in Int /\ t \in 0 .. m - 1
  <2> HIDE DEF r
  <2>1. r + b \in Int
    BY <1>1
  <2> QED
    BY <2>1, DivMod
<1> HIDE DEF q, r, s, t
<1> DEFINE u == q + s
<1>3. a + b = u * m + t /\ u \in Int
  BY <1>1, <1>2
<1> HIDE DEF u
<1>4. (u * m + t) % m = t
  BY <1>2, <1>3, ModUnique
<1> QED
  BY <1>3, <1>4 DEF t, r

\* Of m numbers in a row no two have the same remainder.
LEMMA ModInject ==
  ASSUME NEW m \in Nat \ {0}, NEW x \in Int, NEW y \in Int,
         x - y < m, y - x < m, x % m = y % m
  PROVE  x = y
<1> DEFINE p == x \div m
           q == y \div m
           r == x % m
<1>1. x = p * m + r /\ p \in Int /\ r \in 0 .. m - 1
  BY DivMod
<1>2. y = q * m + r /\ q \in Int
  BY DivMod
<1> HIDE DEF p, q, r
<1>3. x - y = (p - q) * m
  BY <1>1, <1>2
<1>4. CASE p > q
  BY <1>1, <1>2, <1>3, <1>4
<1>5. CASE p < q
  BY <1>1, <1>2, <1>3, <1>5
<1> QED
  BY <1>1, <1>2, <1>4, <1>5
=============================================================================
