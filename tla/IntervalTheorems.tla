-------------------------- MODULE IntervalTheorems --------------------------
(***************************************************************************)
(* The greatest and the least of some integers that lie between two others, *)
(* as Max and Min choose them.                                             *)
(***************************************************************************)
EXTENDS Integers, FiniteSetsExt, WellFoundedInduction, TLAPS

\* Some integers between two others have a least one.
LEMMA LeastExists ==
    ASSUME NEW a \in Int, NEW b \in Int, NEW S \in SUBSET (a .. b), S # {}
    PROVE  \E x \in S : \A y \in S : x <= y
<1> DEFINE T == {n \in Nat : a + n \in S}
<1>1. PICK z \in S : TRUE
  OBVIOUS
<1>2. z - a \in T
  BY <1>1
<1> DEFINE R == {p \in Nat \X Nat : p[1] < p[2]}
<1>3. IsWellFoundedOn(R, Nat)
  BY NatLessThanWellFounded, Zenon DEF OpToRel
<1>4. PICK x \in T : \A y \in T : ~ (<<y, x>> \in R)
  <2>1. T \subseteq Nat /\ T # {}
    BY <1>2
  <2> HIDE DEF T, R
  <2> QED BY <1>3, <2>1, WFMin
<1>5. ASSUME NEW y \in S PROVE a + x <= y
  <2>1. y - a \in T
    BY <1>4, <1>5
  <2>2. y - a \in Nat /\ x \in Nat
    BY <2>1, <1>4
  <2>3. ~ (<<y - a, x>> \in R)
    BY <2>1, <1>4
  <2>4. ~ (y - a < x)
    BY <2>2, <2>3
  <2> QED BY <2>2, <2>4, <1>5
<1>6. a + x \in S
  BY <1>4
<1> QED BY <1>5, <1>6

\* Min is the least of them.
LEMMA MinOf ==
    ASSUME NEW a \in Int, NEW b \in Int, NEW S \in SUBSET (a .. b), S # {}
    PROVE  Min(S) \in S /\ \A y \in S : Min(S) <= y
<1>1. \E x \in S : \A y \in S : x <= y
  BY LeastExists
<1> QED BY <1>1 DEF Min

\* Max is the greatest of them.
LEMMA MaxOf ==
    ASSUME NEW a \in Int, NEW b \in Int, NEW S \in SUBSET (a .. b), S # {}
    PROVE  Max(S) \in S /\ \A y \in S : Max(S) >= y
<1> DEFINE T == {n \in -b .. -a : -n \in S}
<1>1. PICK z \in S : TRUE
  OBVIOUS
<1>2. -z \in T
  BY <1>1
<1>3. PICK m \in T : \A y \in T : m <= y
  <2>1. T \in SUBSET (-b .. -a) /\ T # {}
    BY <1>2
  <2>2. -b \in Int /\ -a \in Int
    OBVIOUS
  <2> HIDE DEF T
  <2> QED BY <2>1, <2>2, LeastExists
<1>4. ASSUME NEW y \in S PROVE -m >= y
  <2>1. -y \in T
    BY <1>4
  <2> QED BY <2>1, <1>3
<1>5. -m \in S
  BY <1>3
<1>6. \E x \in S : \A y \in S : x >= y
  BY <1>4, <1>5
<1> QED BY <1>6 DEF Max

\* The greater of two integers.
LEMMA MaxOfTwo ==
    ASSUME NEW a \in Int, NEW b \in Int
    PROVE  Max({a, b}) = IF a >= b THEN a ELSE b
<1>1. \E x \in {a, b} : \A y \in {a, b} : x >= y
  <2>1. a >= b \/ b >= a
    OBVIOUS
  <2> QED BY <2>1
<1>2. Max({a, b}) \in {a, b} /\ \A y \in {a, b} : Max({a, b}) >= y
  BY <1>1 DEF Max
<1> QED BY <1>2

\* The lesser of two integers.
LEMMA MinOfTwo ==
    ASSUME NEW a \in Int, NEW b \in Int
    PROVE  Min({a, b}) = IF a <= b THEN a ELSE b
<1>1. \E x \in {a, b} : \A y \in {a, b} : x <= y
  <2>1. a <= b \/ b <= a
    OBVIOUS
  <2> QED BY <2>1
<1>2. Min({a, b}) \in {a, b} /\ \A y \in {a, b} : Min({a, b}) <= y
  BY <1>1 DEF Min
<1> QED BY <1>2
=============================================================================
