------------------------------- MODULE Minima -------------------------------
(* Facts about least and greatest elements that the other proofs rest on. *)
EXTENDS Integers, FiniteSetsExt, WellFoundedInduction, TLAPS

\* Min of a non-empty set of naturals is its least element: what a search that
\* starts at the smallest index finds.
LEMMA MinOfNats ==
    ASSUME NEW S, S \subseteq Nat, S # {}
    PROVE  Min(S) \in S /\ \A x \in S : Min(S) <= x
<1> DEFINE R == OpToRel(<, Nat)
<1>1. IsWellFoundedOn(R, Nat)
  BY NatLessThanWellFounded
<1>2. PICK x \in S : \A y \in S : ~ (<<y, x>> \in R)
  <2> HIDE DEF R
  <2> QED BY <1>1, WFMin, Zenon
<1>3. ASSUME NEW y \in S PROVE x <= y
  <2>1. <<y, x>> \in Nat \X Nat
    OBVIOUS
  <2>2. ~ (y < x)
    BY <1>2, <2>1 DEF OpToRel
  <2>3. QED
    BY <2>2
<1>4. QED
  BY <1>3 DEF Min

\* Max of a non-empty bounded set of naturals is its greatest element.
LEMMA MaxOfBounded ==
    ASSUME NEW S, NEW n \in Nat, S # {}, \A x \in S : x \in Nat /\ x <= n
    PROVE  Max(S) \in S /\ \A x \in S : x <= Max(S)
<1> DEFINE T == {n - x : x \in S}
<1>1. T \subseteq Nat /\ T # {}
  OBVIOUS
<1>2. Min(T) \in T /\ \A y \in T : Min(T) <= y
  BY <1>1, MinOfNats
<1>3. PICK x \in S : Min(T) = n - x
  BY <1>2
<1>4. ASSUME NEW y \in S PROVE y <= x
  <2>1. n - y \in T
    OBVIOUS
  <2>2. n - x <= n - y
    BY <1>2, <1>3, <2>1
  <2>3. QED
    BY <2>2
<1>5. QED
  BY <1>4 DEF Max

\* An element that is above all the others is the greatest.
LEMMA MaxIs ==
    ASSUME NEW S, NEW n \in Nat, n \in S, \A x \in S : x \in Nat /\ x <= n
    PROVE  Max(S) = n
<1>1. Max(S) \in S /\ \A x \in S : x <= Max(S)
  BY MaxOfBounded
<1>2. PICK m \in Nat : m = Max(S) /\ m <= n /\ n <= m
  BY <1>1
<1> QED BY <1>2
=============================================================================
