------------------------------ MODULE NumberLemmas ------------------------------
(***************************************************************************)
(* Least and greatest elements of sets of numbers, for the proofs.         *)
(***************************************************************************)
EXTENDS Integers, FiniteSetsExt, WellFoundedInduction, TLAPS

(* A set of numbers has a least one.                                       *)
LEMMA MinOfNumbers ==
  ASSUME NEW S \in SUBSET Nat, S # {}
  PROVE  Min(S) \in S /\ \A n \in S : Min(S) <= n
<1>1. \E x \in S : \A y \in S : ~(<<y, x>> \in OpToRel(<, Nat))
  BY NatLessThanWellFounded, WFMin
<1>2. PICK x \in S : \A y \in S : ~(<<y, x>> \in OpToRel(<, Nat))
  BY <1>1
<1>3. \A y \in S : x <= y
  <2>1. SUFFICES ASSUME NEW y \in S, ~(x <= y) PROVE FALSE
    OBVIOUS
  <2>2. y < x /\ y \in Nat /\ x \in Nat
    BY <2>1
  <2>3. <<y, x>> \in OpToRel(<, Nat)
    BY <2>2 DEF OpToRel
  <2> QED BY <1>2, <2>3
<1> QED BY <1>3 DEF Min

(* A set of numbers that is bounded has a greatest one.                    *)
LEMMA MaxOfNumbers ==
  ASSUME NEW S \in SUBSET Nat, S # {}, NEW b \in Nat, \A n \in S : n <= b
  PROVE  Max(S) \in S /\ \A n \in S : Max(S) >= n
<1> DEFINE Bounds == {m \in Nat : \A n \in S : n <= m}
<1>1. Bounds \in SUBSET Nat /\ b \in Bounds
  OBVIOUS
<1>2. Min(Bounds) \in Bounds /\ \A m \in Bounds : Min(Bounds) <= m
  <2> HIDE DEF Bounds
  <2> QED BY <1>1, MinOfNumbers
<1>3. PICK m \in Nat : /\ \A n \in S : n <= m
                       /\ \A k \in Nat : (\A n \in S : n <= k) => m <= k
  BY <1>2
<1>4. m \in S
  <2>1. SUFFICES ASSUME m \notin S PROVE FALSE
    OBVIOUS
  <2>2. \A n \in S : n \in Nat /\ n < m
    BY <1>3, <2>1
  <2>3. m - 1 \in Nat
    <3>1. PICK n \in S : n \in Nat /\ n < m
      BY <2>2
    <3> QED BY <3>1
  <2>4. \A n \in S : n <= m - 1
    BY <2>2
  <2> QED BY <1>3, <2>3, <2>4
<1>5. \A n \in S : m >= n
  BY <1>3
<1> QED BY <1>4, <1>5 DEF Max

=============================================================================
