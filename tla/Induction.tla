------------------------------- MODULE Induction -------------------------------
(***************************************************************************)
(* Induction over 0..n, and over what is recursive on it, with the set of  *)
(* the numbers that have a property in the place of the property.          *)
(***************************************************************************)
EXTENDS Integers, WellFoundedInduction, TLAPS

(* Every set of naturals has a least one, unless it is empty.              *)
LEMMA LeastNatural ==
    ASSUME NEW T \in SUBSET Nat, T # {}
    PROVE  \E n \in T : \A m \in T : n <= m
  <1>1. \E n \in T : \A m \in T : <<m, n>> \notin OpToRel(<, Nat)
    BY NatLessThanWellFounded, WFMin
  <1>2. PICK n \in T : \A m \in T : <<m, n>> \notin OpToRel(<, Nat)
    BY <1>1
  <1>3. \A m \in T : ~(m < n)
    BY <1>2 DEF OpToRel
  <1>. QED  BY <1>3

(* What holds for 0, and for each number whose predecessor it holds for,   *)
(* holds up to n.                                                          *)
THEOREM InductionUpTo ==
    ASSUME NEW n \in Nat, NEW T \in SUBSET (0..n), 0 \in T,
           \A i \in 1..n : i - 1 \in T => i \in T
    PROVE  T = 0..n
  <1>. SUFFICES ASSUME T # 0..n PROVE FALSE
    OBVIOUS
  <1>. DEFINE all == 0..n
              rest == all \ T
  <1>1. \E k \in all : k \notin T
    <2>. HIDE DEF all
    <2>. QED  BY DEF all
  <1>2. PICK k \in rest : \A m \in rest : k <= m
    <2>1. rest # {} /\ rest \in SUBSET Nat
      BY <1>1
    <2>. HIDE DEF rest
    <2>. QED  BY <2>1, LeastNatural
  <1>3. k \in 0..n /\ k # 0 /\ k \notin T
    BY <1>2 DEF rest
  <1>4. k - 1 \in T
    BY <1>2, <1>3 DEF rest
  <1>. QED  BY <1>3, <1>4

=============================================================================
