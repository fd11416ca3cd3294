--------------------------- MODULE NaturalsLemmas ---------------------------
(***************************************************************************)
(* What the proofs of several components need to know of natural numbers:  *)
(* a set of them has a least member, so that a statement about all of them *)
(* can be proved from its least counterexample.                            *)
(***************************************************************************)
EXTENDS Naturals, WellFoundedInduction, TLAPS

(* Every non-empty set of natural numbers has a least member.               *)
LEMMA LeastNatural ==
    ASSUME NEW S \in SUBSET Nat, S # {}
    PROVE  \E m \in S : \A s \in S : m <= s
<1> DEFINE Less == OpToRel(<, Nat)
<1>1. \A x, y \in Nat : x < y => <<x, y>> \in Less
  BY Zenon DEF OpToRel
<1>2. IsWellFoundedOn(Less, Nat)
  BY NatLessThanWellFounded, Zenon DEF Less
<1> HIDE DEF Less
<1>3. PICK m \in S : \A s \in S : ~(<<s, m>> \in Less)
  BY <1>2, WFMin
<1>4. \A s \in S : ~(s < m)
  BY <1>1, <1>3
<1>5. \A s \in S : m <= s
  BY <1>4
<1> QED
  BY <1>5
=============================================================================
