---------------------------- MODULE MCGovernance ----------------------------
(* Drafts and requests are interchangeable. *)
EXTENDS Governance, TLC

Symmetric == Permutations(Drafts) \cup Permutations(Requests)
=============================================================================
