------------------------------ MODULE MCHandoff ------------------------------
(***************************************************************************)
(* Handoff instantiated for TLC.                                           *)
(***************************************************************************)
EXTENDS Handoff, TLC

Symmetry == Permutations(Users) \union Permutations(Cycles) \union Permutations(Leases)
=============================================================================
