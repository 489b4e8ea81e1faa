----------------------------- MODULE MCCollector -----------------------------
(* The instances of Collector that are model-checked.                      *)
EXTENDS Collector, TLC

MCSymmetry == Permutations(Procs)
=============================================================================
