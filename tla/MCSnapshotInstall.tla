-------------------------- MODULE MCSnapshotInstall --------------------------
(***************************************************************************)
(* SnapshotInstall instantiated for TLC: rows of two days.  both covers    *)
(* early; neither covers lower or is covered by it.                        *)
(***************************************************************************)
EXTENDS SnapshotInstall, TLC

CONSTANTS day1, day2

MCDateOf == day1 :> 1 @@ day2 :> 2

early == day1 :> 1
both  == day1 :> 1 @@ day2 :> 1
lower == day1 :> 0 @@ day2 :> 1

MCSnapshots == {early, both, lower, Unreadable}

Symmetry == Permutations(Procs) \union Permutations(Files)
=============================================================================
