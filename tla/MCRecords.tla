----------------------------- MODULE MCRecords ------------------------------
(***************************************************************************)
(* Records with small constants: MCRecords.cfg gives those that are sets   *)
(* and numbers, the definitions here the rest.                             *)
(***************************************************************************)
EXTENDS Records, TLC

CONSTANTS d1, d2, e1, e2, e3

MCOrder == <<d1, d2>>

MCDateOf == e1 :> 1 @@ e2 :> 1 @@ e3 :> 2

\* What swaps install: usage of both days, of the first alone, and of both with less on the first.
MCSnapshots == {e1 :> 1 @@ e3 :> 1, e1 :> 1, e1 :> 0 @@ e3 :> 1, Unsound}

\* What the history is made of: every table of small counters.
MCTables == UNION {[rows -> {0, 1}] : rows \in SUBSET {e1, e2, e3}} \union {Unsound}
=============================================================================
