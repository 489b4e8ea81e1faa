--------------------------- MODULE FreshnessChain ---------------------------
(***************************************************************************)
(* A tenant's database under any sequence of uploads that pass             *)
(* freshness_report, each against the one installed before it.             *)
(***************************************************************************)
EXTENDS Freshness

VARIABLES
  first,   \* the database the sequence starts from
  current  \* the one installed now

chain == <<first, current>>

ChainInit == first \in Snapshots \ {Unreadable} /\ current = first

Install ==
  /\ \E s \in Snapshots : Accepts(s, current) /\ current' = s
  /\ UNCHANGED first

ChainSpec == ChainInit /\ [][Install]_chain

\* The pairwise verdict suffices for the whole history: what was recorded at
\* any time is still there, row by row (snapshot.py:344-347).
ChainCovers == Covers(current, first)

\* A snapshot that can be read passes exactly when it covers the installed
\* one: the shortcuts by the latest day and by emptiness neither let anything
\* through nor refuse anything else (snapshot.py:431-476).
VerdictIsCovering ==
  \A s \in Snapshots \ {Unreadable} : Accepts(s, current) <=> Covers(s, current)

-----------------------------------------------------------------------------
\* What every step keeps: both are tables of usage, and the later covers the
\* earlier.
ChainInv ==
  /\ first \in Snapshots \ {Unreadable} /\ current \in Snapshots \ {Unreadable}
  /\ ChainCovers
=============================================================================
