-------------------------- MODULE CollectorProgress --------------------------
(***************************************************************************)
(* What the collection must eventually do.  The watch loop of every        *)
(* process runs for ever, and a process holds the fence only for as long   *)
(* as a publish takes, so weak fairness of its own steps is what the code  *)
(* gives.  Failures, deaths and newer credentials end at some unknown      *)
(* moment, after which calm holds.                                         *)
(***************************************************************************)
EXTENDS Collector

VARIABLE calm

progressVars == <<store, lock, fence, profile, sent, told, proc, calm>>

CalmDown == ~calm /\ calm' = TRUE /\ UNCHANGED vars

Troubles ==
  /\ ~calm /\ UNCHANGED calm
  /\ Sync \/ \E c \in Procs : Failure(c) \/ Die(c)

Works(c) == Progress(c) /\ UNCHANGED calm

ProgressInit == Init /\ calm = FALSE

ProgressNext == CalmDown \/ Troubles \/ \E c \in Procs : Works(c)

ProgressSpec ==
  /\ ProgressInit /\ [][ProgressNext]_progressVars
  /\ \A c \in Procs : WF_progressVars(Works(c))

-----------------------------------------------------------------------------
Due(u) == calm /\ store[u].state = "stored"

Delivered(u) == sent[u] = store[u].epoch

NoOldToken(u) == profile[u] \in {0, store[u].epoch}

\* A connection is collected with the token that stays: two processes that
\* skip what the other has locked do not both skip it for ever, and nothing a
\* dead one leaves behind is in the way.
EventuallySent == \A u \in Users : Due(u) ~> Delivered(u)

\* An older token, left on disk by a crash or a failed cleanup, goes away for
\* good as long as its user keeps a connection.
OldTokenGoes == \A u \in Users : Due(u) ~> []NoOldToken(u)

\* docs/per-user-collection.md:135-137: the profile is removed before a login
\* and after a cycle, "so a revoked/replaced token is not resurrected and does
\* not stay on disk" (in Russian there).
RevokedLeavesNoResidue ==
  \A u \in Users :
    calm /\ store[u].state = "revoked" ~> profile[u] = 0
=============================================================================
