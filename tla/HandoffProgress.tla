--------------------------- MODULE HandoffProgress ---------------------------
(***************************************************************************)
(* Progress of the hand-off.  Failures may be as many as they like, but at *)
(* some time the network, the disks and the processes hold for good: from  *)
(* then on `stable` is TRUE and no FailureStep happens.  Every obligation  *)
(* left open by earlier failures has to be met after that.                 *)
(***************************************************************************)
EXTENDS Handoff

VARIABLE stable

pvars == <<vars, stable>>

PInit == Init /\ stable = FALSE

Stabilise == ~ stable /\ stable' = TRUE /\ UNCHANGED vars

PNext ==
  \/ RegularStep /\ UNCHANGED stable
  \/ ~ stable /\ FailureStep /\ UNCHANGED stable
  \/ Stabilise

TimePasses == Tick /\ UNCHANGED stable

Goes(c) == CycleStep(c) /\ UNCHANGED stable

\* worker_sync.watch repeats pull_once for ever, the supervisor restarts it
\* when it dies, and time passes.  Nothing is assumed of the users.
PFairness ==
  /\ WF_pvars(Stabilise)
  /\ WF_pvars(TimePasses)
  /\ \A c \in Cycles : WF_pvars(Goes(c))

PSpec == PInit /\ [][PNext]_pvars /\ PFairness

OnHost(u) == host[u].token
Unconfirmed(u) == host[u].status = "revocation_pending"

\* The plaintext always leaves the host, by an ack or by the expiry sweep,
\* whatever the users and the failures do (handoff.py:216-223).
TokenLeavesHost == \A u \in Users : OnHost(u) ~> ~ OnHost(u)

\* A revocation is confirmed in the end, or superseded by a new token: what
\* the worker has not confirmed the next pull lists again
\* (handoff.py:617-629).
RevocationConfirmed == \A u \in Users : Unconfirmed(u) ~> ~ Unconfirmed(u)
=============================================================================
