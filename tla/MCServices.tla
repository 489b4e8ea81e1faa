----------------------------- MODULE MCServices -----------------------------
(***************************************************************************)
(* The processes that run for ever - collector, supervisor, poller,        *)
(* publisher, and the clients of the login throttle - in one instance.     *)
(* They share no state, so an interleaving of two of them shows nothing    *)
(* that each alone does not: an initial state chooses one of them in part, *)
(* and the slots v1, v2, ... hold the variables of its module in the order *)
(* of their declaration.                                                   *)
(***************************************************************************)
EXTENDS Naturals, Sequences

CONSTANTS u1, c1, c2, NoUser, NoProc, i1, i2, Unlimited, None, r1, r2, r3

VARIABLES
    part,  \* the part a behaviour is of
    v1, v2, v3, v4, v5, v6, v7, v8, v9, v10, v11, v12, v13, v14, v15, v16, v17,
    v18, v19, v20

\* One user, two collector processes, three credentials.
CO == INSTANCE CollectorProgress WITH Users <- {u1}, Procs <- {c1, c2},
    MaxEpoch <- 2, store <- v1, lock <- v2, fence <- v3, profile <- v4,
    sent <- v5, told <- v6, proc <- v7, calm <- v8

\* Two contours, one restart within three poll intervals.
SU == INSTANCE Supervisor WITH N <- 2, MaxRestarts <- 1, Window <- 3,
    Base <- 1, Cap <- 2, MaxUnclean <- 1, Helpers <- TRUE, phase <- v1,
    at <- v2, stop <- v3, proc <- v4, due <- v5, restarts <- v6, procs <- v7,
    helper <- v8, unclean <- v9, exit <- v10

\* Two issues on two pages of the list.
PO == INSTANCE Poller WITH Issues <- {i1, i2}, PageLimit <- 1, Budget <- 2,
    MaxClock <- 2, MaxErrors <- 1, MaxOverruns <- 1, clock <- v1,
    updated <- v2, run <- v3, usage <- v4, daily <- v5, lUpdated <- v6,
    lRun <- v7, lUsage <- v8, lDaily <- v9, syncedFor <- v10, failing <- v11,
    src <- v12, got <- v13, page <- v14, pending <- v15, first <- v16,
    fetched <- v17, covered <- v18, errors <- v19, overruns <- v20

\* Two commits of the poller, two losses.
PU == INSTANCE Publish WITH MaxData <- 2, MaxIdle <- 1, MaxLosses <- 2,
    data <- v1, marker <- v2, told <- v3, idle <- v4, at <- v5, last <- v6,
    held <- v7, snap <- v8, host <- v9, sentAt <- v10, losses <- v11

\* Three requests of one address at a time, two failures allowed.
TH == INSTANCE LoginThrottle WITH Requests <- {r1, r2, r3}, MaxFailures <- 2,
    Window <- 3, Lock <- 3, row <- v1, at <- v2, wrong <- v3, tries <- v4

\* Slots a part has no use for.
Free11 == <<v12, v13, v14, v15, v16, v17, v18, v19, v20>>
Zero11 == v12 = 0 /\ v13 = 0 /\ v14 = 0 /\ v15 = 0 /\ v16 = 0 /\ v17 = 0 /\ v18 = 0 /\ v19 = 0 /\ v20 = 0
Free10 == <<v11, Free11>>
Zero10 == v11 = 0 /\ Zero11
Free8 == <<v9, v10, Free10>>
Zero8 == v9 = 0 /\ v10 = 0 /\ Zero10
Free4 == <<v5, v6, v7, v8, Free8>>
Zero4 == v5 = 0 /\ v6 = 0 /\ v7 = 0 /\ v8 = 0 /\ Zero8

slots == <<part, v1, v2, v3, v4, v5, v6, v7, v8, v9, v10, v11, v12, v13, v14,
    v15, v16, v17, v18, v19, v20>>

PartsInit ==
    \/ part = "collector" /\ CO!ProgressInit /\ Zero8
    \/ part = "supervisor" /\ SU!SupInit /\ Zero10
    \/ part = "poller" /\ PO!PolInit
    \/ part = "publisher" /\ PU!PubInit /\ Zero11
    \/ part = "throttle" /\ TH!ThrInit /\ Zero4

PartsNext ==
    /\ UNCHANGED part
    /\ \/ part = "collector" /\ CO!ProgressNext /\ UNCHANGED Free8
       \/ part = "supervisor" /\ SU!SupNext /\ UNCHANGED Free10
       \/ part = "poller" /\ PO!PolNext
       \/ part = "publisher" /\ PU!PubNext /\ UNCHANGED Free11
       \/ part = "throttle" /\ TH!ThrNext /\ UNCHANGED Free4

\* The fairness each part's module states, for the part that runs.
Step(p, A, unused) == part = p /\ A /\ UNCHANGED <<part, unused>>

PartsSpec ==
    /\ PartsInit /\ [][PartsNext]_slots
    /\ \A c \in {c1, c2} : WF_slots(Step("collector", CO!Works(c), Free8))
    /\ WF_slots(Step("supervisor", SU!Run, Free10))
    /\ WF_slots(Step("poller", PO!Works, <<>>))
    /\ \A i \in {i1, i2} : WF_slots(Step("poller", PO!FinishRun(i), <<>>))
    /\ WF_slots(Step("publisher", PU!Beat, Free11))
    /\ WF_slots(Step("publisher", PU!Second, Free11))
    /\ WF_slots(Step("publisher", PU!Sleep, Free11))
    /\ WF_slots(Step("publisher", PU!Looks, Free11))
    /\ WF_slots(Step("publisher", PU!Snapshot, Free11))
    /\ WF_slots(Step("publisher", PU!Sends, Free11))
    /\ WF_slots(Step("publisher", PU!Answers, Free11))
    /\ WF_slots(Step("throttle", TH!Tick, Free4))

-----------------------------------------------------------------------------
\* F, which speaks of part p, in a behaviour of that part.
Of(p, F) == part = p /\ F

\* A connection is collected with the token that stays: two processes that
\* skip what the other has locked do not both skip it for ever, and nothing a
\* dead one leaves behind is in the way (multi_collector.py).
EventuallySent == Of("collector", CO!Due(u1)) ~> Of("collector", CO!Delivered(u1))

\* An older token, left on disk by a crash or a failed cleanup, goes away for
\* good as long as its user keeps a connection (cli_profile.py).
OldTokenGoes == Of("collector", CO!Due(u1)) ~> [](Of("collector", CO!NoOldToken(u1)))

\* A contour that dies runs again, or the supervisor is stopping; and a stop,
\* at whatever point of the pass it comes, ends (poll_once, stop).
Restarted ==
    /\ \A c \in SU!Contours : Of("supervisor", SU!Dead(c)) ~> Of("supervisor", SU!Revived(c))
    /\ Of("supervisor", SU!Ending) ~> Of("supervisor", SU!Ended)

\* Once Multica is quiet the poller catches up with it: issues skipped by a
\* page boundary, deferred by a deadline or failed are all synchronised; and
\* once the poller is, the host ends up with its newest data, however answers
\* are lost and processes restarted (run_cycle, watch).
CatchesUp ==
    /\ []<>(part = "poller" => PO!CaughtUp)
    /\ <>[](part = "publisher" => PU!HostCurrent)

\* A client that keeps trying while it is locked out does not prolong the lock
\* (_login_retry_after).
LockEnds == Of("throttle", TH!Locked) ~> Of("throttle", ~TH!Locked)

-----------------------------------------------------------------------------
\* What the parts assume of their constants.
ASSUME PartsAssumption ==
    /\ SU!SupervisorAssumption
    /\ PO!PollerAssumption
    /\ PU!PublishAssumption
    /\ TH!ThrottleAssumption
=============================================================================
