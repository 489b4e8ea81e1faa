----------------------------- MODULE Supervisor -----------------------------
(***************************************************************************)
(* The supervisor of the local runtime (supervisor.py): one loop polls its *)
(* contours, restarts the dead after a backoff, gives up on a crash loop,  *)
(* and terminates everything when it stops.  launchd starts it again.      *)
(* A run may also end without stop(): by a kill, or because a contour      *)
(* cannot be spawned; the contours it started, in sessions of their own,   *)
(* live on.                                                                *)
(*                                                                         *)
(* Time is relative: restart times are ages, and restart_at is the time    *)
(* still to wait.  A contour may leave a subprocess of its own behind when *)
(* it dies (the CLI of a collector), and may take a SIGTERM or ignore it.  *)
(***************************************************************************)
EXTENDS Naturals, Sequences, SequencesExt

CONSTANTS N,            \* contours are 1..N, in the order of the list
          MaxRestarts,  \* max_restarts
          Window,       \* restart_window
          Base, Cap,    \* backoff_base and backoff_cap
          MaxUnclean,   \* how many runs of the supervisor end without stop()
          Helpers       \* whether a contour may leave a subprocess behind

SupervisorAssumption ==
    /\ N \in Nat \ {0} /\ MaxRestarts \in Nat /\ Window \in Nat
    /\ Base \in Nat /\ Cap \in Nat \ {0} /\ MaxUnclean \in Nat
    /\ Helpers \in BOOLEAN

VARIABLES
    phase,     \* down, starting, polling, sleeping, stopping
    at,        \* the contour the current pass is at
    stop,      \* _stopping: set by a signal, or by stop()
    proc,      \* contour -> none, run, dead (exited, not yet polled)
    due,       \* contour -> restart_at - now
    restarts,  \* contour -> ages of its recent restarts, oldest first
    procs,     \* contour -> live processes, those of dead supervisors included
    helper,    \* contour -> a subprocess whose contour process has exited
    unclean,   \* how many runs ended without stop()
    exit       \* how the last run ended: none, 0, 3 (crash loop), error, killed

supVars == <<phase, at, stop, proc, due, restarts, procs, helper, unclean, exit>>

Contours == 1..N
Smaller(a, b) == IF a < b THEN a ELSE b

SupInit ==
    /\ phase = "down" /\ at = 1 /\ stop = FALSE
    /\ proc = [c \in Contours |-> "none"]
    /\ due = [c \in Contours |-> 0]
    /\ restarts = [c \in Contours |-> <<>>]
    /\ procs = [c \in Contours |-> 0]
    /\ helper = [c \in Contours |-> FALSE]
    /\ unclean = 0 /\ exit = "none"

\* _spawn_child, when it returns.
Spawn(c) ==
    /\ proc' = [proc EXCEPT ![c] = "run"]
    /\ procs' = [procs EXCEPT ![c] = @ + 1]

\* A run that ends without stop(): nobody terminates the children.
EndsUnclean(how) ==
    /\ unclean < MaxUnclean /\ unclean' = unclean + 1
    /\ phase' = "down" /\ exit' = how
    /\ UNCHANGED <<at, stop, proc, due, procs, helper>>

\* launchd starts the job; start() takes the lock, which a dead supervisor no
\* longer holds, and spawns the contours one by one.
Launch ==
    /\ phase = "down"
    /\ phase' = "starting" /\ at' = 1 /\ stop' = FALSE /\ exit' = "none"
    /\ proc' = [c \in Contours |-> "none"]
    /\ due' = [c \in Contours |-> 0]
    /\ restarts' = [c \in Contours |-> <<>>]
    /\ UNCHANGED <<procs, helper, unclean>>

StartOne ==
    /\ phase = "starting" /\ at <= N
    /\ Spawn(at)
    /\ at' = at + 1
    /\ UNCHANGED <<phase, stop, due, restarts, helper, unclean, exit>>

\* run(): the loop tests _stopping before every pass.
LoopTest == phase' = (IF stop THEN "stopping" ELSE "polling") /\ at' = 1

Started ==
    /\ phase = "starting" /\ at > N
    /\ LoopTest
    /\ UNCHANGED <<stop, proc, due, restarts, procs, helper, unclean, exit>>

\* _respawn forgets the restarts that have left the window.
InWindow(c) == SelectSeq(restarts[c], LAMBDA age : age <= Window)

\* _backoff_for counts restarts that are not pruned before the next respawn.
Backoff(c) == Smaller(Cap, Base * 2 ^ Len(restarts[c]))

\* The pass finds a contour exited, and schedules its restart.
FindDead(c) ==
    /\ proc[c] = "dead"
    /\ proc' = [proc EXCEPT ![c] = "none"]
    /\ due' = IF stop THEN due ELSE [due EXCEPT ![c] = Backoff(c)]
    /\ UNCHANGED <<restarts, procs>>

\* The backoff of an exited contour is over.
IsDue(c) == proc[c] = "none" /\ due[c] = 0 /\ ~stop

RespawnLater(c) ==
    /\ IsDue(c) /\ Len(InWindow(c)) < MaxRestarts
    /\ due' = [due EXCEPT ![c] = Backoff(c)]
    /\ UNCHANGED <<proc, restarts, procs>>

\* Respawn, within the budget of the window.
Respawn(c) ==
    /\ IsDue(c) /\ Len(InWindow(c)) < MaxRestarts
    /\ restarts' = [restarts EXCEPT ![c] = Append(InWindow(c), 0)]
    /\ Spawn(c)
    /\ UNCHANGED due

NothingToDo(c) ==
    /\ \/ proc[c] = "run"
       \/ proc[c] = "none" /\ (stop \/ due[c] > 0)
    /\ UNCHANGED <<proc, due, restarts, procs>>

\* One contour of the pass of poll_once.
PollOne ==
    /\ phase = "polling" /\ at <= N
    /\ FindDead(at) \/ Respawn(at) \/ NothingToDo(at)
    /\ at' = at + 1
    /\ UNCHANGED <<phase, stop, helper, unclean, exit>>

\* One restart too many inside the window: CrashLoop leaves the pass for stop().
CrashLoop ==
    /\ phase = "polling" /\ at <= N
    /\ IsDue(at) /\ Len(InWindow(at)) >= MaxRestarts
    /\ restarts' = [restarts EXCEPT ![at] = Append(InWindow(at), 0)]
    /\ phase' = "stopping" /\ stop' = TRUE /\ at' = 1 /\ exit' = "3"
    /\ UNCHANGED <<proc, due, procs, helper, unclean>>

\* _spawn_child raises OSError, at the first start or at a restart: run()
\* catches only CrashLoop, and the process ends with its lock.
SpawnFails ==
    /\ at <= N
    /\ \/ phase = "starting" /\ UNCHANGED restarts
       \/ /\ phase = "polling" /\ IsDue(at) /\ Len(InWindow(at)) < MaxRestarts
          /\ restarts' = [restarts EXCEPT ![at] = Append(InWindow(at), 0)]
    /\ EndsUnclean("error")

EndPass ==
    /\ phase = "polling" /\ at > N
    /\ phase' = "sleeping"
    /\ UNCHANGED <<at, stop, proc, due, restarts, procs, helper, unclean, exit>>

TerminateAndHope ==
    /\ phase = "stopping" /\ at <= N
    /\ \E obeys \in BOOLEAN : procs' =
         IF proc[at] = "run" /\ obeys THEN [procs EXCEPT ![at] = @ - 1] ELSE procs
    /\ proc' = [proc EXCEPT ![at] = "none"]
    /\ at' = at + 1
    /\ UNCHANGED <<phase, stop, due, restarts, helper, unclean, exit>>

\* A child found exited before it was signalled is only closed: its group is
\* not signalled.  A running one gets SIGTERM and, after the grace period,
\* SIGKILL, with its whole group.
TerminateOne ==
    /\ phase = "stopping" /\ at <= N
    /\ procs' = IF proc[at] = "run" THEN [procs EXCEPT ![at] = @ - 1] ELSE procs
    /\ proc' = [proc EXCEPT ![at] = "none"]
    /\ at' = at + 1
    /\ UNCHANGED <<phase, stop, due, restarts, helper, unclean, exit>>

\* stop() ends, the lock is released and the process returns.
Exit ==
    /\ phase = "stopping" /\ at > N
    /\ phase' = "down"
    /\ exit' = IF exit = "3" THEN "3" ELSE "0"
    /\ UNCHANGED <<at, stop, proc, due, restarts, procs, helper, unclean>>

\* SIGTERM or SIGINT at any time while it runs.
Signal ==
    /\ phase # "down" /\ ~stop
    /\ stop' = TRUE
    /\ UNCHANGED <<phase, at, proc, due, restarts, procs, helper, unclean, exit>>

\* SIGKILL of the supervisor alone.
Killed == phase # "down" /\ EndsUnclean("killed") /\ UNCHANGED restarts

\* A contour exits by itself, perhaps with a subprocess of its group alive.
Dies(c) ==
    /\ phase # "down" /\ proc[c] = "run"
    /\ proc' = [proc EXCEPT ![c] = "dead"]
    /\ procs' = [procs EXCEPT ![c] = @ - 1]
    /\ \E left \in {FALSE, Helpers} : helper' = [helper EXCEPT ![c] = @ \/ left]
    /\ UNCHANGED <<phase, at, stop, due, restarts, unclean, exit>>

\* What a run has started and not yet seen exit.
Own(c) == IF proc[c] = "run" /\ phase # "down" THEN 1 ELSE 0

\* So does a contour that outlived its supervisor.
OrphanDies(c) ==
    /\ procs[c] > Own(c)
    /\ procs' = [procs EXCEPT ![c] = @ - 1]
    /\ UNCHANGED <<phase, at, stop, proc, due, restarts, helper, unclean, exit>>

HelperEnds(c) ==
    /\ helper[c]
    /\ helper' = [helper EXCEPT ![c] = FALSE]
    /\ UNCHANGED <<phase, at, stop, proc, due, restarts, procs, unclean, exit>>

Older(s) == [i \in DOMAIN s |-> IF s[i] > Window THEN s[i] ELSE s[i] + 1]

TickUnasked ==
    /\ phase = "sleeping"
    /\ due' = [c \in Contours |-> IF due[c] > 0 THEN due[c] - 1 ELSE 0]
    /\ restarts' = [c \in Contours |-> Older(restarts[c])]
    /\ phase' = "polling" /\ at' = 1
    /\ UNCHANGED <<stop, proc, procs, helper, unclean, exit>>

\* The loop sleeps: one poll interval passes, the unit of time.
Tick ==
    /\ phase = "sleeping"
    /\ due' = [c \in Contours |-> IF due[c] > 0 THEN due[c] - 1 ELSE 0]
    /\ restarts' = [c \in Contours |-> Older(restarts[c])]
    /\ LoopTest
    /\ UNCHANGED <<stop, proc, procs, helper, unclean, exit>>

Run ==
    StartOne \/ Started \/ PollOne \/ CrashLoop \/ EndPass \/ TerminateOne
    \/ Exit \/ Tick

SupNext ==
    \/ Launch \/ Run \/ Signal \/ Killed \/ SpawnFails
    \/ \E c \in Contours : Dies(c) \/ OrphanDies(c) \/ HelperEnds(c)

\* The loop is one thread that never blocks for good: every wait it makes has a
\* timeout.  Nothing is assumed of launchd, of signals or of the contours.
SupSpec == SupInit /\ [][SupNext]_supVars /\ WF_supVars(Run)

-----------------------------------------------------------------------------
SupTypeOK ==
    /\ phase \in {"down", "starting", "polling", "sleeping", "stopping"}
    /\ at \in 1..(N + 1) /\ stop \in BOOLEAN
    /\ proc \in [Contours -> {"none", "run", "dead"}]
    /\ due \in [Contours -> 0..Cap]
    /\ \A c \in Contours : Len(restarts[c]) <= MaxRestarts + 1
    /\ procs \in [Contours -> Nat] /\ helper \in [Contours -> BOOLEAN]
    /\ unclean \in 0..MaxUnclean /\ exit \in {"none", "0", "3", "error", "killed"}

\* A supervisor has at most one process of each contour, and leaves none behind
\* when it stops, also for a crash loop: whatever order starts, exits, signals
\* and relaunches come in, all the processes of a contour but one, and all of
\* them while no supervisor runs, are left by runs that ended without stop(),
\* at most one by each (stop, _terminate, SingleInstanceLock).
OneInstance ==
    \A c \in Contours : procs[c] <= unclean + (IF phase = "down" THEN 0 ELSE 1)

Dead(c) == proc[c] = "dead"
Revived(c) == proc[c] = "run" \/ stop \/ phase = "down"
Ending == stop
Ended == phase = "down"

\* A contour that dies runs again, or the supervisor is stopping (poll_once).
Restarted == \A c \in Contours : Dead(c) ~> Revived(c)

\* A signal or a crash loop, at whatever point of the pass it comes, ends the
\* supervisor (run, stop).
StopEnds == Ending ~> Ended

\* VIOLATED.  "A single-instance flock guarantees a second supervisor can never
\* double-run the contours" (supervisor.py): a contour that cannot be spawned
\* ends the first supervisor, and its lock, but not the contours it started.
NeverDoubled == \A c \in Contours : procs[c] <= 1

\* VIOLATED.  What the module says of stop(): no subprocess of a contour is left.
NoOrphanedHelper ==
    phase = "down" /\ exit \in {"0", "3"} => \A c \in Contours : ~helper[c]

-----------------------------------------------------------------------------
(* The inductive invariant behind OneInstance.                             *)

\* Beyond those left by earlier runs a contour has the process its supervisor
\* has in proc; and what it has in proc is where the pass has been: started
\* before at while it starts, terminated before at while it stops.
Accounted ==
    /\ \A c \in Contours : procs[c] \in Own(c)..(unclean + Own(c))
    /\ phase = "starting" => \A c \in Contours : c >= at => proc[c] # "run"
    /\ phase = "stopping" => \A c \in Contours : c < at => proc[c] # "run"

SupInv ==
    /\ at \in 1..(N + 1) /\ unclean \in Nat
    /\ proc \in [Contours -> {"none", "run", "dead"}]
    /\ procs \in [Contours -> Nat]
    /\ Accounted

-----------------------------------------------------------------------------
(* A contour that exits within a poll interval of each start, and nothing     *)
(* else happening.                                                            *)

LoopingNext ==
    \/ Launch /\ exit = "none"
    \/ Run /\ ~(phase = "polling" /\ at <= N /\ proc[at] = "run")
    \/ \E c \in Contours : Dies(c)

LoopingSpec == SupInit /\ [][LoopingNext]_supVars /\ WF_supVars(LoopingNext)

\* VIOLATED with the defaults.  "A contour that crash-loops (too many restarts
\* inside a short window) makes the supervisor fail fast" (supervisor.py): the
\* backoff grows so fast that the restarts no longer fit into the window.
FailsFast == <>(exit = "3")
=============================================================================
