------------------------------- MODULE Poller -------------------------------
(***************************************************************************)
(* poller.py over store.py: one poll cycle after the other against a       *)
(* Multica that changes while it is read.  Server times come from one      *)
(* clock that every remote event advances.  An issue's usage accrues while *)
(* its run is active, for the last time when the run ends.                 *)
(***************************************************************************)
EXTENDS Integers, Sequences, FiniteSets, FiniteSetsExt

CONSTANTS Issues,      \* of one project, whose one agent runs them
          PageLimit,   \* issue_page_limit
          Budget,      \* detail_budget
          Unlimited,
          MaxClock, MaxErrors, MaxOverruns  \* bounds of the model

PollerAssumption ==
    /\ IsFiniteSet(Issues) /\ PageLimit \in Nat \ {0} /\ Budget \in Nat \ {0}
    /\ MaxClock \in Nat /\ MaxErrors \in Nat
    /\ MaxOverruns \in Nat \cup {Unlimited}

VARIABLES
    clock,
    updated, run, usage, daily,      \* the remote side
    lUpdated, lRun, lUsage, lDaily,  \* issues, runs, issue_usage, daily_usage
    syncedFor,  \* issues.details_synced_for
    failing,    \* sources whose last attempt failed, in sync_state
    src,        \* the source being read, idle between cycles
    got,        \* lists this cycle obtained, and the conjunctions over them
    page,       \* the pages of the issue list read so far
    pending,    \* issues whose details are to be fetched, with their keys
    first,      \* the next detail is the first of its cycle
    fetched,    \* usage answer held while the runs are asked for
    covered,    \* the last cycle recorded a fleet snapshot
    errors, overruns

remote == <<clock, updated, run, usage, daily>>
rows == <<lUpdated, lRun, lUsage, lDaily, syncedFor>>
cycle == <<src, got, page, pending, first, fetched>>
bounded == <<errors, overruns>>
polVars == <<remote, rows, failing, cycle, covered, bounded>>

NoRun == [at |-> 0, active |-> FALSE]
NoKey == <<0, 0>>
NotFetched == -1

PolInit ==
    /\ clock = 1
    /\ updated = [i \in Issues |-> 1] /\ run = [i \in Issues |-> NoRun]
    /\ usage = [i \in Issues |-> 0] /\ daily = 0
    /\ lUpdated = [i \in Issues |-> 0] /\ lRun = [i \in Issues |-> NoRun]
    /\ lUsage = [i \in Issues |-> 0] /\ lDaily = 0
    /\ syncedFor = [i \in Issues |-> NoKey]
    /\ failing = {}
    /\ src = "idle" /\ got = {} /\ page = <<>> /\ pending = <<>>
    /\ first = TRUE /\ fetched = NotFetched /\ covered = FALSE
    /\ errors = 0 /\ overruns = 0

-----------------------------------------------------------------------------
(* Multica                                                                 *)

Ticks == clock' = clock + 1
Locally == UNCHANGED <<rows, failing, cycle, covered, bounded>>

Edit(i) ==
    /\ clock < MaxClock /\ Ticks /\ updated' = [updated EXCEPT ![i] = clock']
    /\ UNCHANGED <<run, usage, daily>> /\ Locally

StartRun(i) ==
    /\ clock < MaxClock /\ Ticks /\ ~run[i].active
    /\ run' = [run EXCEPT ![i] = [at |-> clock', active |-> TRUE]]
    /\ UNCHANGED <<updated, usage, daily>> /\ Locally

FinishRun(i) ==
    /\ Ticks /\ run[i].active
    /\ run' = [run EXCEPT ![i] = [at |-> clock', active |-> FALSE]]
    /\ usage' = [usage EXCEPT ![i] = clock'] /\ daily' = clock'
    /\ UNCHANGED updated /\ Locally

-----------------------------------------------------------------------------
(* The live phase                                                          *)

Error == errors < MaxErrors /\ errors' = errors + 1 /\ UNCHANGED overruns

\* _source: the outcome is recorded and the cycle goes on either way.
Attempted(s, ok, next) ==
    /\ src = s /\ src' = next /\ failing' = (IF ok THEN failing \ {s} ELSE failing \cup {s})
    /\ IF ok THEN UNCHANGED bounded ELSE Error

Begin ==
    /\ src = "idle" /\ src' = "runtimes" /\ got' = {}
    /\ UNCHANGED <<remote, rows, failing, page, pending, first, fetched, covered, bounded>>

\* The lists of runtimes, agents and projects; what they name is fixed here.
List(s, next, ok) ==
    /\ Attempted(s, ok, next)
    /\ got' = IF ok THEN got \cup {s} ELSE got
    /\ UNCHANGED <<remote, rows, page, pending, first, fetched, covered>>

\* A failed runtime list falls back to the runtimes known locally: the one
\* runtime has been known since before the first cycle of the model.
Usage(ok) ==
    /\ Attempted("usage", ok, "pricing")
    /\ lDaily' = IF ok THEN daily ELSE lDaily
    /\ UNCHANGED <<remote, lUpdated, lRun, lUsage, syncedFor, got, page, pending,
                   first, fetched, covered>>

\* Pricing reads files only; the live beat follows it.
Pricing(ok) ==
    /\ Attempted("pricing", ok, IF "projects" \in got THEN "issues" ELSE "tasks")
    /\ page' = <<>>
    /\ UNCHANGED <<remote, rows, got, pending, first, fetched, covered>>

-----------------------------------------------------------------------------
(* The slow phase                                                          *)

Cut(s, from, to) == SubSeq(s, from, IF to > Len(s) THEN Len(s) ELSE to)

\* S by falling rank.  How ties are broken is not known, but the same S with
\* the same ranks is always in the same order.
Latest(S, rank) ==
    CHOOSE s \in [1..Cardinality(S) -> S] :
      \A j, k \in DOMAIN s : j < k => s[j] # s[k] /\ rank[s[j]] >= rank[s[k]]

\* The order of the server's list: by last change.
ServerOrder == Latest(Issues, updated)

\* One page by offset; the list may have been reordered since the last one.
NextPage ==
    LET answer == Cut(ServerOrder, Len(page) + 1, Len(page) + PageLimit) IN
    page \o [k \in DOMAIN answer |-> <<answer[k], updated[answer[k]]>>]

Upserted(pages) ==
    [i \in Issues |->
       IF \E k \in DOMAIN pages : pages[k][1] = i
         THEN pages[Max({k \in DOMAIN pages : pages[k][1] = i})][2]
         ELSE lUpdated[i]]

MorePages ==
    /\ src = "issues" /\ Len(page) + PageLimit < Cardinality(Issues)
    /\ page' = NextPage
    /\ UNCHANGED <<remote, rows, failing, src, got, pending, first, fetched,
                   covered, bounded>>

LastPage ==
    /\ Len(page) + PageLimit >= Cardinality(Issues)
    /\ Attempted("issues", TRUE, "tasks")
    /\ lUpdated' = Upserted(NextPage)
    /\ got' = got \cup {"issues"}
    /\ UNCHANGED <<remote, lRun, lUsage, lDaily, syncedFor, page, pending,
                   first, fetched, covered>>

\* A page fails: those before it are kept, and the rest is left for later.
IssuesFail ==
    /\ Attempted("issues", FALSE, "tasks")
    /\ lUpdated' = Upserted(page)
    /\ UNCHANGED <<remote, lRun, lUsage, lDaily, syncedFor, got, page, pending,
                   first, fetched, covered>>

\* The runs of the agent's tasks, when the agents were listed.
Tasks(ok) ==
    /\ IF "agents" \in got THEN Attempted("tasks", ok, "snapshot")
       ELSE ok /\ src = "tasks" /\ src' = "snapshot" /\ UNCHANGED <<failing, bounded>>
    /\ IF ok /\ "agents" \in got
         THEN lRun' = run /\ got' = got \cup {"tasks"}
         ELSE UNCHANGED <<lRun, got>>
    /\ UNCHANGED <<remote, lUpdated, lUsage, lDaily, syncedFor, page, pending,
                   first, fetched, covered>>

Inputs == {"agents", "issues", "tasks"}

KeyWithoutRun(i) == <<lUpdated[i], 0>>

\* DETAIL_KEY_EXPR and DETAIL_STALE_WHERE.
Key(i) == <<lUpdated[i], lRun[i].at>>
Stale(i) == lUpdated[i] # 0 /\ (syncedFor[i] # Key(i) \/ lRun[i].active)

\* pending_detail_issues: the most recently updated first.
Backlog ==
    LET known == Latest({i \in Issues : Stale(i)}, lUpdated)
        taken == Cut(known, 1, Budget)
    IN [k \in DOMAIN taken |-> <<taken[k], Key(taken[k])>>]

\* A fleet snapshot needs every input of this cycle; the backlog follows.
Snapshot ==
    /\ src = "snapshot" /\ src' = "details"
    /\ covered' = (Inputs \subseteq got)
    /\ pending' = Backlog /\ first' = TRUE /\ fetched' = NotFetched
    /\ failing' = failing \ {"details"}
    /\ UNCHANGED <<remote, rows, got, page, bounded>>

FetchUsage ==
    /\ src = "details" /\ pending # <<>> /\ fetched = NotFetched
    /\ fetched' = usage[pending[1][1]]
    /\ UNCHANGED <<remote, rows, failing, src, got, page, pending, first,
                   covered, bounded>>

KeyAfterwards(i, key) == <<lUpdated[i], run[i].at>>

\* The key details are marked with: the one they were found stale by.
MarkedKey(i, key) == key

\* The runs arrive, and usage, runs and mark are committed together.
FetchRuns ==
    /\ src = "details" /\ pending # <<>> /\ fetched # NotFetched
    /\ LET i == pending[1][1] IN
       /\ lUsage' = [lUsage EXCEPT ![i] = fetched]
       /\ lRun' = [lRun EXCEPT ![i] = run[i]]
       /\ syncedFor' = [syncedFor EXCEPT ![i] = MarkedKey(i, pending[1][2])]
    /\ pending' = Tail(pending) /\ fetched' = NotFetched /\ first' = FALSE
    /\ UNCHANGED <<remote, lUpdated, lDaily, failing, src, got, page, covered, bounded>>

\* One issue fails and stays stale; nothing rolls back what its usage answer
\* had already written, and a later commit keeps it.
DetailFails(written) ==
    /\ src = "details" /\ pending # <<>> /\ Error
    /\ written => fetched # NotFetched
    /\ lUsage' = IF written THEN [lUsage EXCEPT ![pending[1][1]] = fetched] ELSE lUsage
    /\ failing' = failing \cup {"details"}
    /\ pending' = Tail(pending) /\ fetched' = NotFetched /\ first' = FALSE
    /\ UNCHANGED <<remote, lUpdated, lRun, lDaily, syncedFor, src, got, page, covered>>

\* The tick's deadline has passed: all but the first are deferred.
Defer ==
    /\ src = "details" /\ pending # <<>> /\ fetched = NotFetched /\ ~first
    /\ overruns # MaxOverruns /\ UNCHANGED errors
    /\ overruns' = IF MaxOverruns = Unlimited THEN 0 ELSE overruns + 1
    /\ pending' = <<>>
    /\ UNCHANGED <<remote, rows, failing, src, got, page, first, fetched, covered>>

\* The cycle row and the cycle beat.
EndCycle ==
    /\ src = "details" /\ pending = <<>>
    /\ src' = "idle" /\ got' = {} /\ page' = <<>> /\ first' = TRUE
    /\ UNCHANGED <<remote, rows, failing, pending, fetched, covered, bounded>>

\* The process dies and is started again: its open transaction is gone.
Killed ==
    /\ src # "idle" /\ Error
    /\ src' = "idle" /\ got' = {} /\ page' = <<>> /\ pending' = <<>>
    /\ first' = TRUE /\ fetched' = NotFetched
    /\ UNCHANGED <<remote, rows, failing, covered>>

Works ==
    \/ Begin \/ List("runtimes", "agents", TRUE) \/ List("agents", "projects", TRUE)
    \/ List("projects", "usage", TRUE) \/ Usage(TRUE) \/ Pricing(TRUE)
    \/ MorePages \/ LastPage \/ Tasks(TRUE) \/ Snapshot
    \/ FetchUsage \/ FetchRuns \/ EndCycle

PolNext ==
    \/ \E i \in Issues : Edit(i) \/ StartRun(i) \/ FinishRun(i)
    \/ Works
    \/ List("runtimes", "agents", FALSE) \/ List("agents", "projects", FALSE)
    \/ List("projects", "usage", FALSE) \/ Usage(FALSE) \/ Pricing(FALSE)
    \/ IssuesFail \/ Tasks(FALSE)
    \/ \E written \in BOOLEAN : DetailFails(written)
    \/ Defer \/ Killed

\* The poller runs, and a run that was started ends.
PolFairness == WF_polVars(Works) /\ \A i \in Issues : WF_polVars(FinishRun(i))

PolSpec == PolInit /\ [][PolNext]_polVars /\ PolFairness

-----------------------------------------------------------------------------
\* An issue the poller takes for settled has every token its runs, as far as
\* they are known here, have accrued, whatever Multica changed between the
\* list, the usage answer and the runs answer (sync_issue_details).
SettledIsFresh ==
    \A i \in Issues : lUpdated[i] # 0 /\ ~Stale(i) => lUsage[i] >= lRun[i].at

\* Once Multica is quiet the poller catches up with it: issues skipped by a
\* page boundary, deferred by a deadline or failed are all synchronised.
CaughtUp ==
    /\ lUpdated = updated /\ lUsage = usage /\ lDaily = daily
    /\ \A i \in Issues : lRun[i] = run[i]
CatchesUp == []<>CaughtUp

\* Runs may last, ticks may overrun, but the poller runs.
BusySpec == PolInit /\ [][PolNext]_polVars /\ WF_polVars(Works)

\* VIOLATED.  The first pending issue "is always synced so the backlog keeps
\* draining even when every tick overruns" (sync_issue_details): a stale issue
\* with no run in flight is synchronised at last.
BacklogDrains ==
    \A i \in Issues : (Stale(i) /\ ~lRun[i].active) ~> (~Stale(i) \/ lRun[i].active)
=============================================================================
