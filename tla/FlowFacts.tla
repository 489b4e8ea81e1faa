----------------------------- MODULE FlowFacts -----------------------------
(***************************************************************************)
(* The durable flow rows of one card (store.upsert_issues) and the times   *)
(* flow_metrics.py derives from them.  The card lives in Multica; the      *)
(* poller sees it at its syncs only, and collection began at the first of  *)
(* them, when other cards were already there.                              *)
(***************************************************************************)
EXTENDS Naturals, FiniteSets, FiniteSetsExt

CONSTANTS None,      \* no time, no status
          MaxTime,   \* bound of the clock
          MaxMoves   \* bound: changes of the card

FlowAssumption ==
    MaxTime \in Nat /\ MaxMoves \in Nat /\ None \notin Nat

Statuses == {"todo", "in_progress", "done", "cancelled"}

VARIABLES
    now,
    created, status, ready,      \* the card in Multica; created None: none yet
    entered, finished, readied,  \* history: when it truly began work, was
                                 \* done, became ready
    moves,
    began,                       \* MIN(observed_at) of all events; None
    storedStatus, storedReady,   \* the issues row; None before its first sync
    events, readies,             \* issue_status_events, issue_readiness_events
    syncedNow                    \* a sync has this second already

floVars == <<now, created, status, ready, entered, finished, readied, moves,
             began, storedStatus, storedReady, events, readies, syncedNow>>
truth == <<created, status, ready, entered, finished, readied, moves>>
rows == <<began, storedStatus, storedReady, events, readies>>

FloInit ==
    /\ now = 0
    /\ created = None /\ status = "todo" /\ ready = FALSE
    /\ entered = {} /\ finished = {} /\ readied = {} /\ moves = 0
    /\ began = None /\ storedStatus = None /\ storedReady = None
    /\ events = {} /\ readies = {} /\ syncedNow = FALSE

FloTick ==
    /\ now < MaxTime /\ now' = now + 1 /\ syncedNow' = FALSE
    /\ UNCHANGED <<truth, rows>>

Create ==
    /\ created = None /\ created' = now
    /\ UNCHANGED <<now, status, ready, entered, finished, readied, moves, rows,
                   syncedNow>>

Move(s) ==
    /\ created # None /\ s # status /\ moves < MaxMoves
    /\ status' = s /\ moves' = moves + 1
    /\ entered' = IF s = "in_progress" THEN entered \cup {now} ELSE entered
    /\ finished' = IF s = "done" THEN finished \cup {now} ELSE finished
    /\ UNCHANGED <<now, created, ready, readied, rows, syncedNow>>

Toggle ==
    /\ created # None /\ moves < MaxMoves
    /\ ready' = ~ready /\ moves' = moves + 1
    /\ readied' = IF ready THEN readied ELSE readied \cup {now}
    /\ UNCHANGED <<now, created, status, entered, finished, rows, syncedNow>>

FirstSeen == storedStatus = None

NeverInitial == FALSE

\* The first row of a card is a baseline, not a transition.
Baseline == FirstSeen

\* upsert_issues: a status that differs from the stored one is an event, and
\* so is a card that has become ready.
FloSync ==
    /\ ~syncedNow /\ syncedNow' = TRUE
    /\ began' = IF began = None THEN now ELSE began
    /\ IF created = None
         THEN UNCHANGED <<storedStatus, storedReady, events, readies>>
         ELSE /\ storedStatus' = status /\ storedReady' = ready
              /\ events' = IF storedStatus = status THEN events
                           ELSE events \cup {[status |-> status, at |-> now,
                                              initial |-> Baseline]}
              /\ readies' = IF ~ready \/ storedReady = TRUE THEN readies
                            ELSE readies \cup {[at |-> now, initial |-> Baseline]}
    /\ UNCHANGED <<now, truth>>

FloNext ==
    \/ FloTick \/ Create \/ \E s \in Statuses : Move(s)
    \/ Toggle \/ FloSync

FloSpec == FloInit /\ [][FloNext]_floVars

-----------------------------------------------------------------------------
Earliest(times) == IF times = {} THEN None ELSE Min(times)

AnyBaseline(e) == TRUE

\* A baseline counts as a start only for a card younger than the collection.
Trusted(e) == ~e.initial \/ created >= began

\* _cycle_time: the first trusted start, the first done.
StartedAt == Earliest({e.at : e \in {x \in events : x.status = "in_progress" /\ Trusted(x)}})
DoneAt == Earliest({e.at : e \in {x \in events : x.status = "done"}})
Measured == StartedAt # None /\ DoneAt # None /\ storedStatus # "cancelled"
CycleSeconds == IF DoneAt >= StartedAt THEN DoneAt - StartedAt ELSE 0

AllReadies == readies

\* _frontier: the readiness transitions, baselines left out.
Transitions == {e \in readies : ~e.initial}
ReadyAt == Earliest({e.at : e \in Transitions})
PrepSeconds == ReadyAt - created

\* "History that predates collection is never estimated, interpolated or
\* backdated" (docs/flow-metrics.md): behind every start and every readiness
\* that is measured there is a true one, that happened while the collection
\* ran and not after it was observed; no cycle is longer than the collection.
NothingBackdated ==
    /\ StartedAt # None => \E t \in entered : began <= t /\ t <= StartedAt
    /\ ReadyAt # None => \E t \in readied : began <= t /\ t <= ReadyAt
    /\ Measured => CycleSeconds <= now - began

\* VIOLATED.  "Missing history yields null values, never zeros"
\* (docs/flow-metrics.md): the completion of a measured cycle was observed
\* after its start, or the cycle is not measured.
NoInventedCycle == Measured => DoneAt >= StartedAt

-----------------------------------------------------------------------------
(* The inductive invariant behind NothingBackdated.                        *)

FlowTypes ==
    /\ now \in Nat /\ created \in Nat \cup {None} /\ began \in Nat \cup {None}
    /\ entered \subseteq Nat /\ readied \subseteq Nat
    /\ status \in Statuses /\ ready \in BOOLEAN
    /\ events \subseteq [status : Statuses, at : Nat, initial : BOOLEAN]
    /\ readies \subseteq [at : Nat, initial : BOOLEAN]

\* Nothing has happened or was observed after now, and nothing is observed of
\* a card that is not there or before the collection.
Chronology ==
    /\ began # None => began <= now
    /\ created # None => created <= now
    /\ created = None => entered = {} /\ storedStatus = None
    /\ \A t \in entered : created <= t /\ t <= now
    /\ \A e \in events \cup readies : e.at <= now
    /\ events \cup readies # {} => created # None
    /\ storedStatus # None \/ events \cup readies # {} => began # None

\* What the next sync would record has happened since the last one.
Unrecorded ==
    /\ status = "in_progress" => entered # {}
    /\ status = "in_progress" /\ storedStatus \notin {None, "in_progress"}
         => \E t \in entered : began <= t
    /\ ready /\ storedStatus # None /\ storedReady # TRUE
         => \E t \in readied : began <= t /\ t <= now

\* What is recorded has happened before, and, but for a baseline, while the
\* collection ran.
Recorded ==
    /\ \A e \in events : e.status = "in_progress" =>
         \E t \in entered : t <= e.at /\ (e.initial \/ began <= t)
    /\ \A e \in readies : e.initial \/ \E t \in readied : began <= t /\ t <= e.at

FlowInv == FlowTypes /\ Chronology /\ Unrecorded /\ Recorded
=============================================================================
