------------------------------ MODULE Freshness ------------------------------
(***************************************************************************)
(* snapshot.freshness_report: may an incoming snapshot replace the         *)
(* installed database of a tenant?                                         *)
(*                                                                         *)
(* Of a database only the table daily_usage counts: a function from the    *)
(* rows it has, keyed by (runtime, model, date), to their token counter.   *)
(* The five counters of a row are compared one by one and in the same way; *)
(* one stands for all.                                                     *)
(***************************************************************************)
EXTENDS Naturals

CONSTANTS
  Keys,        \* keys of daily_usage rows
  DateOf,      \* the date within each key
  NoDb,        \* no database file
  Unreadable,  \* a file daily_usage cannot be read from, or has bad rows
  Snapshots    \* what publishers upload

ASSUME FreshnessAssumption == DateOf \in [Keys -> Nat]

IsUsage(u) == \E rows \in SUBSET Keys : u \in [rows -> Nat]

ASSUME SentinelAssumption ==
  NoDb # Unreadable /\ ~ IsUsage(NoDb) /\ ~ IsUsage(Unreadable)

ASSUME SnapshotsAssumption == \A s \in Snapshots : s = Unreadable \/ IsUsage(s)

IsEmpty(usage) == DOMAIN usage = {}

\* MAX(date) of the incoming rows is before MAX(date) of the current ones.
OlderDay(incoming, current) ==
  \E k \in DOMAIN current : \A j \in DOMAIN incoming : DateOf[j] < DateOf[k]

MissingRows(incoming, current) == DOMAIN current \ DOMAIN incoming

\* Mutant of DecreasedRows: only rows of the latest day are compared.
DecreasedRowsLatestDay(incoming, current) ==
  {k \in DOMAIN current \intersect DOMAIN incoming :
     /\ incoming[k] < current[k]
     /\ \A j \in DOMAIN current : DateOf[j] <= DateOf[k]}

DecreasedRows(incoming, current) ==
  {k \in DOMAIN current \intersect DOMAIN incoming : incoming[k] < current[k]}

\* The reason code of a rejection, "none" when the snapshot is accepted.
Reason(incoming, target) ==
  CASE incoming = Unreadable -> "incoming_unreadable"
    [] incoming # Unreadable /\ target = NoDb -> "none"
    [] incoming # Unreadable /\ target = Unreadable -> "target_unreadable"
    [] incoming # Unreadable /\ target \notin {NoDb, Unreadable} ->
         IF IsEmpty(target) THEN "none"
         ELSE IF IsEmpty(incoming) THEN "incoming_empty_over_populated"
         ELSE IF OlderDay(incoming, target) THEN "incoming_older_day"
         ELSE IF MissingRows(incoming, target) # {} THEN "missing_rows"
         ELSE IF DecreasedRows(incoming, target) # {} THEN "decreased_counters"
         ELSE "none"

Accepts(incoming, target) == Reason(incoming, target) = "none"

\* What the verdict is for: the incoming usage has every row of the current
\* one, and none of its counters is smaller.
Covers(incoming, current) ==
  /\ DOMAIN current \subseteq DOMAIN incoming
  /\ \A k \in DOMAIN current : incoming[k] >= current[k]
=============================================================================
