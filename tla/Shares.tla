------------------------------- MODULE Shares -------------------------------
(***************************************************************************)
(* aggregates.py: one daily_usage row is split among the agents and        *)
(* projects whose runs carried it, and one issue's usage among its runs,   *)
(* for the range the reader selects: whole dates, or a clock range, when   *)
(* one of its bounds is not a midnight.  Weights are fractions <<numerator,*)
(* denominator>>; times are hours, the day of the row is [DayStart,        *)
(* DayEnd); an open bound is a midnight before or after everything.        *)
(***************************************************************************)
EXTENDS Integers, FiniteSets, Functions

CONSTANTS Agents,            \* candidates of the row's (runtime, model), not none
          Projects, None,    \* a run without an issue has project None
          Runs,              \* run ids
          DayStart, DayEnd, LastHour,
          Midnights          \* hours at which a day begins

SharesAssumption ==
    /\ DayStart \in Nat /\ DayEnd \in Nat /\ LastHour \in Nat
    /\ DayStart < DayEnd /\ DayEnd <= LastHour
    /\ IsFiniteSet(Runs) /\ IsFiniteSet(Agents) /\ IsFiniteSet(Projects)
    /\ None \notin Nat /\ Agents # {}
    /\ {DayStart, DayEnd} \subseteq Midnights
    /\ \A m \in Midnights : m <= DayStart \/ m >= DayEnd

Hours == 0..LastHour

\* A stored run of a candidate: its ends may be missing or reversed; matches
\* is whether it has the row's runtime and model.
RunRows == [agent : Agents, project : Projects \cup {None},
            start : Hours \cup {None}, end : Hours \cup {None}, matches : BOOLEAN]

VARIABLES
    runs,   \* run -> its row
    lo, hi  \* the selected range, filters["from"] and filters["to"]

shaVars == <<runs, lo, hi>>

ShaInit == runs \in [Runs -> RunRows] /\ lo = DayStart /\ hi = DayEnd

\* make_filters refuses a range that ends before it begins.
Select(a, b) == a < b /\ lo' = a /\ hi' = b /\ UNCHANGED runs

ShaNext == \E a, b \in Hours : Select(a, b)

ShaSpec == ShaInit /\ [][ShaNext]_shaVars

-----------------------------------------------------------------------------
Least(a, b) == IF a < b THEN a ELSE b
Most(a, b) == IF a > b THEN a ELSE b

\* _overlap_seconds.
Overlap(r, a, b) == Most(0, Least(runs[r].end, b) - Most(runs[r].start, a))

Dated(r) == runs[r].start # None /\ runs[r].end # None /\ runs[r].end > runs[r].start

Total(S, f(_)) == SumFunctionOnSet([x \in S |-> f(x)], S)

ShareKeys == Agents \X (Projects \cup {None})
KeyOf(r) == <<runs[r].agent, runs[r].project>>

\* daily_shares: the runs of the row that are dated on its day.
OnDay == {r \in Runs : runs[r].matches /\ Dated(r) /\ Overlap(r, DayStart, DayEnd) > 0}

\* The denominator is the whole day, whatever part of it is selected.
FullHours == Total(OnDay, LAMBDA r : Overlap(r, DayStart, DayEnd))

SelectedHours(key, a, b) ==
    Total({r \in OnDay : KeyOf(r) = key},
          LAMBDA r : Overlap(r, Most(DayStart, a), Least(DayEnd, b)))

\* A run without both ends counts on the day of the end it has.
Anchored(r) ==
    /\ runs[r].matches /\ ~Dated(r)
    /\ LET anchor == IF runs[r].start # None THEN runs[r].start ELSE runs[r].end
       IN anchor # None /\ anchor \in DayStart..(DayEnd - 1)

CountOf(key) == Cardinality({r \in Runs : KeyOf(r) = key /\ (r \in OnDay \/ Anchored(r))})

\* _weights over a set of alternatives: by hours, else by counts, else equal.
Weight(S, hours, counts, k) ==
    LET h == SumFunctionOnSet(hours, S) c == SumFunctionOnSet(counts, S) IN
    IF h > 0 THEN <<hours[k], h>>
    ELSE IF c > 0 THEN <<counts[k], c>>
    ELSE <<1, Cardinality(S)>>

AgentHours(a) == Total({k \in ShareKeys : k[1] = a},
                       LAMBDA k : SelectedHours(k, DayStart, DayEnd))
AgentCount(a) == Total({k \in ShareKeys : k[1] = a}, CountOf)

ProjectsOf(a) == {p \in Projects \cup {None} : CountOf(<<a, p>>) > 0}

DateShareByHours(a, p) ==
    LET all == Total(ShareKeys, LAMBDA k : SelectedHours(k, DayStart, DayEnd))
    IN IF all = 0 THEN <<0, 1>> ELSE <<SelectedHours(<<a, p>>, DayStart, DayEnd), all>>

AgentShare(a) ==
    Weight(Agents, [x \in Agents |-> AgentHours(x)], [x \in Agents |-> AgentCount(x)], a)

\* An agent without runs on the day has no project.
ProjectShare(a, p) ==
    IF ProjectsOf(a) = {} THEN IF p = None THEN <<1, 1>> ELSE <<0, 1>>
    ELSE IF p \notin ProjectsOf(a) THEN <<0, 1>>
    ELSE Weight(ProjectsOf(a),
                [q \in ProjectsOf(a) |-> SelectedHours(<<a, q>>, DayStart, DayEnd)],
                [q \in ProjectsOf(a) |-> CountOf(<<a, q>>)], p)

\* Its share when whole dates are selected.
DateShare(a, p) ==
    <<AgentShare(a)[1] * ProjectShare(a, p)[1], AgentShare(a)[2] * ProjectShare(a, p)[2]>>

RangeShareOfSelected(key, a, b) ==
    LET all == Total(ShareKeys, LAMBDA k : SelectedHours(k, a, b))
    IN IF all = 0 THEN <<0, 1>> ELSE <<SelectedHours(key, a, b), all>>

\* Its share when a clock range is selected: none without dated runs.
RangeShare(key, a, b) ==
    IF FullHours = 0 THEN <<0, 1>> ELSE <<SelectedHours(key, a, b), FullHours>>

\* time_estimated: only a bound with a time of its own makes a clock range.
IsClockRange(a, b) == a \notin Midnights \/ b \notin Midnights

\* _filter_dates: the dates of the range include that of the row.
Covers(a, b) == a < DayEnd /\ b > DayStart

\* The share of one key of the row in a selected range.
Share(key, a, b) ==
    IF ~Covers(a, b) THEN <<0, 1>>
    ELSE IF IsClockRange(a, b) THEN RangeShare(key, a, b)
    ELSE DateShare(key[1], key[2])

IssueFractionOfRange(a, b) ==
    LET inside == {r \in Runs : Dated(r) /\ Overlap(r, a, b) > 0}
        total == Total(inside, LAMBDA r : runs[r].end - runs[r].start)
    IN IF total = 0 THEN <<0, 1>> ELSE <<Total(inside, LAMBDA r : Overlap(r, a, b)), total>>

\* _run_filter_selection: the fraction of the issue's own hours.
IssueFraction(a, b) ==
    LET dated == {r \in Runs : Dated(r)}
        total == Total(dated, LAMBDA r : runs[r].end - runs[r].start)
    IN IF total = 0 THEN <<0, 1>> ELSE <<Total(dated, LAMBDA r : Overlap(r, a, b)), total>>

\* _agent_work_seconds.
WorkHours(a, s, t) ==
    Total({r \in Runs : Dated(r) /\ runs[r].agent = a}, LAMBDA r : Overlap(r, s, t))

-----------------------------------------------------------------------------
Equal(u, v) == u[1] * v[2] = v[1] * u[2]
Plus(u, v) == <<u[1] * v[2] + v[1] * u[2], u[2] * v[2]>>
One == <<1, 1>>
PlusAll(f, S) == FoldFunctionOnSet(Plus, <<0, 1>>, f, S)

\* Nothing of a day is lost or counted twice: while whole dates are selected
\* its shares add up to the row, whatever runs lack an end ("always sums to
\* 1.0", _weights), and to nothing outside of them.
DayConserved ==
    ~IsClockRange(lo, hi) =>
      Equal(IF Covers(lo, hi) THEN One ELSE <<0, 1>>,
            PlusAll([k \in ShareKeys |-> Share(k, lo, hi)], ShareKeys))

\* A cut at which all three ranges are dates, or all three clock ranges.
OneKind(a, cut, b) ==
    /\ IsClockRange(a, cut) = IsClockRange(a, b)
    /\ IsClockRange(cut, b) = IsClockRange(a, b)

\* Ranges add up: where one is cut in two, every share, fraction and working
\* time is the sum of its parts, dates and clock ranges mixed, and "selecting a
\* short hour never inflates to the whole task" (_run_filter_selection).  Only
\* a day without dated runs, which dates show and clock ranges do not, needs
\* the three ranges to be of one kind.
RangesAdd ==
    \A cut \in (lo + 1)..(hi - 1) :
      /\ FullHours > 0 \/ OneKind(lo, cut, hi) =>
           \A k \in ShareKeys :
             Equal(Share(k, lo, hi), Plus(Share(k, lo, cut), Share(k, cut, hi)))
      /\ Equal(IssueFraction(lo, hi), Plus(IssueFraction(lo, cut), IssueFraction(cut, hi)))
      /\ \A a \in Agents : WorkHours(a, lo, hi) = WorkHours(a, lo, cut) + WorkHours(a, cut, hi)
=============================================================================
