----------------------------- MODULE IdleShare -----------------------------
(***************************************************************************)
(* flow_metrics._idle: one pass over the fleet snapshots of a window, one  *)
(* step for each row.  A snapshot speaks for the time until the next one,  *)
(* unless that is a gap.                                                   *)
(***************************************************************************)
EXTENDS Integers, Sequences, FiniteSets

CONSTANTS Gap,        \* SNAPSHOT_GAP_SECONDS
          Now,        \* end of the window
          MaxSnaps    \* bound: snapshots

IdleAssumption == Gap \in Nat \ {0} /\ Now \in Nat /\ MaxSnaps \in Nat

FleetSnapshots == [at : 0..Now, starved : BOOLEAN, paused : BOOLEAN, observed : BOOLEAN]

VARIABLES
    snaps,    \* the snapshots in the store, in order of their time
    from,     \* start of the window
    row,      \* rows processed so far, those the query leaves out included
    idle, covered, paused, unavailable, gap  \* the totals

idlVars == <<snaps, from, row, idle, covered, paused, unavailable, gap>>

Increasing(s) == \A i, j \in DOMAIN s : i < j => s[i].at < s[j].at

IdlInit ==
    /\ snaps \in {s \in UNION {[1..n -> FleetSnapshots] : n \in 0..MaxSnaps} : Increasing(s)}
    /\ from \in 0..Now
    /\ row = 0 /\ idle = 0 /\ covered = 0 /\ paused = 0 /\ unavailable = 0 /\ gap = 0

FetchWindow == {i \in DOMAIN snaps : snaps[i].at >= from}

\* The query starts one gap before the window.
Fetched == {i \in DOMAIN snaps : snaps[i].at >= from - Gap}

Larger(a, b) == IF a > b THEN a ELSE b

\* The part of an interval that lies in the window.
Clipped(prev, this) == Larger(0, this.at - Larger(prev.at, from))

\* A row is compared with the fetched row before it, if there is one.
NoteRow ==
    /\ row < Len(snaps) /\ row' = row + 1
    /\ IF row \notin Fetched
         THEN UNCHANGED <<idle, covered, paused, unavailable, gap>>
         ELSE LET prev == snaps[row]
                  this == snaps[row + 1]
                  part == Clipped(prev, this)
                  far == this.at - prev.at > Gap
                  clear == ~far /\ prev.observed /\ ~prev.paused
              IN /\ gap' = gap + IF far THEN part ELSE 0
                 /\ unavailable' = unavailable + IF ~far /\ ~prev.observed THEN part ELSE 0
                 /\ paused' = paused + IF ~far /\ prev.observed /\ prev.paused THEN part ELSE 0
                 /\ covered' = covered + IF clear THEN part ELSE 0
                 /\ idle' = idle + IF clear /\ prev.starved THEN part ELSE 0
    /\ UNCHANGED <<snaps, from>>

IdlNext == NoteRow

IdlSpec == IdlInit /\ [][IdlNext]_idlVars

-----------------------------------------------------------------------------
\* Second by second: the snapshot that speaks for it is the last one before
\* it, if the next one is not too far from that.
SpeaksFor(i, t) == i \in 1..(Len(snaps) - 1) /\ snaps[i].at <= t /\ t < snaps[i + 1].at

Saw(i) ==
    IF snaps[i + 1].at - snaps[i].at > Gap THEN "gap"
    ELSE IF ~snaps[i].observed THEN "unavailable"
    ELSE IF snaps[i].paused THEN "paused"
    ELSE IF snaps[i].starved THEN "idle" ELSE "working"

\* The seconds of the window that were one of kinds.
Seconds(kinds) ==
    {t \in from..(Now - 1) : \E i \in DOMAIN snaps : SpeaksFor(i, t) /\ Saw(i) \in kinds}

\* Every second of the window that lies between two close snapshots is counted
\* once, by the state the earlier one saw, and no other second is: an interval
\* that began before the window counts with its part in the window, and no
\* pause and no gap is ever counted as working or idle time.
SecondsExact ==
    row = Len(snaps) =>
      /\ covered = Cardinality(Seconds({"working", "idle"}))
      /\ idle = Cardinality(Seconds({"idle"}))
      /\ paused = Cardinality(Seconds({"paused"}))
      /\ unavailable = Cardinality(Seconds({"unavailable"}))

\* The seconds the rows processed so far have spoken for.
Noted(kinds) == {t \in Seconds(kinds) : row > 0 /\ t < snaps[row].at}

IdlInv ==
    /\ snaps \in Seq(FleetSnapshots) /\ Increasing(snaps)
    /\ from \in 0..Now /\ row \in 0..Len(snaps)
    /\ covered = Cardinality(Noted({"working", "idle"}))
    /\ idle = Cardinality(Noted({"idle"}))
    /\ paused = Cardinality(Noted({"paused"}))
    /\ unavailable = Cardinality(Noted({"unavailable"}))
=============================================================================
