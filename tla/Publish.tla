------------------------------ MODULE Publish ------------------------------
(***************************************************************************)
(* publish.py --watch: the publisher beside the poller of one machine.     *)
(* The poller commits data and, later, a beat or a finished cycle; the     *)
(* publisher reads that marker, takes a snapshot, sends it, and remembers  *)
(* the marker of what the host confirmed.  Data and markers are numbers.  *)
(***************************************************************************)
EXTENDS Naturals

CONSTANTS None,       \* no marker
          MaxData,    \* bound: data commits
          MaxIdle,    \* bound: beats that announce nothing
          MaxLosses   \* bound: failures injected

PublishAssumption ==
    MaxData \in Nat /\ MaxIdle \in Nat /\ MaxLosses \in Nat /\ None \notin Nat

VARIABLES
    data, marker,  \* the local database: newest data; number of the beat
    told,          \* history: the data committed before that beat
    idle,          \* beats without new data so far
    at,            \* publisher: sleep, look, snapshot, send, answer
    last,          \* last_published_marker, of this process
    held,          \* marker the running round read
    snap,          \* data in the snapshot being sent
    host,          \* data installed at the host
    sentAt,        \* the host's watermark is the current second
    losses

pubVars == <<data, marker, told, idle, at, last, held, snap, host, sentAt, losses>>
store == <<data, marker, told, idle>>

PubInit ==
    /\ data = 0 /\ marker = None /\ told = 0 /\ idle = 0 /\ at = "look" /\ last = None /\ held = None
    /\ snap = 0 /\ host = 0 /\ sentAt = FALSE /\ losses = 0

Loss == losses < MaxLosses /\ losses' = losses + 1

\* A step of the poller's cycle commits data; the beat follows it.
Commit ==
    /\ data < MaxData /\ data' = data + 1
    /\ UNCHANGED <<marker, told, idle, at, last, held, snap, host, sentAt, losses>>

\* record_beat and the cycle row: every cycle has one, whatever it changed.
Beat ==
    /\ data # told \/ idle < MaxIdle
    /\ marker' = IF marker = None THEN 1 ELSE marker + 1
    /\ told' = data /\ idle' = IF data # told THEN idle ELSE idle + 1
    /\ UNCHANGED <<data, at, last, held, snap, host, sentAt, losses>>

Second ==
    /\ sentAt /\ sentAt' = FALSE
    /\ UNCHANGED <<store, at, last, held, snap, host, losses>>

\* current_marker: nothing new, or no marker, or a database that cannot be
\* read (None): the round does nothing.
Look(read) ==
    /\ at = "look"
    /\ IF read = marker THEN UNCHANGED losses ELSE Loss
    /\ held' = read
    /\ at' = IF read # None /\ read # last THEN "snapshot" ELSE "sleep"
    /\ UNCHANGED <<store, last, snap, host, sentAt>>

\* create_compressed_snapshot.
Snapshot ==
    /\ at = "snapshot" /\ snap' = data /\ at' = "send"
    /\ UNCHANGED <<store, last, held, host, sentAt, losses>>

\* The host takes the snapshot if its timestamp is later than the last one and
\* its data is not older (external to publish.py: Freshness, SnapshotInstall).
Send(arrives) ==
    /\ at = "send" /\ IF arrives THEN UNCHANGED losses ELSE Loss
    /\ IF arrives /\ ~sentAt /\ snap >= host
         THEN host' = snap /\ sentAt' = TRUE /\ at' = "answer"
         ELSE UNCHANGED <<host, sentAt>> /\ at' = "sleep"
    /\ UNCHANGED <<store, last, held, snap>>

MarkerNow == marker

\* watch: the marker of a round is the one read before its snapshot.
MarkerOfRound == held

\* The confirmation arrives and matches what was sent, or the round fails.
Answer(arrives) ==
    /\ at = "answer" /\ IF arrives THEN UNCHANGED losses ELSE Loss
    /\ last' = IF arrives THEN MarkerOfRound ELSE last
    /\ at' = "sleep"
    /\ UNCHANGED <<store, held, snap, host, sentAt>>

Sleep ==
    /\ at = "sleep" /\ at' = "look"
    /\ UNCHANGED <<store, last, held, snap, host, sentAt, losses>>

\* The process restarts and has published nothing.
Restart ==
    /\ Loss /\ at' = "look" /\ last' = None /\ held' = None
    /\ UNCHANGED <<store, snap, host, sentAt>>

PubNext ==
    \/ Commit \/ Beat \/ Second \/ \E m \in {marker, None} : Look(m)
    \/ Snapshot \/ \E b \in BOOLEAN : Send(b) \/ Answer(b)
    \/ Sleep \/ Restart

Looks == Look(marker)
Sends == Send(TRUE)
Answers == Answer(TRUE)

\* The publisher goes round, seconds pass, and the poller's cycles finish.
PubFairness ==
    /\ WF_pubVars(Beat) /\ WF_pubVars(Second) /\ WF_pubVars(Sleep)
    /\ WF_pubVars(Looks) /\ WF_pubVars(Snapshot)
    /\ WF_pubVars(Sends) /\ WF_pubVars(Answers)

PubSpec == PubInit /\ [][PubNext]_pubVars /\ PubFairness

-----------------------------------------------------------------------------
\* A round that finds nothing new is right: when the poller has announced all
\* it wrote and the publisher remembers that marker, the host has that data,
\* whatever was committed while the snapshot was on its way.
RememberedIsInstalled == last = marker /\ told = data => host = data

PubTypes ==
    /\ data \in Nat /\ told \in Nat /\ snap \in Nat /\ host \in Nat /\ losses \in Nat
    /\ marker \in Nat \cup {None} /\ last \in Nat \cup {None} /\ held \in Nat \cup {None}
    /\ at \in {"sleep", "look", "snapshot", "send", "answer"}

\* A marker that was read is not a later one.
Earlier(m) == m # None => marker # None /\ m <= marker

\* What was read, sent or installed is no newer than the database; a snapshot
\* taken after the current marker was read has the data that marker announces.
PubInv ==
    /\ PubTypes
    /\ told <= data /\ snap <= data /\ host <= data
    /\ Earlier(held) /\ Earlier(last)
    /\ marker = None => told = 0
    /\ at \in {"snapshot", "send", "answer"} => held # None
    /\ at \in {"send", "answer"} /\ held = marker => snap >= told
    /\ at = "answer" => host >= snap
    /\ last = marker => host >= told

\* However answers are lost and processes restarted, the host ends up with the
\* newest data.
HostCurrent == host = data
HostCatchesUp == <>[]HostCurrent
=============================================================================
