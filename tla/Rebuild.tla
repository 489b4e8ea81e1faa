------------------------------ MODULE Rebuild ------------------------------
(***************************************************************************)
(* rebuild.py: a poll of Multica is captured as the sequence of its        *)
(* commands and answers, and replayed later into a database of its own.    *)
(* The poll is a list of runtimes followed by a usage command for each;    *)
(* the database is what the answers and the prices make of it.             *)
(***************************************************************************)
EXTENDS Naturals, Sequences, SequencesExt

CONSTANTS Runtimes, None, MaxUsage, MaxCaptures, MaxBreaks

RebuildAssumption ==
    MaxUsage \in Nat /\ MaxCaptures \in Nat /\ MaxBreaks \in Nat

VARIABLES
    listed, used, price,  \* Multica, and the pricing file in use
    input,    \* the published capture, or None
    output,   \* the published rebuild, or None
    work,     \* the running command's staging: None or a record
    captures, \* captures published so far: their provenance differs
    verdict,  \* of the last verify: none, accepted, refused
    breaks    \* failures and rot injected so far

rebVars == <<listed, used, price, input, output, work, captures, verdict, breaks>>
live == <<listed, used, price>>
stored == <<input, output>>

Database(responses, rate) ==
    [usage |-> [k \in 2..Len(responses) |-> <<responses[k].command, responses[k].answer>>],
     rate |-> rate]

RebInit ==
    /\ listed \in (SUBSET Runtimes) \ {{}} /\ used = [r \in Runtimes |-> 0] /\ price = 1
    /\ input = None /\ output = None /\ work = None
    /\ captures = 0 /\ verdict = "none" /\ breaks = 0

Break == breaks < MaxBreaks /\ breaks' = breaks + 1

Multica ==
    /\ \/ \E r \in Runtimes : used[r] < MaxUsage /\ used' = [used EXCEPT ![r] = @ + 1]
                              /\ UNCHANGED <<listed, price>>
       \/ listed' \in (SUBSET Runtimes) \ {{}, listed} /\ UNCHANGED <<used, price>>
       \/ price' = 3 - price /\ UNCHANGED <<listed, used>>
    /\ verdict' = "none"
    /\ UNCHANGED <<stored, work, captures, breaks>>

\* A poll's next command, given the answers so far; "done" when it has all.
Command(answers) ==
    IF answers = <<>> THEN "list"
    ELSE LET order == SetToSeq(answers[1].answer)
         IN IF Len(answers) > Len(order) THEN "done" ELSE order[Len(answers)]

Answer(command) == IF command = "list" THEN listed ELSE used[command]

-----------------------------------------------------------------------------
(* capture                                                                 *)

\* The prices are frozen before the poll.  The output must not exist yet.
CaptureBegins ==
    /\ work = None /\ input = None /\ captures < MaxCaptures
    /\ work' = [task |-> "capture", rate |-> price, responses |-> <<>>]
    /\ UNCHANGED <<live, stored, captures, verdict, breaks>>

Recorded ==
    LET c == Command(work.responses)
    IN Append(work.responses, [command |-> c, answer |-> Answer(c)])

Record ==
    /\ work # None /\ work.task = "capture" /\ Command(work.responses) # "done"
    /\ work' = [work EXCEPT !.responses = Recorded]
    /\ UNCHANGED <<live, stored, captures, verdict, breaks>>

\* _validate_input of the staging, then one rename.
CapturePublished ==
    /\ work # None /\ work.task = "capture" /\ Command(work.responses) = "done"
    /\ input' = [id |-> captures + 1, rate |-> work.rate, responses |-> work.responses,
                 intact |-> TRUE, polled |-> Database(work.responses, work.rate)]
    /\ captures' = captures + 1 /\ work' = None
    /\ UNCHANGED <<live, output, verdict, breaks>>

\* Any source that fails, a refused input, a kill: nothing is published.
Discarded ==
    /\ work # None /\ Break /\ work' = None
    /\ UNCHANGED <<live, stored, captures, verdict>>

-----------------------------------------------------------------------------
(* rebuild                                                                 *)

\* _validate_input reads every answer into memory; the price file is opened
\* when the replay reaches it.
ReplayBegins ==
    /\ work = None /\ input # None /\ input.intact /\ output = None
    /\ work' = [task |-> "rebuild", rate |-> None, responses |-> <<>>,
                frozen |-> input.responses]
    /\ UNCHANGED <<live, stored, captures, verdict, breaks>>

\* The frozen runner answers the command it recorded at this place, only.
Replayed ==
    LET k == Len(work.responses) + 1
        c == Command(work.responses)
    IN /\ k \in DOMAIN work.frozen /\ work.frozen[k].command = c
       /\ work' = [work EXCEPT !.responses = Append(@, work.frozen[k])]

ReplayCommand ==
    /\ work # None /\ work.task = "rebuild" /\ Command(work.responses) # "done"
    /\ Replayed
    /\ UNCHANGED <<live, stored, captures, verdict, breaks>>

LivePrice == price

\* The prices of a replay are those of the capture, as the files are now.
ReplayPrice == IF input = None \/ ~input.intact THEN 0 ELSE input.rate

ReplayPriced ==
    /\ work # None /\ work.task = "rebuild" /\ work.rate = None
    /\ Command(work.responses) = "done"
    /\ work' = [work EXCEPT !.rate = ReplayPrice]
    /\ UNCHANGED <<live, stored, captures, verdict, breaks>>

\* Nothing of the input is left over, and the manifest names the input it was
\* made from, as it is read at the end.
ReplayPublished ==
    /\ work # None /\ work.task = "rebuild" /\ work.rate # None
    /\ Len(work.responses) = Len(work.frozen) /\ input # None
    /\ output' = [from |-> input.id, intact |-> TRUE,
                  db |-> Database(work.responses, work.rate)]
    /\ work' = None
    /\ UNCHANGED <<live, input, captures, verdict, breaks>>

\* A file of a published directory changes, or the operator removes one.
Rots ==
    /\ Break
    /\ \/ input # None /\ input' = [input EXCEPT !.intact = FALSE] /\ UNCHANGED output
       \/ output # None /\ output' = [output EXCEPT !.intact = FALSE] /\ UNCHANGED input
    /\ verdict' = "none"
    /\ UNCHANGED <<live, work, captures>>

Removed ==
    /\ \/ input # None /\ input' = None /\ UNCHANGED output
       \/ output # None /\ output' = None /\ UNCHANGED input
    /\ verdict' = "none"
    /\ UNCHANGED <<live, work, captures, breaks>>

SameUsage == output.db.usage = Database(input.responses, input.rate).usage

AnyInput == output.intact /\ input.intact /\ SameUsage

\* verify_rebuild: the input is whole, the database is the one the manifest
\* hashes, its counters are the captured ones (its costs are not compared), and
\* the manifest names this input.
Accepts == output.intact /\ input.intact /\ SameUsage /\ output.from = input.id

Verify ==
    /\ input # None /\ output # None /\ work = None
    /\ verdict' = IF Accepts THEN "accepted" ELSE "refused"
    /\ UNCHANGED <<live, stored, work, captures, breaks>>

RebNext ==
    \/ Multica \/ CaptureBegins \/ Record \/ CapturePublished \/ Discarded
    \/ ReplayBegins \/ ReplayCommand \/ ReplayPriced \/ ReplayPublished
    \/ Rots \/ Removed \/ Verify

RebSpec == RebInit /\ [][RebNext]_rebVars

-----------------------------------------------------------------------------
\* A rebuild that verify accepts is, row for row and cost for cost, what the
\* captured poll itself saw, whatever Multica and the prices have become and
\* whatever rotted or was replaced between the commands ("fail closed unless an
\* existing isolated output still matches its input", verify_rebuild).
VerifiedIsFaithful == verdict = "accepted" => output.db = input.polled

-----------------------------------------------------------------------------
(* The inductive invariant behind VerifiedIsFaithful.                      *)

\* The files are the records their commands write.
Shapes ==
    /\ captures \in Nat
    /\ input # None =>
         /\ input = [id |-> input.id, rate |-> input.rate, responses |-> input.responses,
                     intact |-> input.intact, polled |-> input.polled]
         /\ input.id \in 1..captures
         /\ input.polled = Database(input.responses, input.rate)
    /\ output # None =>
         /\ output = [from |-> output.from, intact |-> output.intact, db |-> output.db]
         /\ output.from \in 1..captures
         /\ output.db = [usage |-> output.db.usage, rate |-> output.db.rate]
    /\ work # None =>
         \/ work = [task |-> "capture", rate |-> work.rate, responses |-> work.responses]
         \/ work = [task |-> "rebuild", rate |-> work.rate, responses |-> work.responses,
                    frozen |-> work.frozen]

\* A replay is priced from the input it is published for, unless that rots.
PricedAlike ==
    input # None /\ input.intact =>
      /\ work # None /\ work.task = "rebuild" /\ work.rate # None
           => work.rate = input.rate
      /\ output # None /\ output.from = input.id => output.db.rate = input.rate

\* A verdict is gone with the first change of what it was given on.
VerdictStands ==
    verdict = "accepted" =>
      input # None /\ output # None /\ work = None /\ output.db = input.polled

RebInv == Shapes /\ PricedAlike /\ VerdictStands
=============================================================================
