------------------------------ MODULE Collector ------------------------------
(***************************************************************************)
(* The collection of usage on the trusted worker: aistat/collector.py with *)
(* the profile of the official CLI (aistat/cli_profile.py) and the fence   *)
(* around a user's credential (aistat/worker_store.py).                    *)
(*                                                                         *)
(* store[u]   epoch and state of u in worker_connection_versions; the copy *)
(*            of the token exists iff state is "stored"                    *)
(* lock[u]    who holds the tenant lock, a flock that nobody waits for     *)
(* fence[u]   who keeps the credential fence, a flock that is waited for;  *)
(*            who needs it for one short transaction waits until it is     *)
(*            free, and takes and releases it in that step                 *)
(* profile[u] the epoch of the token the CLI is logged in with on disk, 0  *)
(*            when there is no profile directory                           *)
(* sent[u]    the epoch of the last snapshot sent to the host              *)
(* told[u]    the epoch of the last success report; the host ignores the   *)
(*            reports of failures about any other epoch than its own       *)
(* proc[c]    a collector process: what collect_once has left to do, and   *)
(*            the connection it is at                                      *)
(***************************************************************************)
EXTENDS Naturals

CONSTANTS
  Users,
  NoUser,
  Procs,     \* collector processes; a restarted one runs beside the old one
  NoProc,
  MaxEpoch   \* a bound of the model: no credential beyond this epoch

ASSUME CollectorAssumption ==
  NoUser \notin Users /\ NoProc \notin Procs /\ MaxEpoch \in Nat

VARIABLES store, lock, fence, profile, sent, told, proc

vars == <<store, lock, fence, profile, sent, told, proc>>

-----------------------------------------------------------------------------
Epochs == 0..MaxEpoch

Version == [epoch: Epochs, state: {"none", "stored", "revoked"}]

\* The boundaries of one collection, each behind a check of the credential.
Stages == {"enter", "login", "select", "poll", "polled", "publish"}

After == [enter |-> "login", login |-> "select", select |-> "poll",
          poll |-> "polled", polled |-> "publish"]

Proc == [pc: {"idle", "next", "read", "check", "do", "cleanup", "report"},
         todo: SUBSET Users, user: Users \union {NoUser}, epoch: Epochs,
         stage: Stages, status: {"collected", "failed", "skipped"}]

\* A process that is at no connection.
Between(pc, todo) == [pc |-> pc, todo |-> todo, user |-> NoUser, epoch |-> 0,
                      stage |-> "enter", status |-> "skipped"]

Idle == Between("idle", {})

Init ==
  /\ store = [u \in Users |-> [epoch |-> 0, state |-> "none"]]
  /\ lock = [u \in Users |-> NoProc]
  /\ fence = [u \in Users |-> NoProc]
  /\ profile = [u \in Users |-> 0]
  /\ sent = [u \in Users |-> 0]
  /\ told = [u \in Users |-> 0]
  /\ proc = [c \in Procs |-> Idle]

-----------------------------------------------------------------------------
Goto(c, pc) == proc' = [proc EXCEPT ![c].pc = pc]

\* Mutant of GoOn: what was read of the last connection is kept.
GoOnStale(c, u) ==
  proc' = [proc EXCEPT ![c] = [@ EXCEPT !.pc = "next", !.todo = @ \ {u}]]

\* collect_once goes on with the connections left after u.
GoOn(c, u) ==
  proc' = [proc EXCEPT ![c] = Between("next", proc[c].todo \ {u})]

\* _collect_with_token.finish: first the profile is cleaned up.
Finish(c, status) ==
  proc' = [proc EXCEPT ![c] = [@ EXCEPT !.pc = "cleanup", !.status = status]]

\* The kernel releases the locks a process holds when it dies.
Without(held, c) == [u \in Users |-> IF held[u] = c THEN NoProc ELSE held[u]]

\* CredentialFence.is_current
Current(c) ==
  store[proc[c].user] = [epoch |-> proc[c].epoch, state |-> "stored"]

-----------------------------------------------------------------------------
(* What worker_sync does to the store behind the fence, if it is newer.    *)

SetVersion(u, epoch, state) ==
  /\ store' = [store EXCEPT ![u] = [epoch |-> epoch, state |-> state]]
  /\ UNCHANGED <<lock, fence, profile, sent, told, proc>>

\* Mutant of StoreToken: it does not wait for the fence.
StoreUnfenced(u) ==
  store[u].epoch < MaxEpoch /\ SetVersion(u, store[u].epoch + 1, "stored")

StoreToken(u) ==
  /\ fence[u] = NoProc
  /\ store[u].epoch < MaxEpoch
  /\ SetVersion(u, store[u].epoch + 1, "stored")

\* A tombstone of a newer epoch, or of the stored one when none is given.
DeleteConnection(u) ==
  /\ fence[u] = NoProc
  /\ \/ store[u].epoch < MaxEpoch /\ SetVersion(u, store[u].epoch + 1, "revoked")
     \/ store[u].state = "stored" /\ SetVersion(u, store[u].epoch, "revoked")

-----------------------------------------------------------------------------
(* Collector.collect_once and _collect_one                                 *)

ListConnections(c) ==
  /\ proc[c].pc = "idle"
  /\ LET stored == {u \in Users : store[u].state = "stored"}
     IN  proc' = [proc EXCEPT ![c] = Between("next", stored)]
  /\ UNCHANGED <<store, lock, fence, profile, sent, told>>

EndCycle(c) ==
  /\ proc[c].pc = "next" /\ proc[c].todo = {}
  /\ Goto(c, "idle")
  /\ UNCHANGED <<store, lock, fence, profile, sent, told>>

\* The server address, the profile storage or the lock file is unusable.
PreflightFails(c, u) ==
  /\ proc[c].pc = "next" /\ u \in proc[c].todo
  /\ GoOn(c, u)
  /\ UNCHANGED <<store, lock, fence, profile, sent, told>>

Skip(c, u) ==
  /\ proc[c].pc = "next" /\ u \in proc[c].todo
  /\ lock[u] # NoProc
  /\ GoOn(c, u)
  /\ UNCHANGED <<store, lock, fence, profile, sent, told>>

Acquired(c, u) ==
  /\ proc[c].pc = "next" /\ u \in proc[c].todo
  /\ lock' = [lock EXCEPT ![u] = c]
  /\ proc' = [proc EXCEPT ![c] = [@ EXCEPT !.pc = "read", !.user = u]]
  /\ UNCHANGED <<store, fence, profile, sent, told>>

\* Mutant of Acquire: the lock file is opened but not locked.
AcquireAlways(c, u) == Acquired(c, u)

Acquire(c, u) == lock[u] = NoProc /\ Acquired(c, u)

\* A connection revoked since it was listed has only its residue removed.
Read(c) ==
  LET version == store[proc[c].user] IN
  /\ proc[c].pc = "read" /\ fence[proc[c].user] = NoProc
  /\ IF version.state = "stored"
     THEN proc' = [proc EXCEPT ![c] = [@ EXCEPT !.pc = "check", !.epoch = version.epoch]]
     ELSE Finish(c, "skipped")
  /\ UNCHANGED <<store, lock, fence, profile, sent, told>>

ReadFails(c) ==
  /\ proc[c].pc = "read"
  /\ proc' = [proc EXCEPT ![c] = [@ EXCEPT !.pc = "report", !.status = "failed"]]
  /\ UNCHANGED <<store, lock, fence, profile, sent, told>>

-----------------------------------------------------------------------------
(* _collect_with_token and _drive_profile: a check of the credential before *)
(* every boundary; the last one keeps the fence.                            *)

Checked(c) ==
  IF ~Current(c) THEN Finish(c, "skipped")
  ELSE IF proc[c].stage = "polled"
       THEN proc' = [proc EXCEPT ![c].stage = "publish"]
       ELSE Goto(c, "do")

\* Mutant of Check: the credential is checked, the fence is not kept.
CheckUnfenced(c) ==
  /\ proc[c].pc = "check" /\ fence[proc[c].user] = NoProc
  /\ Checked(c)
  /\ UNCHANGED <<store, lock, fence, profile, sent, told>>

Check(c) ==
  /\ proc[c].pc = "check" /\ fence[proc[c].user] = NoProc
  /\ Checked(c)
  /\ fence' = IF proc[c].stage = "publish"
              THEN [fence EXCEPT ![proc[c].user] = c] ELSE fence
  /\ UNCHANGED <<store, lock, profile, sent, told>>

CheckFails(c) ==
  /\ proc[c].pc = "check"
  /\ Finish(c, "failed")
  /\ UNCHANGED <<store, lock, fence, profile, sent, told>>

Proceed(c) ==
  proc' = [proc EXCEPT ![c] = [@ EXCEPT !.pc = "check", !.stage = After[proc[c].stage]]]

At(c, stage) == proc[c].pc = "do" /\ proc[c].stage = stage

\* __enter__, select_workspace and the poll change nothing the model keeps.
Step(c) ==
  /\ \E s \in {"enter", "select", "poll"} : At(c, s)
  /\ Proceed(c)
  /\ UNCHANGED <<store, lock, fence, profile, sent, told>>

StepFails(c) ==
  /\ \E s \in {"enter", "select", "poll"} : At(c, s)
  /\ Finish(c, "failed")
  /\ UNCHANGED <<store, lock, fence, profile, sent, told>>

\* The residue is removed, then the CLI logs in with the token that was read.
Login(c) ==
  /\ At(c, "login")
  /\ profile' = [profile EXCEPT ![proc[c].user] = proc[c].epoch]
  /\ Proceed(c)
  /\ UNCHANGED <<store, lock, fence, sent, told>>

\* The residue stays, or it is gone, or the CLI failed after it logged in.
LoginFails(c) ==
  /\ At(c, "login")
  /\ \E left \in {profile[proc[c].user], 0, proc[c].epoch} :
       profile' = [profile EXCEPT ![proc[c].user] = left]
  /\ Finish(c, "failed")
  /\ UNCHANGED <<store, lock, fence, sent, told>>

Publish(c) ==
  /\ At(c, "publish")
  /\ sent' = [sent EXCEPT ![proc[c].user] = proc[c].epoch]
  /\ Finish(c, "collected")
  /\ UNCHANGED <<store, lock, fence, profile, told>>

\* Before the upload, or with the host's answer lost.
PublishFails(c) ==
  /\ At(c, "publish")
  /\ \E e \in {sent[proc[c].user], proc[c].epoch} :
       sent' = [sent EXCEPT ![proc[c].user] = e]
  /\ Finish(c, "failed")
  /\ UNCHANGED <<store, lock, fence, profile, told>>

-----------------------------------------------------------------------------
(* finish: cleanup of the profile, the report, and the locks are released. *)

Cleanup(c) ==
  /\ proc[c].pc = "cleanup"
  /\ profile' = [profile EXCEPT ![proc[c].user] = 0]
  /\ Goto(c, "report")
  /\ UNCHANGED <<store, lock, fence, sent, told>>

\* Mutant of CleanupFails: a success is reported with residue on disk.
CleanupIgnored(c) ==
  /\ proc[c].pc = "cleanup"
  /\ Goto(c, "report")
  /\ UNCHANGED <<store, lock, fence, profile, sent, told>>

\* The logout failed, or the residue could not be removed: no success.
CleanupFails(c) ==
  /\ proc[c].pc = "cleanup"
  /\ \E left \in {profile[proc[c].user], 0} :
       profile' = [profile EXCEPT ![proc[c].user] = left]
  /\ LET status == IF proc[c].status = "collected" THEN "failed" ELSE proc[c].status
     IN  proc' = [proc EXCEPT ![c] = [@ EXCEPT !.pc = "report", !.status = status]]
  /\ UNCHANGED <<store, lock, fence, sent, told>>

\* A report that fails is logged and forgotten.
Report(c) ==
  LET u == proc[c].user IN
  /\ proc[c].pc = "report"
  /\ \/ proc[c].status = "collected" /\ told' = [told EXCEPT ![u] = proc[c].epoch]
     \/ told' = told
  /\ lock' = [lock EXCEPT ![u] = NoProc]
  /\ fence' = Without(fence, c)
  /\ GoOn(c, u)
  /\ UNCHANGED <<store, profile, sent>>

\* Mutant of Die: the lock is a file that has to be deleted.
DieKeepsLock(c) ==
  /\ proc[c].pc # "idle"
  /\ proc' = [proc EXCEPT ![c] = Idle]
  /\ fence' = Without(fence, c)
  /\ UNCHANGED <<store, lock, profile, sent, told>>

\* The process dies, alone or interrupted, in which case it erases the
\* profile first. A login or an upload may just have got through.
Die(c) ==
  LET u == proc[c].user IN
  /\ proc[c].pc # "idle"
  /\ proc' = [proc EXCEPT ![c] = Idle]
  /\ lock' = Without(lock, c) /\ fence' = Without(fence, c)
  /\ \/ UNCHANGED <<profile, sent>>
     \/ /\ proc[c].pc \in {"check", "do", "cleanup"}
        /\ profile' = [profile EXCEPT ![u] = 0] /\ sent' = sent
     \/ /\ At(c, "login")
        /\ profile' = [profile EXCEPT ![u] = proc[c].epoch] /\ sent' = sent
     \/ /\ At(c, "publish")
        /\ sent' = [sent EXCEPT ![u] = proc[c].epoch] /\ profile' = profile
  /\ UNCHANGED <<store, told>>

-----------------------------------------------------------------------------
\* What goes wrong in the world around a process, which goes on.
Failure(c) ==
  \/ \E u \in Users : PreflightFails(c, u)
  \/ ReadFails(c) \/ CheckFails(c) \/ StepFails(c) \/ LoginFails(c)
  \/ PublishFails(c) \/ CleanupFails(c)

Progress(c) ==
  \/ ListConnections(c) \/ EndCycle(c)
  \/ \E u \in Users : Skip(c, u) \/ Acquire(c, u)
  \/ Read(c) \/ Check(c) \/ Step(c) \/ Login(c) \/ Publish(c)
  \/ Cleanup(c) \/ Report(c)

Sync == \E u \in Users : StoreToken(u) \/ DeleteConnection(u)

Next == Sync \/ \E c \in Procs : Progress(c) \/ Failure(c) \/ Die(c)

Spec == Init /\ [][Next]_vars

-----------------------------------------------------------------------------
TypeOK ==
  /\ store \in [Users -> Version]
  /\ lock \in [Users -> Procs \union {NoProc}]
  /\ fence \in [Users -> Procs \union {NoProc}]
  /\ profile \in [Users -> Epochs]
  /\ sent \in [Users -> Epochs]
  /\ told \in [Users -> Epochs]
  /\ proc \in [Procs -> Proc]
  /\ \A c \in Procs : proc[c].pc \in {"idle", "next"} <=> proc[c].user = NoUser

\* A process with a success it has not reported yet.
Succeeded(c) == proc[c].pc \in {"cleanup", "report"} /\ proc[c].status = "collected"
LoggedIn(c) ==
  /\ proc[c].pc \in {"check", "do"}
  /\ proc[c].stage \in {"select", "poll", "polled", "publish"}

\* A snapshot is sent only for the credential that is stored at that moment:
\* a replace or a revoke that came back before the last check keeps it home.
SentCurrent ==
  [][\A u \in Users : sent'[u] # sent[u] =>
        store[u] = [epoch |-> sent'[u], state |-> "stored"]]_vars

\* The host hears of a success only after a snapshot of the same credential
\* was sent and its token was erased from disk, and while it is still current.
ToldClean ==
  [][\A u \in Users : told'[u] # told[u] =>
        /\ told'[u] = sent[u] /\ profile[u] = 0
        /\ store[u] = [epoch |-> told'[u], state |-> "stored"]]_vars

\* While a connection's workspace is chosen and polled, the CLI is logged in
\* with the token that was read: no other collector logs in over it or
\* removes its profile, whatever was left on disk before.
PollsOwnToken ==
  \A c \in Procs : LoggedIn(c) => profile[proc[c].user] = proc[c].epoch

\* What these properties rest on: a process has the lock of its connection,
\* and from its last check to its report also the fence, so that the
\* credential it checked, the snapshot it sent and the profile it erased
\* stay as they are.
CollectorInv ==
  \A c \in Procs :
    LET u == proc[c].user IN
    /\ proc[c].pc \in {"idle", "next", "read"} => proc[c].stage = "enter"
    /\ u # NoUser => lock[u] = c
    /\ LoggedIn(c) => profile[u] = proc[c].epoch
    /\ At(c, "publish") \/ Succeeded(c) => fence[u] = c /\ Current(c)
    /\ Succeeded(c) => sent[u] = proc[c].epoch
    /\ Succeeded(c) /\ proc[c].pc = "report" => profile[u] = 0
=============================================================================
