------------------------------- MODULE Handoff -------------------------------
(***************************************************************************)
(* The hand-off of a user's token from the public host to the trusted      *)
(* worker: aistat/handoff.py on the host, where every operation is one     *)
(* BEGIN IMMEDIATE transaction on security.db, and aistat/worker_sync.py   *)
(* with aistat/worker_store.py on the worker.                              *)
(*                                                                         *)
(* host[u]    the row of u in `connections`                                *)
(* account[u] u still has a row in `users`                                 *)
(* store[u]   the row of u in `worker_connection_versions`; the encrypted  *)
(*            copy in `worker_connections` is written and deleted in the   *)
(*            same transactions, so it exists iff state is "stored"        *)
(* cycle[c]   one run of worker_sync.pull_once.  Several are in progress   *)
(*            at once: two worker processes, or a run whose HTTP call      *)
(*            timed out on the worker while the host still serves it.      *)
(*            todo holds the items of the pull response not yet applied,   *)
(*            acks what the run will confirm; sending says that the host   *)
(*            is applying them                                             *)
(* report[u]  the epoch of a collection outcome under way to the host, 0   *)
(*            when there is none                                           *)
(*                                                                         *)
(* Time is relative: age is now - updated_at of a row that waits for the   *)
(* worker, saturated at PendingTTL; left is lease_expires_at - now, at     *)
(* least 0.                                                                *)
(***************************************************************************)
EXTENDS Integers, FiniteSets

CONSTANTS
  Users,        \* the users a connection may belong to (the owner is none)
  Cycles,       \* concurrent runs of pull_once
  Leases,       \* lease identifiers; one is drawn afresh by every pull
  NoLease,      \* the NULL lease
  PendingTTL,   \* connection_pending_ttl_seconds, in ticks
  LeaseTTL,     \* WORKER_LEASE_SECONDS, in ticks
  MaxAckItems,  \* MAX_ACK_ITEMS
  MaxEpoch      \* a bound of the model: users stop acting at this epoch

ASSUME HandoffAssumption ==
  /\ NoLease \notin Leases
  /\ PendingTTL \in Nat \ {0}
  /\ LeaseTTL \in Nat \ {0}
  /\ MaxAckItems \in Nat \ {0}
  /\ MaxEpoch \in Nat

VARIABLES account, host, store, cycle, report

vars == <<account, host, store, cycle, report>>

-----------------------------------------------------------------------------
Leasable   == {"pending", "replacement_pending"}
Held       == {"active", "error"}
Withdrawn  == {"revocation_pending", "revoked"}
Statuses   == {"none"} \union Leasable \union Held \union Withdrawn

Row == [status: Statuses, epoch: Nat, token: BOOLEAN, poisoned: BOOLEAN,
        lease: Leases \union {NoLease}, left: 0..LeaseTTL, age: 0..PendingTTL]

NoRow == [status |-> "none", epoch |-> 0, token |-> FALSE, poisoned |-> FALSE,
          lease |-> NoLease, left |-> 0, age |-> 0]

\* A row of an older release, whose server_url is not the official one.
LegacyRow == [NoRow EXCEPT !.status = "pending", !.epoch = 1, !.token = TRUE,
                           !.poisoned = TRUE]

Version == [epoch: Nat, state: {"none", "stored", "revoked"}]
NoVersion == [epoch |-> 0, state |-> "none"]

\* An entry of the pull response, and the ack the worker makes of it.
Item == [kind: {"stored", "revoked"}, user: Users, epoch: Nat \ {0},
         lease: Leases \union {NoLease}]

Run == [todo: SUBSET Item, acks: SUBSET Item, sending: BOOLEAN]
IdleRun == [todo |-> {}, acks |-> {}, sending |-> FALSE]

HasRow(u) == host[u].status # "none"

-----------------------------------------------------------------------------
(* Transformations of one host row.                                        *)

\* Mutant of Withdraw: the plaintext survives the withdrawal.
WithdrawKeepsToken(r) == [r EXCEPT !.status = "revocation_pending", !.epoch = @ + 1,
                                   !.lease = NoLease, !.left = 0, !.age = 0]

\* The token is erased and the epoch moves on: a disconnect, an expiry, the
\* deletion of the account or a poisoned URL.
Withdraw(r) == [r EXCEPT !.status = "revocation_pending", !.epoch = @ + 1,
                         !.token = FALSE, !.lease = NoLease, !.left = 0,
                         !.age = 0]

Expired(r) == r.status \in Leasable /\ r.age >= PendingTTL

\* Mutant of PurgeExpired: nothing ever expires.
NeverExpires(r) == r

\* _purge_expired_pending_locked, for one row.
PurgeExpired(r) == IF Expired(r) THEN Withdraw(r) ELSE r

\* Mutant of LeaseRow: a lease that is still live is handed out once more.
LeaseRowReuses(r, l) ==
  LET p == PurgeExpired(r) IN
  IF p.status \in Leasable /\ p.token
  THEN IF p.poisoned THEN Withdraw(p)
       ELSE IF p.left > 0 THEN p
       ELSE [p EXCEPT !.lease = l, !.left = LeaseTTL]
  ELSE p

\* lease_pending_connections, for one row: the sweep, then the lease, which
\* replaces the one an earlier pull was given.
LeaseRow(r, l) ==
  LET p == PurgeExpired(r) IN
  IF p.status \in Leasable /\ p.token
  THEN IF p.poisoned THEN Withdraw(p)
       ELSE [p EXCEPT !.lease = l, !.left = LeaseTTL]
  ELSE p

\* ack_connection_stored accepts the ack a for row r.
StoredAckAccepted(r, a) ==
  /\ r.status \in Leasable
  /\ r.epoch = a.epoch
  /\ r.lease # NoLease
  /\ r.lease = a.lease
  /\ r.left > 0

AckStored(r, a) ==
  IF StoredAckAccepted(r, a)
  THEN [r EXCEPT !.status = "active", !.token = FALSE, !.lease = NoLease,
                 !.left = 0, !.age = 0]
  ELSE r

\* Mutant of AckRevoked: the epoch of the ack is not compared.
AckRevokedAnyEpoch(r, a) ==
  IF r.status = "revocation_pending" THEN [r EXCEPT !.status = "revoked"] ELSE r

AckRevoked(r, a) ==
  IF r.epoch = a.epoch /\ r.status = "revocation_pending"
  THEN [r EXCEPT !.status = "revoked"]
  ELSE r

ApplyAck(r, a) == IF a.kind = "stored" THEN AckStored(r, a)
                                       ELSE AckRevoked(r, a)

-----------------------------------------------------------------------------
(* The worker's store.                                                     *)

\* Mutant of StoreAccepted: a tombstone does not stop an older epoch.
StoreOverTombstone(v, e) == v.state # "stored" \/ v.epoch <= e

\* store_token returns True for epoch e against version v.
StoreAccepted(v, e) == v.epoch < e \/ (v.epoch = e /\ v.state = "stored")

\* Mutant of DeleteAccepted: repeating a delete is not a success.
DeleteOnlyOnce(v, e) == v.epoch < e

\* delete_connection returns True for an explicit epoch e.
DeleteAccepted(v, e) == v.epoch < e \/ (v.epoch = e /\ v.state = "revoked")

-----------------------------------------------------------------------------
Init ==
  /\ account = [u \in Users |-> TRUE]
  /\ host \in [Users -> {NoRow, LegacyRow}]
  /\ store = [u \in Users |-> NoVersion]
  /\ cycle = [c \in Cycles |-> IdleRun]
  /\ report = [u \in Users |-> 0]

-----------------------------------------------------------------------------
(* Requests of the users and of the operator.                              *)

\* submit_connection: a new or a replacing token under a fresh epoch.
Submit(u) ==
  /\ account[u]
  /\ host[u].epoch + 2 <= MaxEpoch
  /\ host' = [host EXCEPT ![u] =
       [status   |-> IF HasRow(u) THEN "replacement_pending" ELSE "pending",
        epoch    |-> host[u].epoch + 1,
        token    |-> TRUE,
        poisoned |-> FALSE,
        lease    |-> NoLease, left |-> 0, age |-> 0]]
  /\ UNCHANGED <<account, store, cycle, report>>

\* revoke_connection: False without a row, idempotent once withdrawn.
Revoke(u) ==
  /\ HasRow(u)
  /\ host[u].status \notin Withdrawn
  /\ host' = [host EXCEPT ![u] = Withdraw(@)]
  /\ UNCHANGED <<account, store, cycle, report>>

\* Mutant of DeleteUser: the row always goes with the account.
DeleteUserAndRow(u) ==
  /\ account' = [account EXCEPT ![u] = FALSE]
  /\ host' = [host EXCEPT ![u] = NoRow]
  /\ UNCHANGED <<store, cycle, report>>

\* SecurityStore.delete_user: a revoked row goes with the account, any other
\* row stays behind as a tombstone the worker still has to confirm.  The
\* command may be repeated for an account that is already gone.
DeleteUser(u) ==
  /\ account' = [account EXCEPT ![u] = FALSE]
  /\ \/ /\ host[u].status \in {"none", "revoked"}
        /\ host' = [host EXCEPT ![u] = NoRow]
     \/ /\ host[u].status \notin {"none", "revoked"}
        /\ host[u].epoch < MaxEpoch
        /\ host' = [host EXCEPT ![u] = Withdraw(@)]
  /\ UNCHANGED <<store, cycle, report>>

\* connection_status: reading one status sweeps the expired rows of all.
ReadStatus ==
  /\ host' = [u \in Users |-> PurgeExpired(host[u])]
  /\ UNCHANGED <<account, store, cycle, report>>

-----------------------------------------------------------------------------
(* The worker's cycle.                                                     *)

Idle(c) == cycle[c].todo = {} /\ cycle[c].acks = {}

LeasesOf(c) == {i.lease : i \in cycle[c].todo \union cycle[c].acks}

\* secrets.token_urlsafe never repeats an identifier, so the identifiers that
\* nothing refers to any more stand for fresh ones.  One identifier serves
\* all rows of a pull: it is compared row by row.
FreshLeases ==
  Leases \ ({host[u].lease : u \in Users} \union UNION {LeasesOf(c) : c \in Cycles})

PullResponse(rows) ==
  {[kind |-> "stored", user |-> u, epoch |-> rows[u].epoch,
    lease |-> rows[u].lease] :
       u \in {v \in Users : rows[v].status \in Leasable /\ rows[v].token}}
  \union
  {[kind |-> "revoked", user |-> u, epoch |-> rows[u].epoch,
    lease |-> NoLease] :
       u \in {v \in Users : rows[v].status = "revocation_pending"}}

\* A run starts: the host serves the pull and the worker gets the response.
Pull(c) ==
  /\ Idle(c)
  /\ \E l \in FreshLeases :
       LET rows == [u \in Users |-> LeaseRow(host[u], l)] IN
       /\ host' = rows
       /\ cycle' = [cycle EXCEPT ![c].todo = PullResponse(rows)]
  /\ UNCHANGED <<account, store, report>>

\* The host serves a pull whose response never reaches the worker.
LostPull ==
  /\ \E l \in FreshLeases : host' = [u \in Users |-> LeaseRow(host[u], l)]
  /\ UNCHANGED <<account, store, cycle, report>>

\* store_token for one pending item; a stale item is skipped without an ack.
StoreToken(c, i) ==
  /\ i \in cycle[c].todo /\ i.kind = "stored"
  /\ \/ /\ StoreAccepted(store[i.user], i.epoch)
        /\ store' = [store EXCEPT ![i.user] =
                       [epoch |-> i.epoch, state |-> "stored"]]
        /\ cycle' = [cycle EXCEPT ![c].todo = @ \ {i},
                                  ![c].acks = @ \union {i}]
     \/ /\ ~ StoreAccepted(store[i.user], i.epoch)
        /\ cycle' = [cycle EXCEPT ![c].todo = @ \ {i}]
        /\ UNCHANGED store
  /\ UNCHANGED <<account, host, report>>

\* Mutant of StoreFails: the item is acknowledged all the same.
StoreFailsButAcks(c, i) ==
  /\ i \in cycle[c].todo /\ i.kind = "stored"
  /\ cycle' = [cycle EXCEPT ![c].todo = @ \ {i}, ![c].acks = @ \union {i}]
  /\ UNCHANGED <<account, host, store, report>>

\* store_token raises WorkerStoreError: the item is reported and skipped.
StoreFails(c, i) ==
  /\ i \in cycle[c].todo /\ i.kind = "stored"
  /\ cycle' = [cycle EXCEPT ![c].todo = @ \ {i}]
  /\ UNCHANGED <<account, host, store, report>>

\* delete_connection for one revoked item, after all pending ones.
DeleteConnection(c, i) ==
  /\ i \in cycle[c].todo /\ i.kind = "revoked"
  /\ \A j \in cycle[c].todo : j.kind = "revoked"
  /\ \/ /\ DeleteAccepted(store[i.user], i.epoch)
        /\ store' = [store EXCEPT ![i.user] =
                       [epoch |-> i.epoch, state |-> "revoked"]]
        /\ cycle' = [cycle EXCEPT ![c].todo = @ \ {i},
                                  ![c].acks = @ \union {i}]
     \/ /\ ~ DeleteAccepted(store[i.user], i.epoch)
        /\ cycle' = [cycle EXCEPT ![c].todo = @ \ {i}]
        /\ UNCHANGED store
  /\ UNCHANGED <<account, host, report>>

\* All acks of a run go out in one call, which the host refuses as a whole
\* when it holds more than MAX_ACK_ITEMS.
SendAcks(c) ==
  /\ cycle[c].todo = {} /\ cycle[c].acks # {} /\ ~ cycle[c].sending
  /\ \/ /\ Cardinality(cycle[c].acks) <= MaxAckItems
        /\ cycle' = [cycle EXCEPT ![c].sending = TRUE]
     \/ /\ Cardinality(cycle[c].acks) > MaxAckItems
        /\ cycle' = [cycle EXCEPT ![c] = IdleRun]
  /\ UNCHANGED <<account, host, store, report>>

\* apply_worker_acks: every item is a transaction of its own.
HostAck(c, a) ==
  /\ cycle[c].sending /\ a \in cycle[c].acks
  /\ host' = [host EXCEPT ![a.user] = ApplyAck(@, a)]
  /\ cycle' = [cycle EXCEPT ![c].acks = @ \ {a},
                            ![c].sending = (cycle[c].acks # {a})]
  /\ UNCHANGED <<account, store, report>>

\* The run ends early: the process dies, delete_connection raises, or the
\* ack call is lost, possibly after some of its items were applied.
Abort(c) ==
  /\ ~ Idle(c)
  /\ cycle' = [cycle EXCEPT ![c] = IdleRun]
  /\ UNCHANGED <<account, host, store, report>>

-----------------------------------------------------------------------------
(* The collector's report of an outcome for the epoch it worked with.      *)

StartReport(u) ==
  /\ report[u] = 0 /\ store[u].state = "stored"
  /\ report' = [report EXCEPT ![u] = store[u].epoch]
  /\ UNCHANGED <<account, host, store, cycle>>

\* record_connection_sync: a stale epoch or another state changes nothing.
RecordSync(u) ==
  /\ report[u] # 0
  /\ \/ /\ host[u].epoch = report[u] /\ host[u].status \in Held
        /\ \E s \in Held : host' = [host EXCEPT ![u].status = s]
     \/ /\ ~ (host[u].epoch = report[u] /\ host[u].status \in Held)
        /\ UNCHANGED host
  /\ report' = [report EXCEPT ![u] = 0]
  /\ UNCHANGED <<account, store, cycle>>

LoseReport(u) ==
  /\ report[u] # 0
  /\ report' = [report EXCEPT ![u] = 0]
  /\ UNCHANGED <<account, host, store, cycle>>

-----------------------------------------------------------------------------
\* Mutant of Tick: an expired lease keeps counting.
TickPastZero ==
  /\ host' = [u \in Users |->
       [host[u] EXCEPT
          !.age = IF host[u].status \in Leasable /\ @ < PendingTTL
                  THEN @ + 1 ELSE @,
          !.left = @ - 1]]
  /\ UNCHANGED <<account, store, cycle, report>>

Tick ==
  /\ host' = [u \in Users |->
       [host[u] EXCEPT
          !.age = IF host[u].status \in Leasable /\ @ < PendingTTL
                  THEN @ + 1 ELSE @,
          !.left = IF @ > 0 THEN @ - 1 ELSE 0]]
  /\ UNCHANGED <<account, store, cycle, report>>

UserStep == \E u \in Users : Submit(u) \/ Revoke(u) \/ DeleteUser(u)

ApplyItem(c, u) ==
  \E i \in cycle[c].todo : i.user = u /\ (StoreToken(c, i) \/ DeleteConnection(c, i))

ApplyAckOf(c, u) == \E a \in cycle[c].acks : a.user = u /\ HostAck(c, a)

CycleStep(c) ==
  \/ Pull(c)
  \/ \E u \in Users : ApplyItem(c, u) \/ ApplyAckOf(c, u)
  \/ SendAcks(c)

ReportStep == \E u \in Users : StartReport(u) \/ RecordSync(u)

\* What a network, a disk or a process that dies can do.
FailureStep ==
  \/ LostPull
  \/ \E c \in Cycles : Abort(c) \/ \E i \in cycle[c].todo : StoreFails(c, i)
  \/ \E u \in Users : LoseReport(u)

RegularStep ==
  \/ UserStep
  \/ ReadStatus
  \/ \E c \in Cycles : CycleStep(c)
  \/ ReportStep
  \/ Tick

Next == RegularStep \/ FailureStep

Spec == Init /\ [][Next]_vars

-----------------------------------------------------------------------------
(* What the hand-off implements.                                           *)

PhaseOf(u) ==
  CASE host[u].status = "none" -> IF account[u] THEN "none" ELSE "gone"
    [] host[u].status \in Leasable -> "offered"
    [] host[u].status \in Held -> "held"
    [] host[u].status = "revocation_pending" -> "withdrawn"
    [] host[u].status = "revoked" -> "revoked"

CopyOf(u) == IF store[u].state = "stored" THEN store[u].epoch ELSE 0

Custody == INSTANCE TokenCustody WITH
  phase  <- [u \in Users |-> PhaseOf(u)],
  gen    <- [u \in Users |-> host[u].epoch],
  worker <- [u \in Users |-> CopyOf(u)]

\* Leases, lost responses, aborted and concurrent runs together do no more
\* than TokenCustody allows (handoff.py:42-47).
ImplementsCustody == Custody!CSpec

-----------------------------------------------------------------------------
(* Properties.                                                             *)

\* The variables have their types.
TypeOK ==
  /\ account \in [Users -> BOOLEAN]
  /\ host \in [Users -> Row]
  /\ store \in [Users -> Version]
  /\ cycle \in [Cycles -> Run]
  /\ report \in [Users -> Nat]

\* A connection reads active or error only while the worker holds the token of
\* exactly that epoch: no delayed, repeated or expired ack makes the host
\* erase a token nobody else has (handoff.py:708-714).
ActiveMeansStored ==
  \A u \in Users : host[u].status \in Held =>
    store[u] = [epoch |-> host[u].epoch, state |-> "stored"]

\* "a revoked connection provably leaves no active worker credential behind"
\* (handoff.py:509-511): the worker's copy is gone, and no item of any run
\* still in progress can bring one back.
RevokedMeansNoCopy ==
  \A u \in Users : host[u].status = "revoked" =>
    /\ store[u].state # "stored"
    /\ \A c \in Cycles : \A i \in cycle[c].todo :
         i.user = u /\ i.kind = "stored" => ~ StoreAccepted(store[u], i.epoch)

\* Once delete_user has removed the connection row with the account, no copy
\* of the token exists or can still be stored (security.py:883-892).
DeletedLeavesNothing ==
  \A u \in Users : ~ account[u] /\ ~ HasRow(u) =>
    /\ store[u].state # "stored"
    /\ \A c \in Cycles : \A i \in cycle[c].todo :
         i.user = u /\ i.kind = "stored" => ~ StoreAccepted(store[u], i.epoch)

\* The plaintext is on the host exactly while the connection waits for the
\* worker, whatever ended the wait.
TokenOnlyWhilePending ==
  \A u \in Users : host[u].token <=> host[u].status \in Leasable

\* "exactly one lease can ever acknowledge a given epoch" (handoff.py:624):
\* of the acks that different runs hold, the host would accept at most one.
OneUsableLease ==
  \A c, d \in Cycles : \A a \in cycle[c].acks, b \in cycle[d].acks :
    /\ c # d /\ a.user = b.user
    /\ a.kind = "stored" /\ b.kind = "stored"
    => ~ (StoredAckAccepted(host[a.user], a) /\ StoredAckAccepted(host[b.user], b))

\* A step that gives the worker a copy never does so for a connection the
\* host already reads as settled: neither active, nor revoked, nor gone.
NoStoreOnceSettled ==
  [][\A u \in Users : store'[u] # store[u] /\ store'[u].state = "stored" =>
       host[u].status \in Leasable \union {"revocation_pending"}]_vars

-----------------------------------------------------------------------------
(* The inductive invariant behind them.                                    *)

\* Runs still in progress know at most the host's epoch, and of that epoch
\* they know the right thing; what they know of a deleted row is old news to
\* the worker's store.
KnownOf(i) ==
  IF HasRow(i.user)
  THEN /\ i.epoch <= host[i.user].epoch
       /\ i.epoch = host[i.user].epoch =>
            (i.kind = "revoked" <=> host[i.user].status \in Withdrawn)
  ELSE i.epoch <= store[i.user].epoch

ItemInv == \A c \in Cycles : \A i \in cycle[c].todo : KnownOf(i)

\* An ack tells what the store has done, unless the store has moved on.
DoneOf(a) ==
  \/ a.epoch < store[a.user].epoch
  \/ store[a.user] = [epoch |-> a.epoch, state |-> a.kind]

AckInv == \A c \in Cycles : \A a \in cycle[c].acks : DoneOf(a)

\* The worker is never ahead of the host; a user without a row has nothing.
StoreInv ==
  \A u \in Users :
    IF HasRow(u)
    THEN host[u].epoch > 0 /\ store[u].epoch <= host[u].epoch
    ELSE /\ host[u].epoch = 0
         /\ store[u].state # "stored" /\ (account[u] => store[u].epoch = 0)

\* A connection is revoked only over the worker's tombstone of that epoch.
RevokedInv ==
  \A u \in Users : host[u].status = "revoked" =>
    store[u] = [epoch |-> host[u].epoch, state |-> "revoked"]

\* No lease is known to two runs.
LeaseInv ==
  \A c, d \in Cycles :
    c # d => LeasesOf(c) \intersect LeasesOf(d) \subseteq {NoLease}

\* All of it together, preserved by every step.
IInv ==
  /\ TypeOK
  /\ TokenOnlyWhilePending
  /\ ItemInv
  /\ AckInv
  /\ StoreInv
  /\ ActiveMeansStored
  /\ RevokedInv
  /\ LeaseInv
=============================================================================
