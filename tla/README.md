# A TLA+ verification of AIStat

AIStat collects usage data of Multica agents on a trusted machine (the
*worker*), publishes one signed snapshot per user (*tenant*) to a public web
host, and serves dashboards from the snapshots installed there. A user who wants
to be collected hands a Multica API token to the host, which passes it on to the
worker and forgets it.

This directory holds TLA+ specifications of the parts where order, failure and
concurrency matter, configurations that check them with TLC on small instances,
and proofs that TLAPS checks for every instance. Paths below are relative to
the repository's `aistat/`.

## 1. Inventory

| Component | State | Operations | Hard behaviour |
|---|---|---|---|
| Token hand-off, host (`handoff.py`, `security.py`) | `connections` rows: status, epoch, plaintext token, lease, times; nonces; throttle | submit, revoke, status, pull, acks, sync report, delete account | leases of concurrent runs, lost answers, expiry against acks under way |
| Token hand-off, worker (`worker_sync.py`, `worker_store.py`) | encrypted copies; epoch and tombstone per user | `pull_once`, store, delete, ack, report | partial failure, repetition, old epochs |
| Snapshot ingest (`wsgi.py`, `snapshot_recovery.py`, `security.py`) | `<id>.db`, `.previous`, staged files; watermark and journal in `security.db`; ingest lock | upload, start-up recovery, purge | crash between two durable objects, workers taking over, replay |
| Freshness (`snapshot.py`) | none | `freshness_report` | shortcuts that could let a shrunken history through |
| Cross-tenant statistics (`global_stats.py`) | rows per tenant with the sha they come from | refresh, boot sync, delete | derived data that is stale or outlives its source |
| Publisher (`publish.py`) | the marker it remembers | look, snapshot, send, retry | a marker older than the snapshot, lost answers |
| Collector (`collector.py`, `cli_profile.py`) | lock per tenant, CLI profile, tenant database | collect, log in, poll, publish, clean up | credential changes under way, residue after crashes |
| Supervisor (`supervisor.py`) | child processes, restart history, instance lock | start, poll, restart, stop | crash loops, backoff, signals during a pass, a contour that cannot be started |
| Accounts (`security.py`, `oauth.py`, `wsgi.py`) | users, identities, sessions, OAuth states | log in, register, link, rotate, delete | one-time states, ids read before and used after a purge |
| CGI twin (`legacy_wsgi.py`) | login throttle, worker nonces | log in, signed worker calls | checks and records in separate transactions |
| Poller and local store (`poller.py`, `store.py`, `db.py`, `normalize.py`) | local database, detail keys, flow events | poll cycle | deadline, stale keys, a remote that changes while it is read |
| Migration, rebuild (`migrate.py`, `rebuild.py`) | source, target, archive; captures | migrate; capture, replay, verify | crash between steps, inputs that change meanwhile |
| Backup (`backup.py`, `backup_offsite.py`) | generations, sidecars, bundles, metadata | back up, prune, restore, push, drill | partial restore, compensation, two-file replacement |
| Runtime installation (`runtime_install.py`) | code directories, launchd job, status | install, uninstall, roll back, restart | failure between moves, launchd calls and health checks; a status that comes late |
| Pricing and billing (`pricing.py`) | price files, mirror, history, costs; a row per period | every cycle; reconcile | late edits, repeated bills, lost answers |
| Dashboard aggregates (`aggregates.py`, `flow_metrics.py`, `lineage.py`) | none | queries | clipping, missing ends, attribution, baselines |
| Release checks (`preflight.py`, `release_identity.py`) | none | | |
| Local server, health, configuration, front end, scripts | routing and settings | | |

How they interact: the browser submits a token to the host; the worker's
`pull_once` leases it, stores it and acks; the collector reads the worker's
store, polls with the CLI into the tenant's database, and publishes through
`publish.py` to the ingest of the host; its outcome returns to the host as a
sync report. Account deletion touches hand-off, ingest and statistics. The
supervisor keeps the worker's processes running; the installation replaces the
code they run; backup and migration move the files they write.

What makes each part correct:

* hand-off: the host says "active" only if the worker holds that very
  generation; "revoked" only if nobody does; plaintext leaves the host; every
  revocation is confirmed in the end;
* ingest: usage never shrinks, old uploads are never installed, a crash leaves
  database and watermark together;
* statistics: they describe the snapshot they name;
* publisher: the host ends up with the newest data whatever is lost, and a round
  that finds nothing new is right;
* collector: nothing is published or reported with a credential that was
  replaced before; an old token leaves the disk;
* supervisor: no contour runs twice or outlives it, save those of a run that was
  killed or could not start a contour; the dead are restarted, a stop ends;
* accounts: a state is consumed once, a session serves the person who signed
  in, accounts and identities fit together;
* CGI channel: a lock-out is neither evaded nor prolonged, a signed call is
  acted on once;
* poller: an issue taken for settled has all its tokens, and a backlog drains;
* backup, off-site copy, migration, installation: at every crash point a
  complete old or a complete new state is there;
* rebuild: what is verified is what was captured;
* pricing: a closed day is not repriced by an earlier revision, no price is lost;
* aggregates: shares add up, no start or readiness is dated back.

`PROJECT.json` lists the hazards one by one, each at its line with the
properties that cover it, or with the reason why none does.

## 2. Modules

| Module | Role |
|---|---|
| `TokenCustody` | abstract specification of the hand-off: who may hold which generation of a token |
| `Handoff`, `HandoffProgress` | host, worker store, runs of `pull_once`, messages and failures; with fairness |
| `HandoffProofs` | inductive invariant and safety theorems; `Handoff` implements `TokenCustody` |
| `Freshness`, `FreshnessChain` | the verdict on an incoming snapshot; sequences of accepted uploads |
| `SnapshotInstall`, `SnapshotProofs` | ingest, journal, recovery, statistics, purge; what the verdict means, invariants and theorems |
| `Collector`, `CollectorProgress`, `CollectorProofs` | a collection cycle per process: lock, fence, profile, publish, report; with fairness; theorems |
| `Accounts`, `AccountsProofs` | users, identities, sessions, provider sign-in, purge; theorems |
| `WorkerNonce` | signed worker calls: timestamp window and nonce table |
| `LoginThrottle` | the lock-out of one client address |
| `Supervisor` | one supervisor, its contours and launchd |
| `Poller`, `PollerProofs` | poll cycles against a changing Multica; invariant and theorems |
| `Publish` | the watch loop of the publisher |
| `Backup`, `Offsite` | generations and restore; encrypted bundles |
| `Migrate`, `Rebuild`, `RuntimeInstall` | the commands of the same names |
| `Pricing`, `Billing` | price history and costs; reconciliation of a bill |
| `FlowFacts`, `Shares`, `IdleShare` | durable flow rows and what is derived; split of usage among runs; idle time |
| `SharesProofs` | sums over finite sets and fractions, and the laws of the split that rest on them |
| `Records` | everything that is stored or computed from it, one part per initial state |
| `RecordsProofs`, `OperationsProofs` | the theorems of `Records`: data and figures; commands, processes and files |
| `MC*` | instances for TLC |

`Records` and `MCServices` hold several modules that share no state, so
interleaving two of them would show nothing that each alone does not. An initial
state chooses one of them in the variable `part`; the slots `v1`, `v2`, ... are
its variables, substituted by `INSTANCE ... WITH`, and the properties speak of
the part they belong to. `Records` takes the constants of its parts as its own;
`MCRecords` gives them values, and the theorems leave them open.

### Hand-off

One action per transaction of the host (`Submit`, `Revoke`, `DeleteUser`,
`ReadStatus`, `RecordSync`) and per step of `pull_once`: `Pull` (request,
expiry sweep, leases, answer), `StoreToken`, `StoreFails`, `DeleteConnection`,
`SendAcks`, `HostAck` (one ack of the call), `LostPull`, `Abort`. A run keeps
what it has read (`cycle[c]`) across its steps, so two runs, or a run the worker
has given up while the host still serves it, interleave at every point. Time is
relative and saturated: `age` of a waiting row up to `PendingTTL`, `left` of a
lease; `Tick` advances both. Encryption, signatures and the wording of errors
are left out; an answer is lost by `LostPull` and `Abort`.

`TokenCustody` has no leases, messages or runs. The mapping `Custody` takes a
row's status to a phase and the worker's row to the generation it holds.

`WorkerNonce` is the door of this channel: a request is signed once, its copies
arrive at any time, and a CGI process may pause between the check of the
timestamp and the transaction that consumes the nonce. `off` and `seen` are the
ages of timestamp and row, and `NonTick` advances both.

### Snapshot ingest

`SnapshotInstall` follows one tenant. A database is its table of usage, `NoDb`
or `Unreadable`; a sha256 is the content it identifies. `proc[p]` is a worker
process inside `create_app` (`Boot`, `RecoverForward`, `RecoverSwap`,
`RecoverCommit`, `RecoverBack`, `Sync`) or inside `ingest_snapshot` (`Receive`,
`Enter`, `Stage`, `Reject`, `Journal`, `Swap`, `Abort`, `Commit`, `Derive`,
`WriteStats`). Every durable write is a step of its own, and between any two the
process may be killed (`Crash`) or the request end in an exception (`Raise`); in
both cases the lock is released and what was written stays. `purge_user` takes
no lock, so `PurgeRows` and `PurgeFiles` interleave with everything.
`SwapMayFail` says whether the swap may raise (a full disk, a copy that fails).
A half-written `.previous` and the removal of staged files after the journal's
transaction are folded into the step before: no property depends on them.

`Publish` is the other end. The poller commits data and only later a beat or a
finished cycle, the marker; the publisher reads the marker, takes the snapshot,
sends it, and remembers the marker of what the host confirmed. Answers are lost,
and the publisher restarts without what it remembered.

### Collection

`proc[c]` is a run of `collect_once`: the connections left to do, the one it is
at, the epoch of the token it has read, and the boundary it has reached
(`Stages`). `Check` is the look at the credential before each boundary; the last
one, before the publish, keeps the fence until `Report`. `StoreToken` and
`DeleteConnection` are what `worker_sync` does to the store; a fenced section
that is one short transaction is one step that waits for the fence to be free.
Every call may fail (`PreflightFails`, `ReadFails`, `CheckFails`, `StepFails`,
`LoginFails`, `PublishFails`, `CleanupFails`, with every outcome a failure may
leave behind), and a process may die at every step (`Die`), with or without the
clean-up that an interrupt allows. `sent` and `told` are what the host has
received. A profile directory is the epoch of the token in it.

`Poller` is what runs inside: one cycle reads runs, daily usage, the pages of
the issue list and the details of the pending issues, while `clock` and the
remote issues go on. An issue is known by the key it was synchronised for; the
budget and the deadline cut the backlog; any source may fail (`MaxErrors`) and
any tick overrun (`MaxOverruns`).

`Supervisor` is the loop around: `proc[c]` is a contour's process, `due` the
wait before its restart, `restarts` the ages in the window of the budget. A
signal may arrive at any point of the pass, and a contour may ignore `SIGTERM`.
A run may also end without `stop()`: the supervisor is killed (`Killed`), or a
contour cannot be spawned (`SpawnFails`: `run` catches nothing but `CrashLoop`).
The contours it had started are in sessions of their own and live on until they
exit by themselves (`OrphanDies`), the lock goes with the process, and launchd
starts the next run beside them.

### Accounts

Every method of `SecurityStore` is one transaction, so one action; a request is
several of them, and `req[p]` keeps what its handler has read (the cookie it came
with, the person and account it resolved). Requests of several browsers, the
operator's purge and the expiry of rows interleave in between, responses reach a
browser in any order or not at all. `login` and `passed` are history: who began
which session, and how many callbacks got past the checks of a state.
`LoginThrottle` follows the steps of a password attempt for requests side by
side: read the row, delete it if what was read had run out, check the password,
record the outcome. Each is a transaction of its own, and the deletion names the
client only, so that it takes whatever row is there by then.

### Files on disk

`Backup` has for each database its file, its sidecar and its `.pre-restore`
copy; `create_backup` and `restore_backup` proceed database by database and may
fail or be killed at every step, and the compensation may itself be interrupted.
Databases are handled in the order of the manifest, in a rollback in reverse; a
task keeps the set of those still to do and takes the first, or last, of them.
`Offsite` stages file and metadata and renames one after the other; the listing
goes by metadata. `Migrate` is one registry transaction that commits last around
file operations that precede it. `Rebuild` captures commands with their answers
and replays them later, after usage and prices have changed or a stored
directory was damaged. `RuntimeInstall` moves generations between `code`,
`code.prev` and `code.rollback`, with a launchd job whose process runs what was
in place when it started. Its supervisor reports at its own pace (`Reports`): a
rollback, and the undoing of one (`Reject`, `Unpark`, `Reread`, `Reload`,
`Undone`), reads the pid in the last status, and only then renders the plist and
stops and starts the job; `late` records that the supervisor to be replaced has
reported in between.

### Figures

`Pricing` follows one model through edits of the two price files: mirror,
insert-only history, and the recosting of every day in each cycle; a row holds
one unit of tokens, so its cost is its rate. `Billing` is the row of one period:
a submission reads and writes it in one transaction under the ingest lock, and
its answer may be lost. `FlowFacts` has the true course of one card beside the
rows the poller leaves (`upsert_issues`) and what `flow_metrics` reads from them.
`Shares` evaluates the
split of a row over every small set of runs, with missing and reversed ends and
ties, for every selected range: `make_filters` takes a range between two
midnights for whole dates and any other for a clock range, and `daily_shares`
splits the row by the one or the other rule. `IdleShare` is the pass over fleet
snapshots, compared second by second with its definition.

## 3. Runs

| Run | Question | Result |
|---|---|---|
| `handoff` | one user, two concurrent runs, every failure: safety, and implementation of `TokenCustody` | holds |
| `handoff_progress` | two users in one batch: is every revocation confirmed, and does every plaintext leave the host, once failures stop? | holds |
| `handoff_batch` | the same with more items than `MAX_ACK_ITEMS` | violated: finding 1 |
| `install` | two workers, crashes, purge: database and watermark together, statistics labelled, usage never shrinks, no replay | holds |
| `collector` | one connection, two processes: own token polled, current credential sent, success reported truthfully | holds |
| `accounts` | two browsers and requests: sessions, states, accounts, purge | holds |
| `services` | the processes that run for ever: what must eventually happen | holds |
| `records` | what is stored and what is computed from it, at every crash point and for every small input | holds |
| `runtime_failed` | does a failed install restore the previous runtime? | violated: finding 2 |
| `crash_loop` | does the supervisor give up on a contour that exits at once? | violated: finding 3 |
| `backlog` | does an older issue get its turn when every tick overruns? | violated: finding 4 |
| `flow_zero` | is a cycle time measured only from a start before its end? | violated: finding 5 |

`services` checks, by part: collector `EventuallySent`, `OldTokenGoes`;
supervisor `Restarted`; poller and publisher `CatchesUp`; login `LockEnds`.
`records`: backup `BackupKept`, off-site
`OffsiteKept`, migration `Migrated`, rebuild `RebuildFaithful`, installation
`RuntimeProven`, poller `SettledIsFresh`, nonces `ServedOnce`, prices and bills
`CostsRight`, flow and idle time `FlowMeasured`, shares `SharesAdd`, ingest with
swaps that fail, chains of uploads and the publisher `IngestForward`, supervisor
`OneInstance`, login `LockLimits`.

Bounds, and why they suffice:

* hand-off: epochs up to `MaxEpoch` (2 to 5; users stop acting there, the worker
  does not), 3 or 4 leases, of which a pull draws one nobody refers to, lifetimes
  of one or two ticks. Five epochs allow submit, replace, revoke, resubmit and
  delete in one behaviour with runs of two generations pending;
* ingest: two workers (one to die, one to take over), three temporary files, two
  timestamps, three tables of two days that cover or do not cover each other, and
  an unreadable upload. With failing swaps (`records`) one worker that restarts;
* collection: three epochs and two processes, one to die or to lag and one to
  take over; connections meet only in the list of a cycle, so one is checked;
* accounts: two browsers, two requests, five people (the administrator, two who
  may register, one not on the list, one without an address), three account ids,
  two sessions and two states: enough for a purge and a new registration under a
  request, and for a cookie that is replaced;
* supervisor: two contours and a budget of one restart in three polls, so that
  backoff, budget and shutdown meet; one run that ends without `stop()`.
  `crash_loop` has one contour and the code's own defaults, in units of the poll
  interval;
* poller: two issues on two pages, one error, one overrun; three or two events of
  Multica. Every cut of the backlog falls between the two;
* publisher: two commits, two losses; login: three requests, two failures
  allowed, windows of three ticks, so that an overshoot, the end of a window and
  a late deletion meet;
* files: two databases, three generations, a retention of one, and one to three
  faults: each fault stops one command, and what a second command finds has then
  been through every crash point;
* nonces: two requests and processes, a window of two; prices: two days and two
  edits; flow: one card, three or four changes, three instants; shares: two runs
  of two agents around a day of two hours and an hour before it, with every range
  over them: the day as a date, and each clock range that cuts or covers it, so
  that cuts of a date into clock ranges, and of a clock range into a date and the
  rest, occur; idle time: three snapshots.

Longer behaviours repeat these situations, and the theorems do not depend on the
bounds. Deadlock is not checked where the bounds let a part come to rest.
Workers, files, leases, browsers and requests are symmetric where a run has no
liveness property; the liveness runs use no symmetry.

Fairness. Nothing is assumed of users, the operator or the network beyond this:

* `handoff_progress`: time passes; a run that can take a step takes one (`watch`
  repeats `pull_once` for ever and the supervisor restarts it); at some time
  failures cease. A network that is down for ever confirms nothing;
* collector: each process goes on with its cycle, weakly, since `watch` loops for
  ever and nobody holds the fence for longer than one publish; from some moment
  on (`calm`) processes stop dying, credentials stop changing and nothing fails;
* supervisor: its loop takes its next step (`Run`); runs that end without `stop()`
  are bounded;
* poller: its loop goes on and a run ends some day (`FinishRun`); errors and
  overruns are bounded, except in `backlog`, where every tick may overrun;
* publisher: the poller beats on a timer, and the watch loop sleeps, looks,
  snapshots and sends; losses are bounded;
* login: time passes.

## 4. Proofs

All proofs are checked by `tlapm` without gaps, for every set of users, runs,
leases, processes, workers, files, snapshots, browsers, issues, databases,
agents and identities, and every lifetime, limit and bound that the named
assumptions allow. The assumptions say that sizes are natural numbers, that a
value standing for "none" or "unreadable" is no datum, that sets which the
program holds in memory are finite, and three facts of the code's own constants:
a login lock lasts at least as long as the window it is earned in
(`ThrottleAssumption`), a request pauses for less than the window of its
timestamp (`NonceAssumption`), and a row that is split has a candidate agent and a
day that lies between two midnights (`SharesAssumption`).

Each safety property and each action property that a run expects to hold is
also a theorem. The exceptions are the liveness properties, listed at the end.

| Module | Theorems about |
|---|---|
| `HandoffProofs` | the hand-off, and that it implements `TokenCustody` |
| `SnapshotProofs` | freshness, ingest and recovery |
| `CollectorProofs`, `AccountsProofs`, `PollerProofs` | these components |
| `RecordsProofs` | poller, nonces, failing swaps, chains of uploads, publisher, prices, billing, flow, idle time, shares, as parts of `Records` |
| `OperationsProofs` | supervisor, rebuild, migration, installation, backup, off-site copy, login throttle, as parts of `Records` |
| `SharesProofs` | lemmas only: sums, fractions, and the split of a row |

*Hand-off.* `IInv` adds to the visible invariants what they rest on: what each
run in progress knows of an epoch (an item it will store, an ack it will send),
what the worker's row and tombstone say of it, and which of them the host's row
can still accept. Without it "active means stored" is not inductive: an ack
under way would have to be believed. From it follow `ActiveIsStored`,
`TokenOnlyWaits`, `RevokedIsGone`, `DeletedIsGone`, `LeaseIsExclusive`,
`StoredOnlyUnsettled` and, with the refinement mapping,
`HandoffImplementsCustody`: every step is a step of `TokenCustody` or a stutter.

*Ingest.* A readable snapshot is accepted exactly when it covers the installed
one, and covering is transitive (the lemmas at the head of `SnapshotProofs`).
`InstallInv`: the lock has one holder (`LockInv`), the database covers what the
watermark names (`DbInv`), the journal entry may be installed by whoever finds it
(`JournalInv`), and what a worker found out under the lock still holds when it
acts on it (`ProcInv`). It holds whatever fails, and gives `UsageNeverShrinks`,
`NoUploadReplayed` and `MarkIsBehind`. `SoundInv` adds, for the case that no swap
raises, that an entry can always be completed; it gives
`ConsistentUnlessSwapsFail` and `LabelledUnlessSwapsFail`. The condition is
needed: see "Refuted" below. Without it, `IngestGoesForward` is what remains.

*Collection.* `CollectorInv`: a process has the lock of its connection; from its
last check to its report it also has the fence, so that the credential it
checked is the stored one, the snapshot it sent was for it, and the profile it
erased stays erased. Without the fence the check would say nothing about the
moment of sending, without the lock nothing about the profile. From it follow
`PollsWithOwnToken`, `SendsCurrent` and `ReportsTheTruth`.

*Accounts.* `AccountsInv` says of every request what it may still rely on
(`Holds`): the account it read is the one its person signs in to, or is gone,
and will never be somebody else's, because ids are not given twice. A step that
respects this (`Monotone`) cannot hurt a request it does not serve
(`OthersHold`), so each action is argued for the one request it moves. From it
follow all six properties of the run `accounts`.

*Poller.* A key "accounts for" a run if the tokens at hand are those of the run,
or if the run had not ended when the key was taken (`Accounted`). `PolInv` says
this of all three places a key can be: of a mark in the database by the stored
tokens, of a key that waits in the backlog by the tokens Multica has, and of the
first of them by the answer already fetched. Because the key is taken before the
details are asked for, it can only be behind them, and an issue that is settled
under its present key is complete: `SettledAreFresh`.

*The parts of `Records`.* For each part a lemma says what `PartsInit` and a step
of `PartsNext` mean for it, and the part's own invariant, defined in its module,
is shown initial and inductive; the theorem joins them for all parts it speaks
of. What carries each invariant:

* nonces (`NonInv`, `RequestsServedOnce`): a served request is too old or has its
  row, and row and timestamp age together; a copy between its check and its
  transaction meets the row, since the TTL has three windows: for a timestamp
  ahead of the host's clock, for its age, and for the pause;
* publisher (`PubInv`): a marker that was read is not a later one, and a snapshot
  taken after the current marker was read has what that marker announces;
* chains (`ChainInv`): the last upload covers every earlier one, so the verdict on
  neighbours covers the history;
* prices (`PriInv`, `CostsStayRight`): a row that was costed from a revision not
  after its day was costed from the history's revision of that date; after a
  cycle nothing is left to publish and every row has its cost;
* bills (`BilInv`): the row says a diagnostic was sent exactly while it is over,
  and nothing was answered since it was last within;
* flow (`FlowInv`, `FlowIsMeasured`): what is not recorded yet has happened since
  the last sync, and what is recorded has happened before it, a baseline
  excepted;
* idle time (`IdlInv`): the totals are the sizes of the sets of seconds that the
  rows processed so far speak for, and one row adds one disjoint interval;
* shares (`SharesAreConserved`): see below;
* supervisor (`SupInv`, `OneOfEachContour`): the processes of a contour are those
  the running supervisor knows of, before the contour it has reached when
  starting and from it on when stopping, and at most one more for each run that
  ended without `stop()`;
* rebuild (`RebInv`, `VerifiedRebuilds`): a replay is priced from the input it is
  published for, and a verdict is gone with the first change of what it was given
  on;
* migration (`MigInv`, `MigrationSafe`): at each step the copy in hand is what
  the legacy database has, and the latter goes only when archive and tenant have
  it;
* installation (`RtInv`, `RollbackProven`): where the two generations are at each
  step of a rollback, and that any status other than the one saved comes from the
  supervisor it booted, unless the one it replaced reported `late`;
* backup (`BakInv`, `BackupsKept`): which members are installed, untouched or put
  back at each point of the order, measured against what was saved at the start;
* off-site (`OffInv`, `OffsitePushesKeep`): a bundle that has lost its file, or is
  about to, is behind as many complete ones as the retention asks for. The
  running prune keeps its list while its target changes, so this is said of the
  bundles that list leaves alone (`Firm`);
* login (`ThrInv`, `LoginsAreLimited`): every counted failure of the running
  window is a recent one, and at the limit the lock outlasts the window; only
  requests admitted before it still count, one each (`RowLimit`). A request that
  is about to delete a row read that row after its window had ended, so that in
  one window each deletes once at most, and failures since a window ran out or a
  success stay below `RowLimit` for the row and as much again for each request.

*Shares.* The sums of `daily_shares` are folds over sets, and no induction over
them is available: the library's induction theorems take an operator as a
parameter. `SharesProofs` argues by a smallest counterexample instead. A fold is
the value of a table of partial folds (`SumIsTable`), whose first wrong entry
would have to follow a right one; from this come the laws used afterwards
(`SumRemove`, `SumLinear`, `SumJoin`, `SumParts`, `SumBounds`). Fractions are added
over a common denominator of all of them (`CommonMultiple`, `FractionSum`). The
overlap of a run with a range splits where the range is cut (`OverlapCut`), hence
`HoursCut` and `RangeCut`. A share is, for dates as for clock ranges, the hours in
the range over the hours of the day wherever the day has dated runs
(`ShareIsHours`, since dates cover the whole day or nothing of it, `DatesCover`),
so that shares of mixed ranges add up (`ShareCut`, `FractionsAdd`); without dated
runs a range between midnights has the day in one of its parts (`OnePart`).
`RangeCut` carries issue fractions and working hours. Every hour of the day is of
one agent and of one of its projects (`KeySums`, `AgentSums`), hence the weights of each level add up to one
and so do their products (`DayAddsUp`), whichever of hours, counts or equal parts
the code falls back to. Orders by rank (the poller's lists, the members of a
manifest, the bundles of a listing) are treated in the same way, by a least
element rather than by induction on a list.

Model-checked only:

* liveness, since it needs fairness and `ENABLED`, which the prover does not
  treat: `RevocationConfirmed`, `TokenLeavesHost`, `EventuallySent`,
  `OldTokenGoes`, `Restarted`, `CatchesUp` and `LockEnds`;
* the counterexamples of the five runs that expect a violation.

## 5. Findings

1. `handoff_batch`: `pull_once` sends all acks of a cycle in one call, the host
   refuses a call of more than 100 acks, and pulls are not bounded. With more
   than 100 connections waiting nothing is confirmed any more.
2. `runtime_failed`: `install` swaps the code outside the `try` that restores
   it. When the second of the two moves raises, there is no code in place.
3. `crash_loop`: with the default budget and backoff the first of six restarts
   has left the window before the sixth, so a contour that exits at once is
   restarted for ever and the loop is never reported.
4. `backlog`: the one issue that is exempt from the deadline is the most
   recently updated one, and an issue with an active run is always pending; it
   takes the exempt attempt of every overrunning tick.
5. `flow_zero`: a card that was done at the baseline, then reopened and started,
   is measured with a cycle time of zero.

Refuted without a run. These definitions stay in their modules because they say
what one might expect; each fails in a few steps.

* `SnapshotInstall!Consistent` when swaps may raise: an install that swapped and
  died before its commit is journaled over; if the next swap raises, the journal
  row goes and the new database stays with the old watermark. Usage still never
  shrinks (`IngestForward`).
* `SnapshotInstall!PurgedLeavesNoData`, `PurgedLeavesNoStats`: an upload past its
  checks when `purge_user` runs puts files or statistics of the deleted tenant
  back.
* `Collector!RevokedLeavesNoResidue`: a collector dies while its CLI profile is
  logged in and the connection is revoked before the next cycle: it is no longer
  listed, and nobody removes the profile.
* `Supervisor!NeverDoubled`: a contour that cannot be spawned ends the supervisor
  with an `OSError` and without `stop()`; the contours already started live on and
  launchd starts them again, although "a single-instance flock guarantees a second
  supervisor can never double-run the contours".
* `Supervisor!NoOrphanedHelper`: a contour that dies leaves the subprocess it had
  started.
* `Offsite!AlreadyMeansPublished`: a push killed between the two renames leaves
  the file without its metadata; the retry calls it published, yet nothing lists,
  verifies or drills it.
* `LoginThrottle!LimitedByOneRow`: a request that read a row whose window had
  ended deletes it only after others have failed anew, and with it their count or
  the lock they have earned.
* `RuntimeInstall!UndoneIsHealthy`: undoing a rollback reads the pid in the status,
  then stops the rejected supervisor. If that one reports for the first time in
  between, its status is not the one that was read and passes for the proof that
  the restored generation runs.
* `RuntimeInstall!NoDuplicateContours`: not every command that starts the
  supervisor's job has unloaded the legacy one before.
* `Accounts!NoTraceOfPurged`: a request admitted before the purge recreates a row
  of the submission throttle, or a session, of the deleted id.
* `Pricing!UnpricedSurfaced`: a day under an unpriced revision has no cost, but a
  later revision has a price, the mirror holds that one, and health asks the
  mirror.

Two behaviours the models show and no document speaks against: an undated override
of a price is ignored once the history has a dated one; and the usage of a day
without dated runs is shown by whole dates and vanishes from a clock range that
covers the day, so that the parts of a range need not add up to it (`RangesAdd`
asks there for ranges of one kind, `OneKind`).

## 6. Not modelled

* Cryptography, HTTP framing, validation of formats, SQL and the file formats are
  abstracted to their outcome.
* Hand-off: the readiness window of the worker; encryption and schema migration
  of its store. A restore of the host's `security.db` from an older backup is
  not composed with the hand-off: `Backup` treats a database as a version, while
  `Handoff` starts from a common history.
* CGI twin: its ingest, OAuth and API handlers repeat those of `wsgi.py` over the
  same stores; they are covered only as far as both call the same functions.
* Accounts: the exchange with a provider is success or failure, and the closing
  of registration is one constant.
* Poller: normalisation of the answers and the schema migrations of the store.
* Aggregates: the remaining queries are sums and listings without a state or an
  interval to get wrong; `lineage.py` is not modelled.
* Installation: launchd starting a supervisor again that has exited by itself
  (`KeepAlive`); a generation that is not sound never reports.
* Release checks, local server, health reports, configuration, front end and
  deployment scripts hold no state whose order matters beyond the parts above;
  `RuntimeInstall` takes the verdict of the release checks as given.
