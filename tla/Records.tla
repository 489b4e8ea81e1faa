------------------------------ MODULE Records -------------------------------
(***************************************************************************)
(* What the program stores and what it computes from it - backups,         *)
(* migration, rebuild, installation, the poller's rows, nonces, prices,    *)
(* flow facts, shares, the ingest with swaps that fail, what the publisher *)
(* remembers, the row of the login throttle, and the processes the         *)
(* supervisor keeps - in one specification.  The parts share no state, so  *)
(* an interleaving of two of them shows nothing that each alone does not:  *)
(* an initial state chooses one of them in part, and the slots v1, v2, ... *)
(* hold the variables of its module in the order of their declaration.     *)
(***************************************************************************)
EXTENDS Naturals, Sequences

CONSTANTS
    None, Absent, Garbage, Unsound, Unlimited, NoDb,  \* no value of any part
    Members, Order, Retention, MaxVersion, MaxGens, MaxFaults,    \* Backup
    Generations, OffRetention, MaxMishaps,                        \* Offsite
    MaxContent, MaxTrips,                                         \* Migrate
    Runtimes, MaxUsage, MaxCaptures, MaxBreaks,                   \* Rebuild
    Gens, MaxPid, MaxSlips,                                       \* RuntimeInstall
    Issues, PageLimit, Budget, MaxClock, MaxErrors, MaxOverruns,  \* Poller
    Signed, Serving, MaxAge, Slow,                                \* WorkerNonce
    Days, Usd, Cards, PerUsd, MaxEdits,                           \* Pricing
    MaxTime, MaxMoves,                                            \* FlowFacts
    Agents, Projects, Runs, DayStart, DayEnd, LastHour, Midnights, \* Shares
    Gap, Now, MaxSnaps,                                           \* IdleShare
    Keys, DateOf, Snapshots, Procs, Files, MaxAt, SwapMayFail,    \* SnapshotInstall
    Tables,                                                       \* FreshnessChain
    N, MaxRestarts, Window, Base, Cap, MaxUnclean, Helpers,       \* Supervisor
    MaxData, MaxIdle, MaxLosses,                                  \* Publish
    Clients, MaxFailures, LoginWindow, LoginLock                  \* LoginThrottle

VARIABLES
    part,  \* the part a behaviour is of
    v1, v2, v3, v4, v5, v6, v7, v8, v9, v10, v11, v12, v13, v14, v15, v16, v17,
    v18, v19, v20

BK == INSTANCE Backup WITH live <- v1, pre <- v2, side <- v3, gens <- v4,
    made <- v5, task <- v6, todo <- v7, staged <- v8, step <- v9, saved <- v10,
    failed <- v11, faults <- v12

OS == INSTANCE Offsite WITH local <- v1, enc <- v2, meta <- v3, inc <- v4,
    at <- v5, gen <- v6, excess <- v7, told <- v8, alerts <- v9, report <- v10,
    mishaps <- v11

MI == INSTANCE Migrate WITH MaxVersion <- MaxContent, legacy <- v1,
    tenant <- v2, archive <- v3, admins <- v4, matches <- v5, row <- v6,
    stamp <- v7, pc <- v8, candidate <- v9, legacyHeld <- v10, trips <- v11

RB == INSTANCE Rebuild WITH listed <- v1, used <- v2, price <- v3, input <- v4,
    output <- v5, work <- v6, captures <- v7, verdict <- v8, breaks <- v9

RI == INSTANCE RuntimeInstall WITH code <- v1, prev <- v2, hold <- v3,
    sound <- v4, fit <- v5, plist <- v6, job <- v7, pid <- v8, status <- v9,
    legacy <- v10, cmd <- v11, saved <- v12, was <- v13, swap <- v14,
    result <- v15, slips <- v16, late <- v17

PO == INSTANCE PollerProofs WITH clock <- v1, updated <- v2, run <- v3, usage <- v4,
    daily <- v5, lUpdated <- v6, lRun <- v7, lUsage <- v8, lDaily <- v9,
    syncedFor <- v10, failing <- v11, src <- v12, got <- v13, page <- v14,
    pending <- v15, first <- v16, fetched <- v17, covered <- v18,
    errors <- v19, overruns <- v20

NO == INSTANCE WorkerNonce WITH off <- v1, seen <- v2, serving <- v3,
    wait <- v4, served <- v5

PR == INSTANCE Pricing WITH Broken <- Unsound, base <- v1, over <- v2,
    mirror <- v3, history <- v4, usage <- v5, synced <- v6, edits <- v7

BI == INSTANCE Billing WITH row <- v1, reported <- v2

FL == INSTANCE FlowFacts WITH now <- v1, created <- v2, status <- v3,
    ready <- v4, entered <- v5, finished <- v6, readied <- v7, moves <- v8,
    began <- v9, storedStatus <- v10, storedReady <- v11, events <- v12,
    readies <- v13, syncedNow <- v14

SH == INSTANCE SharesProofs WITH runs <- v1, lo <- v2, hi <- v3

ID == INSTANCE IdleShare WITH snaps <- v1, from <- v2, row <- v3, idle <- v4,
    covered <- v5, paused <- v6, unavailable <- v7, gap <- v8

SW == INSTANCE SnapshotProofs WITH Unreadable <- Unsound, NoProc <- None,
    NoFile <- None, tenant <- v1, mark <- v2, journal <- v3, db <- v4,
    previous <- v5, staged <- v6, stats <- v7, lock <- v8, proc <- v9,
    purge <- v10

CH == INSTANCE FreshnessChain WITH Unreadable <- Unsound, Snapshots <- Tables,
    first <- v1, current <- v2

SU == INSTANCE Supervisor WITH phase <- v1, at <- v2, stop <- v3, proc <- v4,
    due <- v5, restarts <- v6, procs <- v7, helper <- v8, unclean <- v9,
    exit <- v10

PU == INSTANCE Publish WITH data <- v1, marker <- v2, told <- v3, idle <- v4,
    at <- v5, last <- v6, held <- v7, snap <- v8, host <- v9, sentAt <- v10,
    losses <- v11

TH == INSTANCE LoginThrottle WITH Requests <- Clients, Window <- LoginWindow,
    Lock <- LoginLock, row <- v1, at <- v2, wrong <- v3, tries <- v4

\* Slots a part has no use for.
Free17 == <<v18, v19, v20>>
Zero17 == v18 = 0 /\ v19 = 0 /\ v20 = 0
Free14 == <<v15, v16, v17, Free17>>
Zero14 == v15 = 0 /\ v16 = 0 /\ v17 = 0 /\ Zero17
Free12 == <<v13, v14, Free14>>
Zero12 == v13 = 0 /\ v14 = 0 /\ Zero14
Free11 == <<v12, Free12>>
Zero11 == v12 = 0 /\ Zero12
Free10 == <<v11, Free11>>
Zero10 == v11 = 0 /\ Zero11
Free9 == <<v10, Free10>>
Zero9 == v10 = 0 /\ Zero10
Free8 == <<v9, Free9>>
Zero8 == v9 = 0 /\ Zero9
Free7 == <<v8, Free8>>
Zero7 == v8 = 0 /\ Zero8
Free5 == <<v6, v7, Free7>>
Zero5 == v6 = 0 /\ v7 = 0 /\ Zero7
Free4 == <<v5, Free5>>
Zero4 == v5 = 0 /\ Zero5
Free3 == <<v4, Free4>>
Zero3 == v4 = 0 /\ Zero4
Free2 == <<v3, Free3>>
Zero2 == v3 = 0 /\ Zero3

slots == <<part, v1, v2, v3, v4, v5, v6, v7, v8, v9, v10, v11, v12, v13, v14,
    v15, v16, v17, v18, v19, v20>>

PartsInit ==
    \/ part = "backup" /\ BK!BakInit /\ Zero12
    \/ part = "offsite" /\ OS!OffInit /\ Zero11
    \/ part = "migrate" /\ MI!MigInit /\ Zero11
    \/ part = "rebuild" /\ RB!RebInit /\ Zero9
    \/ part = "install" /\ RI!RtInit /\ Zero17
    \/ part = "poller" /\ PO!PolInit
    \/ part = "nonce" /\ NO!NonInit /\ Zero5
    \/ part = "pricing" /\ PR!PriInit /\ Zero7
    \/ part = "billing" /\ BI!BilInit /\ Zero2
    \/ part = "flow" /\ FL!FloInit /\ Zero14
    \/ part = "shares" /\ SH!ShaInit /\ Zero3
    \/ part = "idle" /\ ID!IdlInit /\ Zero8
    \/ part = "swaps" /\ SW!Init /\ Zero10
    \/ part = "chain" /\ CH!ChainInit /\ Zero2
    \/ part = "supervisor" /\ SU!SupInit /\ Zero10
    \/ part = "publisher" /\ PU!PubInit /\ Zero11
    \/ part = "throttle" /\ TH!ThrInit /\ Zero4

PartsNext ==
    /\ UNCHANGED part
    /\ \/ part = "backup" /\ BK!BakNext /\ UNCHANGED Free12
       \/ part = "offsite" /\ OS!OffNext /\ UNCHANGED Free11
       \/ part = "migrate" /\ MI!MigNext /\ UNCHANGED Free11
       \/ part = "rebuild" /\ RB!RebNext /\ UNCHANGED Free9
       \/ part = "install" /\ RI!RtNext /\ UNCHANGED Free17
       \/ part = "poller" /\ PO!PolNext
       \/ part = "nonce" /\ NO!NonNext /\ UNCHANGED Free5
       \/ part = "pricing" /\ PR!PriNext /\ UNCHANGED Free7
       \/ part = "billing" /\ BI!BilNext /\ UNCHANGED Free2
       \/ part = "flow" /\ FL!FloNext /\ UNCHANGED Free14
       \/ part = "shares" /\ SH!ShaNext /\ UNCHANGED Free3
       \/ part = "idle" /\ ID!IdlNext /\ UNCHANGED Free8
       \/ part = "swaps" /\ SW!Next /\ UNCHANGED Free10
       \/ part = "chain" /\ CH!Install /\ UNCHANGED Free2
       \/ part = "supervisor" /\ SU!SupNext /\ UNCHANGED Free10
       \/ part = "publisher" /\ PU!PubNext /\ UNCHANGED Free11
       \/ part = "throttle" /\ TH!ThrNext /\ UNCHANGED Free4

PartsSpec == PartsInit /\ [][PartsNext]_slots

-----------------------------------------------------------------------------
\* Backups: a restore puts every selected database in place or leaves all as
\* they were, no failed check ever becomes live, and no failing create leaves
\* fewer generations than the retention (restore_backup, create_backup).
BackupKept ==
    /\ [](part = "backup" => BK!RestoreAllOrNothing /\ BK!LiveSound)
    /\ [][part = "backup" => BK!StaysRetained]_slots

\* Offsite: however pushes end, complete bundles never become fewer than the
\* retention, and the newest listed bundle has its file (push_offsite).
OffsiteKept ==
    /\ [](part = "offsite" => OS!LatestWhole)
    /\ [][part = "offsite" => OS!StaysComplete]_slots

\* Migration: wherever it stops, the owner's content survives in the legacy
\* database or the archive, the tenant's own data is never set back, and a
\* command that ends has migrated all (migrate_owner_database).
Migrated ==
    /\ [](part = "migrate" => MI!ArchiveFirst)
    /\ [][part = "migrate" => MI!StepsForward /\ MI!EndsWhole]_slots

\* Rebuild: what verify accepts is what the captured poll itself saw.
RebuildFaithful == part = "rebuild" => RB!VerifiedIsFaithful

\* Installation: a rollback that stops anywhere leaves both generations on
\* disk, one that succeeds or undoes itself runs a sound supervisor unless the
\* one it replaced reported late, and a cutover reported done has left no
\* legacy job loaded (runtime_install.py).
RuntimeProven ==
    /\ [](part = "install" => RI!BothOnDisk /\ RI!ProvenHealthy)
    /\ [][part = "install" => RI!EndsRetired]_slots

\* Poller: an issue taken for settled has every token its runs have accrued,
\* whatever changed between the answers it was written from.
SettledIsFresh == part = "poller" => PO!SettledIsFresh

\* Worker calls: a signed request is acted on at most once, whenever and
\* however often its copies arrive (consume_worker_nonce).
ServedOnce == part = "nonce" => NO!ServedOnce

\* Prices: a closed day is repriced only by a later revision, repeated cycles
\* converge, and no price is lost but by the files or the history; and however
\* bills follow one another, a variance is answered with one diagnostic
\* (pricing.py).
CostsRight ==
    /\ [][part = "pricing" => PR!RepricesByLater /\ PR!Converges /\ PR!KeepsPrices]_slots
    /\ [](part = "billing" => BI!OneDiagnostic)

\* Flow facts: behind every measured start and readiness there is a true one
\* that the collection could have seen, and every second of the fleet's time
\* is counted once, by the snapshot that saw it (flow_metrics.py).
FlowMeasured ==
    /\ part = "flow" => FL!NothingBackdated
    /\ part = "idle" => ID!SecondsExact

\* Shares: those of a day add up to its row while dates are selected, and those
\* of a range to the sum of its parts, dates and clock ranges mixed where the
\* day has dated runs (aggregates.daily_shares).
SharesAdd == part = "shares" => SH!DayConserved /\ SH!RangesAdd

\* Ingest: whatever swaps fail, recorded usage never disappears and no older
\* upload is installed; the verdict on neighbours is enough for the history;
\* and a round of the publisher that finds nothing new is right (publish_once).
IngestForward ==
    /\ [][part = "swaps" => SW!Forward /\ SW!OnlyNewer]_slots
    /\ [](part = "chain" => CH!ChainCovers /\ CH!VerdictIsCovering)
    /\ [](part = "publisher" => PU!RememberedIsInstalled)

\* A supervisor has at most one process of each contour and leaves none behind
\* when it stops: all others are left by runs that ended without stop(), killed
\* or failing to spawn a contour, at most one by each (stop, _terminate,
\* SingleInstanceLock of supervisor.py).
OneInstance == part = "supervisor" => SU!OneInstance

\* Logins: requests checked side by side overshoot the limit of a row by one
\* each, a deletion that comes late costs a further row at most, and a lock is
\* imposed only for failures that lie in one window (_login_retry_after,
\* _record_login_failure).
LockLimits ==
    /\ [](part = "throttle" => TH!OvershootBounded)
    /\ [][part = "throttle" => TH!EarnsLock]_slots

-----------------------------------------------------------------------------
\* What the parts assume of their constants.
ASSUME PartsAssumption ==
    /\ BK!BackupAssumption
    /\ OS!OffsiteAssumption
    /\ MI!MigrateAssumption
    /\ RB!RebuildAssumption
    /\ RI!InstallAssumption
    /\ PO!PollerAssumption
    /\ NO!NonceAssumption
    /\ PR!PricingAssumption
    /\ BI!BillingAssumption
    /\ FL!FlowAssumption
    /\ SH!SharesAssumption
    /\ ID!IdleAssumption
    /\ SW!FreshnessAssumption /\ SW!SentinelAssumption /\ SW!SnapshotsAssumption
    /\ SW!InstallAssumption
    /\ CH!SnapshotsAssumption
    /\ SU!SupervisorAssumption
    /\ PU!PublishAssumption
    /\ TH!ThrottleAssumption
=============================================================================
