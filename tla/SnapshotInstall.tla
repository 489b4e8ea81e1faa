--------------------------- MODULE SnapshotInstall ---------------------------
(***************************************************************************)
(* The ingest of one tenant's snapshot on the public host: the handler     *)
(* ingest_snapshot of aistat/wsgi.py, the install journal and its recovery *)
(* (aistat/snapshot_recovery.py), the statistics derived from the          *)
(* installed database (aistat/global_stats.py) and the deletion of the     *)
(* tenant by an operator (purge_user of aistat/security.py).               *)
(*                                                                         *)
(* tenant, mark, journal and stats are rows of security.db: the tenant's   *)
(* row, its watermark (timestamp and sha256 of the last install), the      *)
(* journal entry and the statistics with the sha256 they are recorded for. *)
(* db, previous and staged are files: <id>.db, <id>.db.previous and the    *)
(* temporary files of staged snapshots.  A sha256 is modelled by the       *)
(* content it identifies.                                                  *)
(*                                                                         *)
(* lock is the flock on the ingest lock file, released by the kernel when  *)
(* its holder dies; proc[p] is a WSGI worker with the request it handles,  *)
(* purge the purge_user command, which takes no lock.                      *)
(***************************************************************************)
EXTENDS Freshness, FiniteSets

CONSTANTS
  Procs,        \* worker processes
  NoProc,       \* nobody
  Files,        \* names of temporary files
  NoFile,
  MaxAt,        \* a bound of the model: timestamps of uploads
  SwapMayFail   \* os.replace or the copy before it may raise OSError

ASSUME InstallAssumption ==
  /\ NoProc \notin Procs
  /\ NoFile \notin Files
  /\ MaxAt \in Nat
  /\ SwapMayFail \in BOOLEAN

VARIABLES tenant, mark, journal, db, previous, staged, stats, lock, proc, purge

vars == <<tenant, mark, journal, db, previous, staged, stats, lock, proc, purge>>

-----------------------------------------------------------------------------
Content == Snapshots \union {NoDb}

Entry == [at: 1..MaxAt, snap: Snapshots, file: Files]

\* Steps of a worker that holds the ingest lock.
Recovering == {"recover", "reswapped", "sync", "syncing"}
Ingesting  == {"entered", "staged", "journaled", "swapped", "committed", "derived"}
Locked     == Recovering \union Ingesting

\* at, snap and file of the upload or the entry a worker deals with; of is
\* what it has derived statistics from.
Proc == [pc: {"boot", "ready", "admitted"} \union Locked, at: 0..MaxAt,
         snap: Content, file: Files \union {NoFile}, of: Content]

At(pc) == [pc |-> pc, at |-> 0, snap |-> NoDb, file |-> NoFile, of |-> NoDb]

NoStats == [of |-> NoDb, sha |-> NoDb]

Init ==
  /\ tenant = TRUE
  /\ mark = [at |-> 0, snap |-> NoDb]
  /\ journal = {}
  /\ db = NoDb /\ previous = NoDb
  /\ staged = [f \in Files |-> NoDb]
  /\ stats = NoStats
  /\ lock = NoProc
  /\ proc = [p \in Procs |-> At("boot")]
  /\ purge = [pc |-> "no", file |-> NoFile]

-----------------------------------------------------------------------------
(* Steps that several handlers take.                                       *)

rows == <<tenant, mark, journal, stats>>
files == <<db, previous, staged>>

Goto(p, pc) == proc' = [proc EXCEPT ![p].pc = pc]

\* The handler returns, or fails with an exception: the lock is released.
Leave(p) ==
  /\ proc' = [proc EXCEPT ![p] = At("ready")]
  /\ lock' = IF lock = p THEN NoProc ELSE lock

Unlink(f) == staged' = [g \in Files |-> IF g = f THEN NoDb ELSE staged[g]]

\* swap_staged_into_place: the target is copied to its backup, then replaced.
SwapIn(p) ==
  /\ staged[proc[p].file] # NoDb
  /\ db' = staged[proc[p].file]
  /\ previous' = IF db = NoDb THEN previous ELSE db
  /\ Unlink(proc[p].file)

\* It raises before os.replace, at the latest because the file is gone.
SwapRaises(p) ==
  /\ SwapMayFail \/ staged[proc[p].file] = NoDb
  /\ previous' \in {previous} \union ({db} \ {NoDb})
  /\ UNCHANGED db

Advances(at) == tenant /\ at > mark.at

\* commit_install: watermark and journal in one transaction.
CommitInstall(at, snap) ==
  /\ mark' = IF Advances(at) THEN [at |-> at, snap |-> snap] ELSE mark
  /\ journal' = {}
  /\ UNCHANGED <<tenant, stats>>

-----------------------------------------------------------------------------
(* Start of a worker, under the lock: recover_pending_installs, then       *)
(* sync_tenants.                                                           *)

\* Mutant of Boot: the statistics are synced, nothing is recovered.
BootSyncsOnly(p) ==
  /\ proc[p].pc = "boot" /\ lock = NoProc
  /\ lock' = p /\ Goto(p, "sync")
  /\ UNCHANGED <<rows, files, purge>>

Boot(p) ==
  /\ proc[p].pc = "boot" /\ lock = NoProc
  /\ lock' = p
  /\ \/ journal = {} /\ Goto(p, "sync")
     \/ \E e \in journal :
          proc' = [proc EXCEPT ![p] = [pc |-> "recover", at |-> e.at, snap |-> e.snap,
                                       file |-> e.file, of |-> NoDb]]
  /\ UNCHANGED <<rows, files, purge>>

\* Mutant of RecoverForward: the entry is dropped, the watermark stays.
RecoverForgets(p) ==
  /\ proc[p].pc = "recover" /\ db = proc[p].snap
  /\ journal' = {}
  /\ Unlink(proc[p].file)
  /\ Goto(p, "sync")
  /\ UNCHANGED <<tenant, mark, stats, db, previous, lock, purge>>

\* The swap had happened: roll forward.
RecoverForward(p) ==
  /\ proc[p].pc = "recover" /\ db = proc[p].snap
  /\ CommitInstall(proc[p].at, proc[p].snap)
  /\ Unlink(proc[p].file)
  /\ Goto(p, "sync")
  /\ UNCHANGED <<db, previous, lock, purge>>

Intact(p) == staged[proc[p].file] = proc[p].snap

\* The swap had not happened and can be made up for.
RecoverSwap(p) ==
  /\ proc[p].pc = "recover" /\ db # proc[p].snap /\ Intact(p)
  /\ SwapIn(p)
  /\ Goto(p, "reswapped")
  /\ UNCHANGED <<rows, lock, purge>>

RecoverCommit(p) ==
  /\ proc[p].pc = "reswapped"
  /\ CommitInstall(proc[p].at, proc[p].snap)
  /\ Goto(p, "sync")
  /\ UNCHANGED <<files, lock, purge>>

\* It cannot be made up for: roll back.
RecoverBack(p) ==
  /\ proc[p].pc = "recover" /\ db # proc[p].snap
  /\ \/ ~ Intact(p) /\ UNCHANGED <<db, previous>>
     \/ Intact(p) /\ SwapRaises(p)
  /\ journal' = {}
  /\ Unlink(proc[p].file)
  /\ Goto(p, "sync")
  /\ UNCHANGED <<tenant, mark, stats, lock, purge>>

StatsLag == tenant /\ mark.at > 0 /\ stats.sha # mark.snap /\ db # NoDb

\* sync_tenants: read the database, unless nothing is to be done or it fails.
Sync(p) ==
  /\ proc[p].pc = "sync"
  /\ \/ /\ StatsLag
        /\ proc' = [proc EXCEPT ![p] = [pc |-> "syncing", at |-> 0, snap |-> mark.snap,
                                        file |-> NoFile, of |-> db]]
        /\ UNCHANGED lock
     \/ Leave(p)
  /\ UNCHANGED <<rows, files, purge>>

-----------------------------------------------------------------------------
(* ingest_snapshot.                                                        *)

\* An upload, new, repeated or delayed, with a valid signature.
Receive(p) ==
  /\ proc[p].pc = "ready" /\ tenant
  /\ \E at \in 1..MaxAt, snap \in Snapshots :
       proc' = [proc EXCEPT ![p] = [pc |-> "admitted", at |-> at, snap |-> snap,
                                    file |-> NoFile, of |-> NoDb]]
  /\ UNCHANGED <<rows, files, lock, purge>>

\* Mutant of Enter: the timestamp was compared before the lock was taken.
EnterUnchecked(p) ==
  /\ proc[p].pc = "admitted" /\ lock = NoProc
  /\ lock' = p /\ Goto(p, "entered")
  /\ UNCHANGED <<rows, files, purge>>

\* Under the lock: is the upload newer than the watermark?
Enter(p) ==
  /\ proc[p].pc = "admitted" /\ lock = NoProc
  /\ \/ Advances(proc[p].at) /\ lock' = p /\ Goto(p, "entered")
     \/ ~ Advances(proc[p].at) /\ Leave(p)
  /\ UNCHANGED <<rows, files, purge>>

FreshFiles ==
  {f \in Files : /\ staged[f] = NoDb
                 /\ \A e \in journal : e.file # f
                 /\ \A p \in Procs : proc[p].file # f
                 /\ purge.file # f}

Stage(p) ==
  /\ proc[p].pc = "entered"
  /\ \E f \in FreshFiles :
       /\ staged' = [staged EXCEPT ![f] = proc[p].snap]
       /\ proc' = [proc EXCEPT ![p].pc = "staged", ![p].file = f]
  /\ UNCHANGED <<rows, db, previous, lock, purge>>

\* The freshness verdict against the installed database is negative.
Reject(p) ==
  /\ proc[p].pc = "staged" /\ ~ Accepts(proc[p].snap, db)
  /\ Unlink(proc[p].file)
  /\ Leave(p)
  /\ UNCHANGED <<rows, db, previous, purge>>

\* Mutant of Journal: it is enough that the upload can be read.
JournalUnjudged(p) ==
  /\ proc[p].pc = "staged" /\ proc[p].snap # Unreadable
  /\ journal' = {[at |-> proc[p].at, snap |-> proc[p].snap, file |-> proc[p].file]}
  /\ Goto(p, "journaled")
  /\ UNCHANGED <<tenant, mark, stats, files, lock, purge>>

\* Mutant of Journal: the entry of an earlier attempt stays.
JournalBeside(p) ==
  /\ proc[p].pc = "staged" /\ Accepts(proc[p].snap, db)
  /\ journal' = journal \union
                  {[at |-> proc[p].at, snap |-> proc[p].snap, file |-> proc[p].file]}
  /\ Goto(p, "journaled")
  /\ UNCHANGED <<tenant, mark, stats, files, lock, purge>>

\* It is positive: record_install_intent, which also drops the staged file of
\* an entry left by an earlier attempt.
Journal(p) ==
  /\ proc[p].pc = "staged" /\ Accepts(proc[p].snap, db)
  /\ journal' = {[at |-> proc[p].at, snap |-> proc[p].snap, file |-> proc[p].file]}
  /\ staged' = [f \in Files |-> IF f \in {e.file : e \in journal} \ {proc[p].file}
                                THEN NoDb ELSE staged[f]]
  /\ Goto(p, "journaled")
  /\ UNCHANGED <<tenant, mark, stats, db, previous, lock, purge>>

Swap(p) ==
  /\ proc[p].pc = "journaled"
  /\ SwapIn(p)
  /\ Goto(p, "swapped")
  /\ UNCHANGED <<rows, lock, purge>>

\* The handler gives up: abort_snapshot_install.
Abort(p) ==
  /\ proc[p].pc = "journaled"
  /\ SwapRaises(p)
  /\ journal' = {}
  /\ Unlink(proc[p].file)
  /\ Leave(p)
  /\ UNCHANGED <<tenant, mark, stats, purge>>

\* finish_snapshot_install; without an advance the answer is an error.
Commit(p) ==
  /\ proc[p].pc = "swapped"
  /\ CommitInstall(proc[p].at, proc[p].snap)
  /\ \/ Advances(proc[p].at) /\ Goto(p, "committed") /\ UNCHANGED lock
     \/ ~ Advances(proc[p].at) /\ Leave(p)
  /\ UNCHANGED <<files, purge>>

\* refresh_tenant reads the database before it writes the rows.
Derive(p) ==
  /\ proc[p].pc = "committed" /\ db # NoDb
  /\ proc' = [proc EXCEPT ![p].pc = "derived", ![p].of = db]
  /\ UNCHANGED <<rows, files, lock, purge>>

\* The rows are written, here and in sync_tenants.
WriteStats(p) ==
  /\ proc[p].pc \in {"derived", "syncing"}
  /\ stats' = [of |-> proc[p].of, sha |-> proc[p].snap]
  /\ Leave(p)
  /\ UNCHANGED <<tenant, mark, journal, files, purge>>

\* The request ends in an exception or an error answer: an invalid snapshot,
\* an I/O error, a locked security.db; what it has done stays.
Raise(p) ==
  /\ proc[p].pc \in Ingesting \union {"admitted"}
  /\ Leave(p)
  /\ UNCHANGED <<rows, files, purge>>

\* The process is killed and started again.
Crash(p) ==
  /\ proc' = [proc EXCEPT ![p] = At("boot")]
  /\ lock' = IF lock = p THEN NoProc ELSE lock
  /\ UNCHANGED <<rows, files, purge>>

-----------------------------------------------------------------------------
(* purge_user, an operator's command.                                      *)

\* delete_user: one transaction.
PurgeRows ==
  /\ purge.pc = "no"
  /\ tenant' = FALSE /\ journal' = {} /\ stats' = NoStats
  /\ \E f \in Files \union {NoFile} :
       /\ IF journal = {} THEN f = NoFile ELSE f \in {e.file : e \in journal}
       /\ purge' = [pc |-> "rows", file |-> f]
  /\ UNCHANGED <<mark, files, lock, proc>>

\* remove_tenant_databases, and the staged file of the journal.
PurgeFiles ==
  /\ purge.pc = "rows"
  /\ db' = NoDb /\ previous' = NoDb
  /\ Unlink(purge.file)
  /\ purge' = [purge EXCEPT !.pc = "done"]
  /\ UNCHANGED <<rows, lock, proc>>

Next ==
  \/ \E p \in Procs :
       \/ Boot(p) \/ RecoverForward(p) \/ RecoverSwap(p) \/ RecoverCommit(p)
       \/ RecoverBack(p) \/ Sync(p)
       \/ Receive(p) \/ Enter(p) \/ Stage(p) \/ Reject(p) \/ Journal(p) \/ Swap(p)
       \/ Abort(p) \/ Commit(p) \/ Derive(p) \/ WriteStats(p)
       \/ Raise(p) \/ Crash(p)
  \/ PurgeRows \/ PurgeFiles

Spec == Init /\ [][Next]_vars

-----------------------------------------------------------------------------
(* Properties.                                                             *)

\* The variables have their types.
TypeOK ==
  /\ tenant \in BOOLEAN
  /\ mark \in [at: 0..MaxAt, snap: Content]
  /\ journal \subseteq Entry /\ \A d, e \in journal : d = e
  /\ db \in Content /\ previous \in Content
  /\ staged \in [Files -> Content]
  /\ stats \in [of: Content, sha: Content]
  /\ lock \in Procs \union {NoProc}
  /\ proc \in [Procs -> Proc]
  /\ purge \in [pc: {"no", "rows", "done"}, file: Files \union {NoFile}]

\* Recorded usage never disappears or shrinks: whichever of upload, crash,
\* recovery, failed swap or concurrent worker replaces the database, the new
\* one covers the old one (snapshot.py:351-362).
Forward == db' # db /\ db' # NoDb /\ db # NoDb => Covers(db', db)
NeverBackwards == [][Forward]_vars

\* An upload that is no newer than the watermark never becomes the database,
\* not even through a journal entry found after a crash
\* (snapshot_recovery.py:9-12).
OnlyNewer ==
  db' # db /\ db' # NoDb /\ tenant =>
    \E p \in Procs : proc[p].snap = db' /\ proc[p].at > mark.at
NoReplay == [][OnlyNewer]_vars

\* The installed database always covers the one the watermark speaks of.
MarkBehind == tenant /\ mark.at > 0 => db # NoDb /\ Covers(db, mark.snap)

\* "Every crash point recovers to exactly one of two consistent states"
\* (snapshot_recovery.py:30-32): whenever no install is under way or journaled,
\* database and watermark belong together.
Consistent == tenant /\ journal = {} /\ lock = NoProc => db = mark.snap

\* The statistics are derived from the very snapshot they are recorded for.
StatsLabelled == stats.of = stats.sha

\* After purge_user, and once no request is under way, "no stats data survives
\* at rest" (security.py:1290-1292).
PurgedLeavesNoData ==
  purge.pc = "done" /\ lock = NoProc => db = NoDb /\ previous = NoDb

\* The statistics "must not outlive the account" (security.py:949-950).
PurgedLeavesNoStats == ~ tenant /\ lock = NoProc => stats = NoStats

-----------------------------------------------------------------------------
(* The inductive invariants behind them.                                   *)

Newer(at) == tenant => at > mark.at

Fits(snap) == IsUsage(snap) /\ (db = NoDb \/ Covers(snap, db))

\* The holder of the lock is the one worker inside.
LockInv == \A p \in Procs : proc[p].pc \in Locked <=> lock = p

\* What is installed can be read, and covers what the watermark speaks of.
DbInv ==
  /\ db = NoDb \/ IsUsage(db)
  /\ mark.at > 0 => IsUsage(mark.snap)
  /\ MarkBehind

\* A journal entry may still be installed, whoever finds it.
JournalInv == \A e \in journal : Newer(e.at) /\ Fits(e.snap)

Installing == {"journaled", "recover", "swapped", "reswapped"}
Uploading  == {"admitted", "entered", "staged"} \union Installing

\* What a worker knows once it holds the lock stays so until it lets go.
WorkerInv(w) ==
  /\ w.pc \in Uploading => w.at > 0 /\ w.snap \in Snapshots
  /\ w.pc \in {"entered", "staged", "journaled", "recover"} => Newer(w.at)
  /\ w.pc \in {"staged"} \union Installing => w.file \in Files
  /\ w.pc \in {"staged", "journaled"} => staged[w.file] \in {w.snap, NoDb}
  /\ w.pc \in {"journaled", "recover"} => Fits(w.snap)
  /\ w.pc \in Installing =>
       journal \subseteq {[at |-> w.at, snap |-> w.snap, file |-> w.file]}
  /\ w.pc \in {"swapped", "reswapped"} =>
       /\ IsUsage(w.snap) /\ db \in {w.snap, NoDb}
       /\ tenant => db = w.snap /\ w.at > mark.at

ProcInv == \A p \in Procs : WorkerInv(proc[p])

PurgeInv == tenant => purge.pc = "no"

\* Preserved by every step, failing swaps included.
InstallInv == TypeOK /\ LockInv /\ DbInv /\ JournalInv /\ ProcInv /\ PurgeInv

\* What holds as long as no swap fails: an entry can always be completed, and
\* without one database and watermark belong together.
SettledWorker(w) ==
  /\ w.pc = "sync" => journal = {}
  /\ w.pc = "staged" => \A e \in journal : e.file # w.file
  /\ w.pc \in {"staged", "journaled"} => staged[w.file] = w.snap
  /\ w.pc = "recover" => db = w.snap \/ staged[w.file] = w.snap
  /\ w.pc \in Installing => journal # {}

SettledInv ==
  tenant =>
    /\ journal = {} => db = mark.snap
    /\ \A e \in journal : db = e.snap \/ staged[e.file] = e.snap
    /\ \A p \in Procs : SettledWorker(proc[p])

\* A worker that derives statistics records them for what it has read.
DerivedWorker(w) ==
  /\ w.pc = "committed" => db \in {w.snap, NoDb}
  /\ w.pc \in {"derived", "syncing"} => w.of = w.snap

DerivedInv == StatsLabelled /\ \A p \in Procs : DerivedWorker(proc[p])

SoundInv == InstallInv /\ (~ SwapMayFail => SettledInv /\ DerivedInv)
=============================================================================
