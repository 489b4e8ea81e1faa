--------------------------- MODULE SnapshotProofs ---------------------------
(***************************************************************************)
(* What the ingest of snapshots guarantees, for every number of workers,   *)
(* every set of snapshots and every table of usage.                        *)
(***************************************************************************)
EXTENDS SnapshotInstall, TLAPS

-----------------------------------------------------------------------------
(* What the verdict of freshness_report means, for all tables of usage.    *)

LEMMA UsageIsFunction ==
  ASSUME NEW u, IsUsage(u)
  PROVE  /\ DOMAIN u \subseteq Keys
         /\ u = [k \in DOMAIN u |-> u[k]]
         /\ \A k \in DOMAIN u : u[k] \in Nat
BY DEF IsUsage

LEMMA CoversReflexive ==
  ASSUME NEW u, IsUsage(u) PROVE Covers(u, u)
BY UsageIsFunction DEF Covers

LEMMA CoversTransitive ==
  ASSUME NEW u, NEW v, NEW w, IsUsage(u), IsUsage(v), IsUsage(w),
         Covers(u, v), Covers(v, w)
  PROVE  Covers(u, w)
<1>1. DOMAIN w \subseteq DOMAIN u
  BY DEF Covers
<1>2. ASSUME NEW k \in DOMAIN w PROVE u[k] >= w[k]
  <2>1. u[k] \in Nat /\ v[k] \in Nat /\ w[k] \in Nat
    BY UsageIsFunction DEF Covers
  <2> QED BY <2>1 DEF Covers
<1> QED BY <1>1, <1>2 DEF Covers

\* A verdict in favour of a snapshot means that it covers the installed one.
LEMMA VerdictCovers ==
  ASSUME NEW s, s = Unreadable \/ IsUsage(s), NEW target,
         target = NoDb \/ IsUsage(target), Accepts(s, target)
  PROVE  IsUsage(s) /\ (target = NoDb \/ Covers(s, target))
<1>1. s # Unreadable
  BY DEF Accepts, Reason
<1>2. IsUsage(s)
  BY <1>1
<1>3. CASE target = NoDb
  BY <1>2, <1>3
<1>4. CASE target # NoDb
  <2>1. IsUsage(target) /\ target # Unreadable
    BY <1>4, SentinelAssumption
  <2>2. CASE IsEmpty(target)
    BY <1>2, <2>2 DEF Covers, IsEmpty
  <2>3. CASE ~ IsEmpty(target)
    <3>1. MissingRows(s, target) = {} /\ DecreasedRows(s, target) = {}
      BY <1>1, <1>4, <2>1, <2>3 DEF Accepts, Reason
    <3>2. DOMAIN target \subseteq DOMAIN s
      BY <3>1 DEF MissingRows
    <3>3. ASSUME NEW k \in DOMAIN target PROVE s[k] >= target[k]
      <4>1. s[k] \in Nat /\ target[k] \in Nat
        BY <1>2, <2>1, <3>2, UsageIsFunction
      <4>2. ~ (s[k] < target[k])
        BY <3>1, <3>2 DEF DecreasedRows
      <4> QED BY <4>1, <4>2
    <3> QED BY <1>2, <3>2, <3>3 DEF Covers
  <2> QED BY <2>2, <2>3
<1> QED BY <1>3, <1>4

\* And a snapshot that covers the installed one is not refused.
LEMMA CoversAccepted ==
  ASSUME NEW s, NEW target, IsUsage(s), IsUsage(target), Covers(s, target)
  PROVE  Accepts(s, target)
<1>1. s # Unreadable /\ target \notin {NoDb, Unreadable}
  BY SentinelAssumption
<1>2. MissingRows(s, target) = {}
  BY DEF Covers, MissingRows
<1>3. DecreasedRows(s, target) = {}
  <2> SUFFICES ASSUME NEW k \in DOMAIN target \intersect DOMAIN s, s[k] < target[k]
               PROVE  FALSE
    BY DEF DecreasedRows
  <2>1. s[k] \in Nat /\ target[k] \in Nat /\ s[k] >= target[k]
    BY UsageIsFunction DEF Covers
  <2> QED BY <2>1
<1>4. ~ IsEmpty(target) => ~ IsEmpty(s)
  BY DEF Covers, IsEmpty
<1>5. ~ OlderDay(s, target)
  <2> SUFFICES ASSUME NEW k \in DOMAIN target,
                      \A j \in DOMAIN s : DateOf[j] < DateOf[k]
               PROVE  FALSE
    BY DEF OlderDay
  <2>1. k \in DOMAIN s /\ k \in Keys
    BY UsageIsFunction DEF Covers
  <2>2. DateOf[k] \in Nat
    BY <2>1, FreshnessAssumption
  <2> QED BY <2>1, <2>2
<1> QED BY <1>1, <1>2, <1>3, <1>4, <1>5 DEF Accepts, Reason

-----------------------------------------------------------------------------
(* The protocol.                                                           *)

LEMMA ReadyType == At("ready") \in Proc
BY InstallAssumption DEF At, Proc, Content

LEMMA TypeStep ==
  ASSUME InstallInv, [Next]_vars
  PROVE  TypeOK'
<1> USE DEF TypeOK, Content
<1>1. ASSUME NEW p \in Procs, Boot(p) PROVE TypeOK'
  <2>1. CASE journal = {} /\ Goto(p, "sync")
    BY <1>1, <2>1 DEF InstallInv, Proc, Locked, Recovering, Boot, Goto, rows, files
  <2>2. ASSUME NEW e \in journal,
               proc' = [proc EXCEPT ![p] = [pc |-> "recover", at |-> e.at, snap |-> e.snap,
                                            file |-> e.file, of |-> NoDb]]
        PROVE  TypeOK'
    <3>1. e.at \in 0..MaxAt /\ e.snap \in Snapshots /\ e.file \in Files
      BY InstallAssumption DEF InstallInv, Entry
    <3>2. [pc |-> "recover", at |-> e.at, snap |-> e.snap, file |-> e.file, of |-> NoDb]
            \in Proc
      BY <3>1 DEF Proc, Locked, Recovering
    <3> QED BY <1>1, <2>2, <3>2 DEF InstallInv, Boot, rows, files
  <2> QED BY <1>1, <2>1, <2>2 DEF Boot
<1>2. ASSUME NEW p \in Procs, RecoverForward(p) PROVE TypeOK'
  BY <1>2, InstallAssumption
       DEF InstallInv, Proc, Locked, Recovering, Ingesting, RecoverForward, Goto,
           Unlink, CommitInstall, rows, files
<1>3. ASSUME NEW p \in Procs, RecoverSwap(p) PROVE TypeOK'
  BY <1>3, InstallAssumption
       DEF InstallInv, Proc, Locked, Recovering, Ingesting, RecoverSwap, Goto, Unlink,
           SwapIn, Intact, rows, files
<1>4. ASSUME NEW p \in Procs, RecoverCommit(p) PROVE TypeOK'
  BY <1>4, InstallAssumption
       DEF InstallInv, Proc, Locked, Recovering, Ingesting, RecoverCommit, Goto,
           CommitInstall, rows, files
<1>5. ASSUME NEW p \in Procs, RecoverBack(p) PROVE TypeOK'
  BY <1>5, InstallAssumption
       DEF InstallInv, Proc, Locked, Recovering, Ingesting, RecoverBack, Goto, Unlink,
           Intact, SwapRaises, rows, files
<1>6. ASSUME NEW p \in Procs, Sync(p) PROVE TypeOK'
  <2>1. CASE Leave(p) /\ UNCHANGED <<rows, files, purge>>
    BY <2>1, ReadyType DEF InstallInv, Leave, rows, files
  <2>2. CASE ~ Leave(p)
    <3>1. [pc |-> "syncing", at |-> 0, snap |-> mark.snap, file |-> NoFile, of |-> db] \in Proc
      BY InstallAssumption DEF InstallInv, Proc, Locked, Recovering
    <3> QED BY <1>6, <2>2, <3>1 DEF InstallInv, Sync, rows, files
  <2> QED BY <1>6, <2>1, <2>2 DEF Sync
<1>7. ASSUME NEW p \in Procs, Receive(p) PROVE TypeOK'
  <2>1. PICK at \in 1..MaxAt, snap \in Snapshots :
          proc' = [proc EXCEPT ![p] = [pc |-> "admitted", at |-> at, snap |-> snap,
                                       file |-> NoFile, of |-> NoDb]]
    BY <1>7 DEF Receive
  <2>2. [pc |-> "admitted", at |-> at, snap |-> snap, file |-> NoFile, of |-> NoDb] \in Proc
    BY InstallAssumption DEF Proc
  <2> QED BY <1>7, <2>1, <2>2 DEF InstallInv, Receive, rows, files
<1>8. ASSUME NEW p \in Procs, Enter(p) PROVE TypeOK'
  BY <1>8, InstallAssumption
       DEF InstallInv, Proc, Locked, Recovering, Ingesting, Enter, Goto, Leave, At,
           Advances, rows, files
<1>9. ASSUME NEW p \in Procs, Stage(p) PROVE TypeOK'
  BY <1>9, InstallAssumption
       DEF InstallInv, Proc, Locked, Recovering, Ingesting, Stage, FreshFiles, rows,
           files
<1>10. ASSUME NEW p \in Procs, Reject(p) PROVE TypeOK'
  BY <1>10, InstallAssumption
       DEF InstallInv, Proc, Locked, Recovering, Ingesting, Reject, Leave, At, Unlink,
           rows, files
<1>11. ASSUME NEW p \in Procs, Journal(p) PROVE TypeOK'
  <2>1. proc[p].snap \in Snapshots /\ proc[p].at \in 1..MaxAt /\ proc[p].file \in Files
    BY <1>11, InstallAssumption DEF InstallInv, ProcInv, WorkerInv, Uploading, Proc, Journal
  <2>2. journal' \subseteq Entry /\ \A d, e \in journal' : d = e
    BY <1>11, <2>1 DEF Entry, Journal
  <2>3. staged' \in [Files -> Content]
    BY <1>11 DEF InstallInv, Journal
  <2> QED BY <1>11, <2>2, <2>3
       DEF InstallInv, Proc, Locked, Ingesting, Journal, Goto, rows, files
<1>12. ASSUME NEW p \in Procs, Swap(p) PROVE TypeOK'
  <2>1. proc[p].file \in Files
    BY <1>12 DEF InstallInv, ProcInv, WorkerInv, Installing, Swap
  <2> QED BY <1>12, <2>1
       DEF InstallInv, Proc, Locked, Ingesting, Swap, Goto, SwapIn, Unlink, rows, files
<1>13. ASSUME NEW p \in Procs, Abort(p) PROVE TypeOK'
  BY <1>13, InstallAssumption
       DEF InstallInv, Proc, Locked, Recovering, Ingesting, Abort, Leave, At, Unlink,
           SwapRaises, rows, files
<1>14. ASSUME NEW p \in Procs, Commit(p) PROVE TypeOK'
  BY <1>14, InstallAssumption
       DEF InstallInv, Proc, Locked, Recovering, Ingesting, Commit, Goto, Leave, At,
           CommitInstall, Advances, rows, files
<1>15. ASSUME NEW p \in Procs, Derive(p) PROVE TypeOK'
  <2>1. proc' \in [Procs -> Proc]
    <3>1. db \in Content /\ proc \in [Procs -> Proc]
      BY DEF InstallInv
    <3>2. proc' = [proc EXCEPT ![p].pc = "derived", ![p].of = db]
      BY <1>15 DEF Derive
    <3> HIDE DEF Content
    <3> QED BY <3>1, <3>2, ZenonT(40) DEF Proc, Locked, Ingesting
  <2> QED BY <1>15, <2>1 DEF InstallInv, Derive, rows, files
<1>16. ASSUME NEW p \in Procs, WriteStats(p) PROVE TypeOK'
  BY <1>16, InstallAssumption
       DEF InstallInv, Proc, Locked, Recovering, Ingesting, WriteStats, Leave, At,
           rows, files
<1>17. ASSUME NEW p \in Procs, Raise(p) PROVE TypeOK'
  BY <1>17, InstallAssumption
       DEF InstallInv, Proc, Locked, Recovering, Ingesting, Raise, Leave, At, rows,
           files
<1>18. ASSUME NEW p \in Procs, Crash(p) PROVE TypeOK'
  BY <1>18, InstallAssumption
       DEF InstallInv, Proc, Locked, Recovering, Ingesting, Crash, At, rows, files
<1>19. CASE PurgeRows
  <2>1. purge' \in [pc: {"no", "rows", "done"}, file: Files \union {NoFile}]
    BY <1>19 DEF InstallInv, Entry, PurgeRows
  <2> QED BY <1>19, <2>1 DEF InstallInv, NoStats, PurgeRows, rows, files
<1>20. CASE PurgeFiles
  BY <1>20, InstallAssumption
       DEF InstallInv, Proc, Locked, Recovering, Ingesting, PurgeFiles, Unlink, rows,
           files
<1>21. CASE UNCHANGED vars
  BY <1>21 DEF InstallInv, vars
<1> QED BY <1>1, <1>2, <1>3, <1>4, <1>5, <1>6, <1>7, <1>8, <1>9, <1>10, <1>11, <1>12, <1>13, <1>14, <1>15, <1>16, <1>17, <1>18, <1>19, <1>20, <1>21
     DEF Next

LEMMA LockStep ==
  ASSUME InstallInv, [Next]_vars
  PROVE  LockInv'
<1> USE InstallAssumption DEF InstallInv, TypeOK, LockInv, Locked, Recovering, Ingesting
<1>1. ASSUME NEW p \in Procs, Boot(p) PROVE LockInv'
  <2>1. lock = NoProc /\ lock' = p
    BY <1>1 DEF Boot
  <2>2. proc'[p].pc \in {"sync", "recover"} /\ \A q \in Procs \ {p} : proc'[q] = proc[q]
    <3>1. CASE Goto(p, "sync")
      BY <3>1 DEF Goto
    <3>2. ASSUME NEW e \in journal,
                 proc' = [proc EXCEPT ![p] = [pc |-> "recover", at |-> e.at, snap |-> e.snap,
                                              file |-> e.file, of |-> NoDb]]
          PROVE  proc'[p].pc = "recover" /\ \A q \in Procs \ {p} : proc'[q] = proc[q]
      BY <3>2
    <3> QED BY <1>1, <3>1, <3>2 DEF Boot
  <2> QED BY <2>1, <2>2
<1>2. ASSUME NEW p \in Procs, RecoverForward(p) PROVE LockInv'
  BY <1>2 DEF RecoverForward, Goto
<1>3. ASSUME NEW p \in Procs, RecoverSwap(p) PROVE LockInv'
  BY <1>3 DEF RecoverSwap, Goto
<1>4. ASSUME NEW p \in Procs, RecoverCommit(p) PROVE LockInv'
  BY <1>4 DEF RecoverCommit, Goto
<1>5. ASSUME NEW p \in Procs, RecoverBack(p) PROVE LockInv'
  BY <1>5 DEF RecoverBack, Goto
<1>6. ASSUME NEW p \in Procs, Sync(p) PROVE LockInv'
  BY <1>6 DEF Sync, Leave, At
<1>7. ASSUME NEW p \in Procs, Receive(p) PROVE LockInv'
  BY <1>7 DEF Receive, At
<1>8. ASSUME NEW p \in Procs, Enter(p) PROVE LockInv'
  <2>1. proc[p].pc = "admitted" /\ lock = NoProc
    BY <1>8 DEF Enter
  <2>2. CASE lock' = p /\ Goto(p, "entered")
    BY <2>1, <2>2 DEF Goto
  <2>3. CASE Leave(p)
    BY <2>1, <2>3 DEF Leave, At
  <2> QED BY <1>8, <2>2, <2>3 DEF Enter
<1>9. ASSUME NEW p \in Procs, Stage(p) PROVE LockInv'
  BY <1>9 DEF Stage
<1>10. ASSUME NEW p \in Procs, Reject(p) PROVE LockInv'
  BY <1>10 DEF Reject, Leave, At
<1>11. ASSUME NEW p \in Procs, Journal(p) PROVE LockInv'
  BY <1>11 DEF Journal, Goto
<1>12. ASSUME NEW p \in Procs, Swap(p) PROVE LockInv'
  BY <1>12 DEF Swap, Goto
<1>13. ASSUME NEW p \in Procs, Abort(p) PROVE LockInv'
  BY <1>13 DEF Abort, Leave, At
<1>14. ASSUME NEW p \in Procs, Commit(p) PROVE LockInv'
  <2>1. proc[p].pc = "swapped"
    BY <1>14 DEF Commit
  <2>2. CASE Goto(p, "committed") /\ UNCHANGED lock
    BY <2>1, <2>2 DEF Goto
  <2>3. CASE Leave(p)
    BY <2>1, <2>3 DEF Leave, At
  <2> QED BY <1>14, <2>2, <2>3 DEF Commit
<1>15. ASSUME NEW p \in Procs, Derive(p) PROVE LockInv'
  BY <1>15 DEF Derive
<1>16. ASSUME NEW p \in Procs, WriteStats(p) PROVE LockInv'
  BY <1>16 DEF WriteStats, Leave, At
<1>17. ASSUME NEW p \in Procs, Raise(p) PROVE LockInv'
  BY <1>17 DEF Raise, Leave, At
<1>18. ASSUME NEW p \in Procs, Crash(p) PROVE LockInv'
  BY <1>18 DEF Crash, At
<1>19. CASE PurgeRows \/ PurgeFiles \/ UNCHANGED vars
  BY <1>19 DEF PurgeRows, PurgeFiles, vars
<1> QED BY <1>1, <1>2, <1>3, <1>4, <1>5, <1>6, <1>7, <1>8, <1>9, <1>10, <1>11, <1>12, <1>13, <1>14, <1>15, <1>16, <1>17, <1>18, <1>19
     DEF Next

\* Only the holder of the lock is past the check for a newer upload.
LEMMA HolderIsAlone ==
  ASSUME InstallInv, NEW p \in Procs, NEW q \in Procs, q # p, lock = p
  PROVE  proc[q].pc \notin Locked
BY DEF InstallInv, LockInv

\* What is written while a worker holds the lock is written by that worker.
LEMMA WritersHoldLock ==
  ASSUME InstallInv, NEW p \in Procs,
         \/ RecoverForward(p) \/ RecoverSwap(p) \/ RecoverCommit(p) \/ RecoverBack(p)
         \/ Stage(p) \/ Reject(p) \/ Journal(p) \/ Swap(p) \/ Abort(p) \/ Commit(p)
         \/ Derive(p) \/ Sync(p)
  PROVE  lock = p
BY DEF InstallInv, LockInv, Locked, Recovering, Ingesting, RecoverForward, RecoverSwap,
       RecoverCommit, RecoverBack, Stage, Reject, Journal, Swap, Abort, Commit, Derive, Sync

\* What a worker puts in place covers what was there and is newer than the mark.
LEMMA SwapCovers ==
  ASSUME InstallInv, NEW p \in Procs, Swap(p) \/ RecoverSwap(p)
  PROVE  /\ db' = proc[p].snap /\ IsUsage(proc[p].snap)
         /\ db = NoDb \/ Covers(proc[p].snap, db)
         /\ Newer(proc[p].at)
         /\ journal \subseteq {[at |-> proc[p].at, snap |-> proc[p].snap, file |-> proc[p].file]}
         /\ UNCHANGED <<tenant, mark, journal>>
<1>1. /\ proc[p].pc \in {"journaled", "recover"}
      /\ db' = staged[proc[p].file] /\ staged[proc[p].file] # NoDb
      /\ proc[p].pc = "recover" => staged[proc[p].file] = proc[p].snap
      /\ UNCHANGED <<tenant, mark, journal>>
  BY DEF Swap, RecoverSwap, SwapIn, Intact, rows
<1>2. WorkerInv(proc[p])
  BY DEF InstallInv, ProcInv
<1> QED BY <1>1, <1>2 DEF WorkerInv, Fits, Installing

\* What is committed belongs to the installed database.
LEMMA CommitFits ==
  ASSUME InstallInv, NEW p \in Procs, RecoverForward(p) \/ RecoverCommit(p) \/ Commit(p)
  PROVE  /\ CommitInstall(proc[p].at, proc[p].snap)
         /\ tenant => db = proc[p].snap /\ proc[p].at > mark.at
         /\ IsUsage(proc[p].snap)
         /\ UNCHANGED <<tenant, db>>
<1>1. WorkerInv(proc[p])
  BY DEF InstallInv, ProcInv
<1>2. CASE RecoverForward(p)
  BY <1>1, <1>2 DEF RecoverForward, WorkerInv, Fits, Newer, CommitInstall
<1>3. CASE RecoverCommit(p) \/ Commit(p)
  BY <1>1, <1>3 DEF RecoverCommit, Commit, WorkerInv, CommitInstall, files
<1> QED BY <1>2, <1>3

LEMMA DbStep ==
  ASSUME InstallInv, [Next]_vars
  PROVE  DbInv'
<1>1. ASSUME UNCHANGED <<tenant, mark, db>> PROVE DbInv'
  BY <1>1 DEF InstallInv, DbInv, MarkBehind
<1>2. ASSUME NEW p \in Procs,
             \/ Boot(p) \/ RecoverBack(p) \/ Sync(p) \/ Receive(p) \/ Enter(p) \/ Stage(p)
             \/ Reject(p) \/ Journal(p) \/ Abort(p) \/ Derive(p) \/ WriteStats(p)
             \/ Raise(p) \/ Crash(p)
      PROVE  DbInv'
  BY <1>1, <1>2 DEF Boot, RecoverBack, Sync, Receive, Enter, Stage, Reject, Journal, Abort,
       Derive, WriteStats, Raise, Crash, SwapRaises, rows, files
<1>3. ASSUME NEW p \in Procs, RecoverForward(p) \/ RecoverCommit(p) \/ Commit(p)
      PROVE  DbInv'
  <2>1. mark.at \in Nat /\ proc[p].at \in Nat
    BY InstallAssumption DEF InstallInv, TypeOK, Proc
  <2>2. /\ mark' = IF tenant /\ proc[p].at > mark.at
                   THEN [at |-> proc[p].at, snap |-> proc[p].snap] ELSE mark
        /\ tenant => db = proc[p].snap /\ proc[p].at > mark.at
        /\ IsUsage(proc[p].snap)
        /\ UNCHANGED <<tenant, db>>
    BY <1>3, CommitFits DEF CommitInstall, Advances
  <2>3. CASE tenant
    BY <2>2, <2>3, CoversReflexive, SentinelAssumption DEF InstallInv, DbInv, MarkBehind
  <2>4. CASE ~ tenant
    BY <2>2, <2>4 DEF InstallInv, DbInv, MarkBehind
  <2> QED BY <2>3, <2>4
<1>4. ASSUME NEW p \in Procs, Swap(p) \/ RecoverSwap(p) PROVE DbInv'
  <2>1. /\ db' = proc[p].snap /\ IsUsage(proc[p].snap)
        /\ db = NoDb \/ Covers(proc[p].snap, db)
        /\ UNCHANGED <<tenant, mark>>
    BY <1>4, SwapCovers
  <2>2. ASSUME tenant, mark.at > 0 PROVE Covers(proc[p].snap, mark.snap)
    <3>1. db # NoDb /\ IsUsage(db) /\ IsUsage(mark.snap) /\ Covers(db, mark.snap)
      BY <2>2 DEF InstallInv, DbInv, MarkBehind
    <3> QED BY <2>1, <3>1, CoversTransitive
  <2> QED BY <2>1, <2>2, SentinelAssumption DEF InstallInv, DbInv, MarkBehind
<1>5. CASE PurgeRows \/ PurgeFiles
  BY <1>5 DEF PurgeRows, PurgeFiles, InstallInv, DbInv, MarkBehind, PurgeInv, rows, files
<1>6. CASE UNCHANGED vars
  BY <1>1, <1>6 DEF vars
<1> QED BY <1>2, <1>3, <1>4, <1>5, <1>6 DEF Next

LEMMA JournalStep ==
  ASSUME InstallInv, [Next]_vars
  PROVE  JournalInv'
<1>1. ASSUME UNCHANGED <<tenant, mark, journal, db>> PROVE JournalInv'
  BY <1>1 DEF InstallInv, JournalInv, Newer, Fits
<1>2. ASSUME NEW p \in Procs,
             \/ Boot(p) \/ Sync(p) \/ Receive(p) \/ Enter(p) \/ Stage(p) \/ Reject(p)
             \/ Derive(p) \/ WriteStats(p) \/ Raise(p) \/ Crash(p)
      PROVE  JournalInv'
  BY <1>1, <1>2 DEF Boot, Sync, Receive, Enter, Stage, Reject, Derive, WriteStats, Raise,
       Crash, rows, files
<1>3. ASSUME NEW p \in Procs,
             \/ RecoverForward(p) \/ RecoverCommit(p) \/ RecoverBack(p) \/ Abort(p) \/ Commit(p)
      PROVE  JournalInv'
  BY <1>3 DEF JournalInv, RecoverForward, RecoverCommit, RecoverBack, Abort, Commit,
       CommitInstall
<1>4. ASSUME NEW p \in Procs, Journal(p) PROVE JournalInv'
  <2>1. proc[p].snap \in Snapshots /\ Newer(proc[p].at)
    BY <1>4 DEF Journal, InstallInv, ProcInv, WorkerInv, Uploading
  <2>2. IsUsage(proc[p].snap) /\ (db = NoDb \/ Covers(proc[p].snap, db))
    BY <1>4, <2>1, SnapshotsAssumption, VerdictCovers DEF Journal, InstallInv, DbInv
  <2>3. UNCHANGED <<tenant, mark, db>>
    BY <1>4 DEF Journal
  <2>4. \A e \in journal' : e.at = proc[p].at /\ e.snap = proc[p].snap
    BY <1>4 DEF Journal
  <2> QED BY <2>1, <2>2, <2>3, <2>4 DEF JournalInv, Newer, Fits
<1>5. ASSUME NEW p \in Procs, Swap(p) \/ RecoverSwap(p) PROVE JournalInv'
  <2>1. /\ db' = proc[p].snap /\ IsUsage(proc[p].snap) /\ Newer(proc[p].at)
        /\ \A e \in journal' : e.at = proc[p].at /\ e.snap = proc[p].snap
        /\ UNCHANGED <<tenant, mark>>
    BY <1>5, SwapCovers
  <2> QED BY <2>1, CoversReflexive DEF JournalInv, Newer, Fits
<1>6. CASE PurgeRows
  BY <1>6 DEF PurgeRows, JournalInv
<1>7. CASE PurgeFiles
  BY <1>7 DEF PurgeFiles, InstallInv, JournalInv, Newer, Fits, rows
<1>8. CASE UNCHANGED vars
  BY <1>1, <1>8 DEF vars
<1> QED BY <1>2, <1>3, <1>4, <1>5, <1>6, <1>7, <1>8 DEF Next

LEMMA PurgeStep ==
  ASSUME InstallInv, [Next]_vars
  PROVE  PurgeInv'
BY ZenonT(40) DEF InstallInv, PurgeInv, Next, Boot, RecoverForward, RecoverSwap, RecoverCommit,
   RecoverBack, Sync, Receive, Enter, Stage, Reject, Journal, Swap, Abort, Commit, Derive,
   WriteStats, Raise, Crash, PurgeRows, PurgeFiles, CommitInstall, vars, rows

\* A worker outside the lock knows only what it was sent.
LEMMA OthersKeep ==
  ASSUME InstallInv, NEW p \in Procs, NEW q \in Procs, q # p, lock = p, proc'[q] = proc[q]
  PROVE  WorkerInv(proc[q])'
<1>1. proc[q].pc \notin Locked
  BY HolderIsAlone
<1>2. WorkerInv(proc[q])
  BY DEF InstallInv, ProcInv
<1> QED
  BY <1>1, <1>2 DEF WorkerInv, Locked, Recovering, Ingesting, Installing, Uploading

LEMMA UntouchedKeep ==
  ASSUME InstallInv, NEW q \in Procs, proc'[q] = proc[q],
         UNCHANGED <<tenant, mark, journal, db, staged>>
  PROVE  WorkerInv(proc[q])'
<1>1. WorkerInv(proc[q])
  BY DEF InstallInv, ProcInv
<1> QED BY <1>1 DEF WorkerInv, Newer, Fits

\* A worker that has nothing in hand.
LEMMA IdleKnows ==
  ASSUME NEW p \in Procs,
         proc'[p].pc \in {"boot", "ready", "sync", "syncing", "committed", "derived"}
  PROVE  WorkerInv(proc[p])'
BY DEF WorkerInv, Installing, Uploading

\* A worker that leaves is idle, the others are as they were.
LEMMA LeaveEffect ==
  ASSUME InstallInv, NEW p \in Procs, Leave(p)
  PROVE  proc'[p].pc = "ready" /\ \A q \in Procs \ {p} : proc'[q] = proc[q]
BY DEF Leave, At, InstallInv, TypeOK

LEMMA GotoEffect ==
  ASSUME InstallInv, NEW p \in Procs, NEW pc, Goto(p, pc)
  PROVE  /\ proc'[p] = [proc[p] EXCEPT !.pc = pc]
         /\ proc'[p].pc = pc /\ proc'[p].at = proc[p].at /\ proc'[p].snap = proc[p].snap
         /\ proc'[p].file = proc[p].file
         /\ \A q \in Procs \ {p} : proc'[q] = proc[q]
BY DEF Goto, InstallInv, TypeOK, Proc

LEMMA ProcStep ==
  ASSUME InstallInv, [Next]_vars
  PROVE  ProcInv'
<1>0. ASSUME NEW p \in Procs, WorkerInv(proc[p])',
             \A q \in Procs \ {p} : proc'[q] = proc[q],
             lock = p \/ UNCHANGED <<tenant, mark, journal, db, staged>>
      PROVE  ProcInv'
  <2> SUFFICES ASSUME NEW q \in Procs PROVE WorkerInv(proc[q])'
    BY DEF ProcInv
  <2> QED BY <1>0, OthersKeep, UntouchedKeep
<1>1. ASSUME NEW p \in Procs, Boot(p) PROVE ProcInv'
  <2>1. UNCHANGED <<tenant, mark, journal, db, staged>>
    BY <1>1 DEF Boot, rows, files
  <2>2. CASE Goto(p, "sync")
    BY <1>0, <2>1, <2>2, GotoEffect, IdleKnows, ZenonT(40)
  <2>3. ASSUME NEW e \in journal,
               proc' = [proc EXCEPT ![p] = [pc |-> "recover", at |-> e.at, snap |-> e.snap,
                                            file |-> e.file, of |-> NoDb]]
        PROVE  ProcInv'
    <3>1. /\ proc'[p] = [pc |-> "recover", at |-> e.at, snap |-> e.snap,
                         file |-> e.file, of |-> NoDb]
          /\ \A q \in Procs \ {p} : proc'[q] = proc[q]
      BY <2>3 DEF InstallInv, TypeOK
    <3>2. e.at > 0 /\ e.snap \in Snapshots /\ e.file \in Files
          /\ e = [at |-> e.at, snap |-> e.snap, file |-> e.file]
          /\ journal = {e}
      BY InstallAssumption DEF InstallInv, TypeOK, Entry
    <3>3. Newer(e.at) /\ Fits(e.snap)
      BY DEF InstallInv, JournalInv
    <3>4. WorkerInv(proc[p])'
      BY <2>1, <3>1, <3>2, <3>3 DEF WorkerInv, Uploading, Installing, Newer, Fits
    <3> QED BY <1>0, <2>1, <3>1, <3>4
  <2> QED BY <1>1, <2>2, <2>3 DEF Boot
<1>2. ASSUME NEW p \in Procs, RecoverForward(p) \/ RecoverCommit(p) \/ RecoverBack(p)
      PROVE  ProcInv'
  <2>1. Goto(p, "sync") /\ lock = p
    BY <1>2, WritersHoldLock DEF RecoverForward, RecoverCommit, RecoverBack
  <2> QED BY <1>0, <2>1, GotoEffect, IdleKnows, ZenonT(40)
<1>3. ASSUME NEW p \in Procs, Swap(p) \/ RecoverSwap(p) PROVE ProcInv'
  <2>1. /\ lock = p
        /\ proc'[p].pc \in {"swapped", "reswapped"} /\ proc'[p].at = proc[p].at
        /\ proc'[p].snap = proc[p].snap /\ proc'[p].file = proc[p].file
        /\ \A q \in Procs \ {p} : proc'[q] = proc[q]
    BY <1>3, WritersHoldLock, GotoEffect DEF Swap, RecoverSwap
  <2>2. /\ db' = proc[p].snap /\ IsUsage(proc[p].snap) /\ Newer(proc[p].at)
        /\ journal \subseteq {[at |-> proc[p].at, snap |-> proc[p].snap, file |-> proc[p].file]}
        /\ UNCHANGED <<tenant, mark, journal>>
    BY <1>3, SwapCovers
  <2>3. proc[p].at > 0 /\ proc[p].snap \in Snapshots /\ proc[p].file \in Files
    BY <1>3 DEF Swap, RecoverSwap, InstallInv, ProcInv, WorkerInv, Uploading, Installing
  <2>4. WorkerInv(proc[p])'
    BY <2>1, <2>2, <2>3 DEF WorkerInv, Uploading, Installing, Newer
  <2> QED BY <1>0, <2>1, <2>4
<1>4. ASSUME NEW p \in Procs, Sync(p) PROVE ProcInv'
  <2>1. proc'[p].pc \in {"ready", "syncing"} /\ \A q \in Procs \ {p} : proc'[q] = proc[q]
    <3>1. CASE Leave(p)
      BY <3>1, LeaveEffect
    <3>2. CASE ~ Leave(p)
      BY <1>4, <3>2 DEF Sync, InstallInv, TypeOK
    <3> QED BY <3>1, <3>2
  <2> QED BY <1>0, <1>4, <2>1, IdleKnows, WritersHoldLock
<1>5. ASSUME NEW p \in Procs, Receive(p) PROVE ProcInv'
  <2>1. PICK at \in 1..MaxAt, snap \in Snapshots :
          proc' = [proc EXCEPT ![p] = [pc |-> "admitted", at |-> at, snap |-> snap,
                                       file |-> NoFile, of |-> NoDb]]
    BY <1>5 DEF Receive
  <2>2. /\ proc'[p].pc = "admitted" /\ proc'[p].at > 0 /\ proc'[p].snap \in Snapshots
        /\ \A q \in Procs \ {p} : proc'[q] = proc[q]
    BY <2>1, InstallAssumption DEF InstallInv, TypeOK
  <2>3. WorkerInv(proc[p])'
    BY <2>2 DEF WorkerInv, Uploading, Installing
  <2> QED BY <1>0, <1>5, <2>2, <2>3 DEF Receive, rows, files
<1>6. ASSUME NEW p \in Procs, Enter(p) PROVE ProcInv'
  <2>1. UNCHANGED <<tenant, mark, journal, db, staged>>
    BY <1>6 DEF Enter, rows, files
  <2>2. CASE Advances(proc[p].at) /\ Goto(p, "entered")
    <3>1. proc[p].at > 0 /\ proc[p].snap \in Snapshots
      BY <1>6 DEF Enter, InstallInv, ProcInv, WorkerInv, Uploading
    <3>2. /\ proc'[p].pc = "entered" /\ proc'[p].at = proc[p].at /\ proc'[p].snap = proc[p].snap
          /\ \A q \in Procs \ {p} : proc'[q] = proc[q]
      BY <2>2, GotoEffect
    <3>3. Newer(proc[p].at)'
      BY <2>1, <2>2, <3>2 DEF Newer, Advances
    <3>4. WorkerInv(proc[p])'
      BY <3>1, <3>2, <3>3 DEF WorkerInv, Uploading, Installing, Newer
    <3> QED BY <1>0, <2>1, <3>2, <3>4
  <2>3. CASE Leave(p)
    BY <1>0, <2>1, <2>3, LeaveEffect, IdleKnows
  <2> QED BY <1>6, <2>2, <2>3 DEF Enter
<1>7. ASSUME NEW p \in Procs, Stage(p) PROVE ProcInv'
  <2>1. PICK f \in FreshFiles :
          /\ staged' = [staged EXCEPT ![f] = proc[p].snap]
          /\ proc' = [proc EXCEPT ![p].pc = "staged", ![p].file = f]
    BY <1>7 DEF Stage
  <2>2. f \in Files
    BY DEF FreshFiles
  <2>3. /\ proc'[p].pc = "staged" /\ proc'[p].file = f /\ proc'[p].at = proc[p].at
        /\ proc'[p].snap = proc[p].snap
        /\ \A q \in Procs \ {p} : proc'[q] = proc[q]
        /\ staged'[f] = proc[p].snap
    BY <2>1, <2>2 DEF InstallInv, TypeOK, Proc
  <2>4. proc[p].at > 0 /\ proc[p].snap \in Snapshots /\ Newer(proc[p].at)
        /\ UNCHANGED <<tenant, mark, db, journal>>
    BY <1>7 DEF Stage, InstallInv, ProcInv, WorkerInv, Uploading, rows
  <2>5. WorkerInv(proc[p])'
    BY <2>2, <2>3, <2>4 DEF WorkerInv, Uploading, Installing, Newer
  <2> QED BY <1>0, <1>7, <2>3, <2>5, WritersHoldLock
<1>8. ASSUME NEW p \in Procs, Reject(p) \/ Abort(p) PROVE ProcInv'
  <2>1. Leave(p) /\ lock = p
    BY <1>8, WritersHoldLock DEF Reject, Abort
  <2> QED BY <1>0, <2>1, LeaveEffect, IdleKnows
<1>9. ASSUME NEW p \in Procs, Journal(p) PROVE ProcInv'
  <2>1. /\ lock = p
        /\ proc'[p].pc = "journaled" /\ proc'[p].at = proc[p].at
        /\ proc'[p].snap = proc[p].snap /\ proc'[p].file = proc[p].file
        /\ \A q \in Procs \ {p} : proc'[q] = proc[q]
    BY <1>9, WritersHoldLock, GotoEffect DEF Journal
  <2>2. /\ proc[p].at > 0 /\ proc[p].snap \in Snapshots /\ proc[p].file \in Files
        /\ Newer(proc[p].at) /\ staged[proc[p].file] \in {proc[p].snap, NoDb}
    BY <1>9 DEF Journal, InstallInv, ProcInv, WorkerInv, Uploading
  <2>3. Fits(proc[p].snap)
    BY <1>9, <2>2, SnapshotsAssumption, VerdictCovers DEF Journal, InstallInv, DbInv, Fits
  <2>4. /\ UNCHANGED <<tenant, mark, db>>
        /\ journal' = {[at |-> proc[p].at, snap |-> proc[p].snap, file |-> proc[p].file]}
    BY <1>9 DEF Journal
  <2>5. staged'[proc[p].file] \in {proc[p].snap, NoDb}
    BY <1>9, <2>2 DEF Journal
  <2>6. WorkerInv(proc[p])'
    BY <2>1, <2>2, <2>3, <2>4, <2>5 DEF WorkerInv, Uploading, Installing, Newer, Fits
  <2> QED BY <1>0, <2>1, <2>6
<1>10. ASSUME NEW p \in Procs, Commit(p) PROVE ProcInv'
  <2>1. lock = p
    BY <1>10, WritersHoldLock
  <2>2. CASE Goto(p, "committed")
    BY <1>0, <2>1, <2>2, GotoEffect, IdleKnows, ZenonT(40)
  <2>3. CASE Leave(p)
    BY <1>0, <2>1, <2>3, LeaveEffect, IdleKnows
  <2> QED BY <1>10, <2>2, <2>3 DEF Commit
<1>11. ASSUME NEW p \in Procs, Derive(p) PROVE ProcInv'
  <2>1. proc'[p].pc = "derived" /\ \A q \in Procs \ {p} : proc'[q] = proc[q]
    BY <1>11 DEF Derive, InstallInv, TypeOK, Proc
  <2> QED BY <1>0, <1>11, <2>1, IdleKnows, WritersHoldLock
<1>12. ASSUME NEW p \in Procs, WriteStats(p) \/ Raise(p) PROVE ProcInv'
  <2>1. Leave(p) /\ UNCHANGED <<tenant, mark, journal, db, staged>>
    BY <1>12 DEF WriteStats, Raise, rows, files
  <2> QED BY <1>0, <2>1, LeaveEffect, IdleKnows
<1>13. ASSUME NEW p \in Procs, Crash(p) PROVE ProcInv'
  <2>1. proc'[p].pc = "boot" /\ \A q \in Procs \ {p} : proc'[q] = proc[q]
    BY <1>13 DEF Crash, At, InstallInv, TypeOK
  <2> QED BY <1>0, <1>13, <2>1, IdleKnows DEF Crash, rows, files
<1>14. CASE PurgeRows
  <2> SUFFICES ASSUME NEW q \in Procs PROVE WorkerInv(proc[q])'
    BY DEF ProcInv
  <2>1. WorkerInv(proc[q])
    BY DEF InstallInv, ProcInv
  <2> QED BY <1>14, <2>1 DEF PurgeRows, WorkerInv, Newer, Fits, files
<1>15. CASE PurgeFiles
  <2> SUFFICES ASSUME NEW q \in Procs PROVE WorkerInv(proc[q])'
    BY DEF ProcInv
  <2>1. WorkerInv(proc[q])
    BY DEF InstallInv, ProcInv
  <2>2. ~ tenant
    BY <1>15 DEF PurgeFiles, InstallInv, PurgeInv
  <2>3. \A f \in Files : staged'[f] \in {staged[f], NoDb}
    BY <1>15 DEF PurgeFiles, Unlink
  <2> QED
    BY <1>15, <2>1, <2>2, <2>3
       DEF PurgeFiles, WorkerInv, Newer, Fits, Installing, Uploading, rows
<1>16. CASE UNCHANGED vars
  BY <1>16, UntouchedKeep DEF vars, ProcInv
<1> QED
  BY <1>1, <1>2, <1>3, <1>4, <1>5, <1>6, <1>7, <1>8, <1>9, <1>10, <1>11, <1>12, <1>13,
     <1>14, <1>15, <1>16 DEF Next

\* Only a swap brings a database.
LEMMA DbWriters ==
  ASSUME Next, db' # db, db' # NoDb
  PROVE  \E p \in Procs : Swap(p) \/ RecoverSwap(p)
BY DEF Next, Boot, RecoverForward, RecoverCommit, RecoverBack, SwapRaises, Sync, Receive,
   Enter, Stage, Reject, Journal, Abort, Commit, Derive, WriteStats, Raise, Crash,
   PurgeRows, PurgeFiles, files

-----------------------------------------------------------------------------
(* The install of a snapshot, swaps that fail included.                    *)

LEMMA InstallInit == Init => InstallInv
<1> SUFFICES ASSUME Init PROVE InstallInv
  OBVIOUS
<1>1. TypeOK
  <2>1. At("boot") \in Proc
    BY InstallAssumption DEF At, Proc, Content
  <2> QED BY <2>1, InstallAssumption DEF Init, TypeOK, NoStats, Content
<1>2. LockInv
  BY InstallAssumption DEF Init, LockInv, At, Locked, Recovering, Ingesting
<1>3. ProcInv
  BY DEF Init, ProcInv, WorkerInv, At, Uploading, Installing
<1> QED
  BY <1>1, <1>2, <1>3 DEF Init, InstallInv, DbInv, MarkBehind, JournalInv, PurgeInv

LEMMA InstallStep ==
  ASSUME InstallInv, [Next]_vars
  PROVE  InstallInv'
BY TypeStep, LockStep, DbStep, JournalStep, ProcStep, PurgeStep DEF InstallInv

\* At any time: types, mutual exclusion by the lock, a journal whose entry may
\* be installed by whoever finds it, and workers whose checks still hold.
THEOREM InstallCorrect == Spec => []InstallInv
<1>1. InstallInv /\ [Next]_vars => InstallInv'
  BY InstallStep
<1> QED BY InstallInit, <1>1, PTL DEF Spec

\* The variables have their types.
THEOREM InstallTypes == Spec => []TypeOK
BY InstallCorrect, PTL DEF InstallInv

\* The installed database always covers the one the watermark speaks of, for
\* any number of workers, crashes, failing swaps and purges.
THEOREM MarkIsBehind == Spec => []MarkBehind
BY InstallCorrect, PTL DEF InstallInv, DbInv

\* The database is only ever replaced by one that covers it, and only from an
\* upload that is newer than the watermark.
LEMMA ForwardStep == ASSUME InstallInv, [Next]_vars PROVE Forward /\ OnlyNewer
<1> SUFFICES ASSUME db' # db, db' # NoDb PROVE Forward /\ OnlyNewer
  BY DEF Forward, OnlyNewer
<1>1. PICK p \in Procs : Swap(p) \/ RecoverSwap(p)
  BY DbWriters DEF vars
<1>2. QED BY <1>1, SwapCovers DEF Newer, Forward, OnlyNewer

\* Recorded usage never disappears: a database is replaced by one that covers it.
THEOREM UsageNeverShrinks == Spec => NeverBackwards
<1>1. InstallInv /\ [Next]_vars => [Forward]_vars
  BY ForwardStep
<1> QED BY InstallCorrect, <1>1, PTL DEF Spec, NeverBackwards

\* No upload is installed that is not newer than the watermark, neither by its
\* own request nor by the recovery that finds its journal entry.
THEOREM NoUploadReplayed == Spec => NoReplay
<1>1. InstallInv /\ [Next]_vars => [OnlyNewer]_vars
  BY ForwardStep
<1> QED BY InstallCorrect, <1>1, PTL DEF Spec, NoReplay

-----------------------------------------------------------------------------
(* As long as no swap fails.                                               *)

LEMMA SettledInit == Init => SettledInv /\ DerivedInv
BY DEF Init, SettledInv, SettledWorker, DerivedInv, DerivedWorker, StatsLabelled, At,
       NoStats, Installing

\* What a worker outside the lock knows is not at stake.
LEMMA SettledIdle ==
  ASSUME NEW p \in Procs, proc'[p].pc \notin {"sync", "staged"} \union Installing
  PROVE  SettledWorker(proc[p])'
BY DEF SettledWorker, Installing

\* Journal, database and staged files are left as they are.
LEMMA SettledUntouched ==
  ASSUME InstallInv, SettledInv, tenant, NEW p \in Procs,
         SettledWorker(proc[p])', \A q \in Procs \ {p} : proc'[q] = proc[q],
         UNCHANGED <<mark, journal, db, staged>>
  PROVE  SettledInv'
<1>1. ASSUME NEW q \in Procs PROVE SettledWorker(proc[q])'
  <2>1. CASE q = p
    BY <2>1
  <2>2. CASE q # p
    <3>1. SettledWorker(proc[q]) /\ proc'[q] = proc[q]
      BY <2>2 DEF SettledInv
    <3> QED BY <3>1 DEF SettledWorker
  <2> QED BY <2>1, <2>2
<1> QED BY <1>1 DEF SettledInv

\* The others do not hold the lock.
LEMMA SettledOthers ==
  ASSUME InstallInv, NEW p \in Procs, lock = p,
         SettledWorker(proc[p])', \A q \in Procs \ {p} : proc'[q] = proc[q]
  PROVE  \A q \in Procs : SettledWorker(proc[q])'
<1> SUFFICES ASSUME NEW q \in Procs, q # p PROVE SettledWorker(proc[q])'
  OBVIOUS
<1>1. proc'[q].pc \notin Locked
  BY HolderIsAlone
<1> QED BY <1>1, SettledIdle DEF Locked, Recovering, Ingesting, Installing

LEMMA SettledStep ==
  ASSUME InstallInv, SettledInv, ~ SwapMayFail, [Next]_vars
  PROVE  SettledInv'
<1> SUFFICES ASSUME tenant' PROVE SettledInv'
  BY DEF SettledInv
<1>0. tenant
  BY DEF Next, Boot, RecoverForward, RecoverSwap, RecoverCommit, RecoverBack, Sync, Receive,
         Enter, Stage, Reject, Journal, Swap, Abort, Commit, Derive, WriteStats, Raise, Crash,
         PurgeRows, PurgeFiles, CommitInstall, vars, rows
<1>1. ASSUME NEW p \in Procs, Boot(p) PROVE SettledInv'
  <2>1. UNCHANGED <<mark, journal, db, staged>>
    BY <1>1 DEF Boot, rows, files
  <2>2. CASE journal = {} /\ Goto(p, "sync")
    <3>1. proc'[p].pc = "sync" /\ \A q \in Procs \ {p} : proc'[q] = proc[q]
      BY <2>2, GotoEffect
    <3>2. SettledWorker(proc[p])'
      BY <2>1, <2>2, <3>1 DEF SettledWorker, Installing
    <3> QED BY <1>0, <2>1, <3>1, <3>2, SettledUntouched
  <2>3. ASSUME NEW e \in journal,
               proc' = [proc EXCEPT ![p] = [pc |-> "recover", at |-> e.at, snap |-> e.snap,
                                            file |-> e.file, of |-> NoDb]]
        PROVE  SettledInv'
    <3>1. /\ proc'[p].pc = "recover" /\ proc'[p].snap = e.snap /\ proc'[p].file = e.file
          /\ \A q \in Procs \ {p} : proc'[q] = proc[q]
      BY <2>3 DEF InstallInv, TypeOK
    <3>2. db = e.snap \/ staged[e.file] = e.snap
      BY <1>0 DEF SettledInv
    <3>3. SettledWorker(proc[p])'
      BY <2>1, <3>1, <3>2 DEF SettledWorker
    <3> QED BY <1>0, <2>1, <3>1, <3>3, SettledUntouched
  <2> QED BY <1>1, <2>2, <2>3 DEF Boot
<1>2. ASSUME NEW p \in Procs, RecoverForward(p) \/ RecoverCommit(p) PROVE SettledInv'
  <2>1. Goto(p, "sync") /\ lock = p /\ journal' = {}
    BY <1>2, WritersHoldLock DEF RecoverForward, RecoverCommit, CommitInstall
  <2>2. db' = mark'.snap
    BY <1>0, <1>2, CommitFits DEF CommitInstall, Advances
  <2>3. proc'[p].pc = "sync" /\ \A q \in Procs \ {p} : proc'[q] = proc[q]
    BY <2>1, GotoEffect
  <2>4. SettledWorker(proc[p])'
    BY <2>1, <2>3 DEF SettledWorker, Installing
  <2>5. \A q \in Procs : SettledWorker(proc[q])'
    BY <2>1, <2>3, <2>4, SettledOthers
  <2> QED BY <2>1, <2>2, <2>5 DEF SettledInv
<1>3. ASSUME NEW p \in Procs, RecoverBack(p) PROVE SettledInv'
  <2>1. proc[p].pc = "recover" /\ db # proc[p].snap /\ (Intact(p) => SwapRaises(p))
    BY <1>3 DEF RecoverBack
  <2>2. Intact(p)
    BY <1>0, <2>1 DEF SettledInv, SettledWorker, Intact
  <2>3. staged[proc[p].file] = NoDb
    BY <2>1, <2>2 DEF SwapRaises
  <2>4. IsUsage(proc[p].snap)
    BY <2>1 DEF InstallInv, ProcInv, WorkerInv, Fits
  <2> QED BY <2>2, <2>3, <2>4, SentinelAssumption DEF Intact
<1>4. ASSUME NEW p \in Procs, Swap(p) \/ RecoverSwap(p) PROVE SettledInv'
  <2>1. /\ lock = p /\ proc'[p].pc \in {"swapped", "reswapped"}
        /\ proc[p].pc \in {"journaled", "recover"}
        /\ \A q \in Procs \ {p} : proc'[q] = proc[q]
    BY <1>4, WritersHoldLock, GotoEffect DEF Swap, RecoverSwap
  <2>2. journal # {}
    BY <1>0, <2>1 DEF SettledInv, SettledWorker, Installing
  <2>3. /\ db' = proc[p].snap /\ UNCHANGED journal
        /\ \A e \in journal : e.snap = proc[p].snap
    <3>1. /\ db' = proc[p].snap /\ UNCHANGED journal
          /\ journal \subseteq {[at |-> proc[p].at, snap |-> proc[p].snap,
                                 file |-> proc[p].file]}
      BY <1>4, SwapCovers
    <3> QED BY <3>1
  <2>4. SettledWorker(proc[p])'
    BY <2>1, <2>2, <2>3 DEF SettledWorker
  <2> QED BY <2>1, <2>2, <2>3, <2>4, SettledOthers DEF SettledInv
<1>5. ASSUME NEW p \in Procs, Sync(p) PROVE SettledInv'
  <2>1. proc'[p].pc \in {"ready", "syncing"} /\ \A q \in Procs \ {p} : proc'[q] = proc[q]
    <3>1. CASE Leave(p)
      BY <3>1, LeaveEffect
    <3>2. CASE ~ Leave(p)
      BY <1>5, <3>2 DEF Sync, InstallInv, TypeOK
    <3> QED BY <3>1, <3>2
  <2>2. SettledWorker(proc[p])'
    BY <2>1, SettledIdle DEF Installing
  <2> QED BY <1>0, <1>5, <2>1, <2>2, SettledUntouched DEF Sync, rows, files
<1>6. ASSUME NEW p \in Procs, Receive(p) PROVE SettledInv'
  <2>1. proc'[p].pc = "admitted" /\ \A q \in Procs \ {p} : proc'[q] = proc[q]
    BY <1>6 DEF Receive, InstallInv, TypeOK
  <2>2. SettledWorker(proc[p])'
    BY <2>1, SettledIdle DEF Installing
  <2> QED BY <1>0, <1>6, <2>1, <2>2, SettledUntouched DEF Receive, rows, files
<1>7. ASSUME NEW p \in Procs, Enter(p) \/ WriteStats(p) \/ Raise(p) \/ Crash(p)
      PROVE  SettledInv'
  <2>1. /\ proc'[p].pc \in {"entered", "ready", "boot"}
        /\ \A q \in Procs \ {p} : proc'[q] = proc[q]
    <3>1. CASE Leave(p)
      BY <3>1, LeaveEffect
    <3>2. CASE Goto(p, "entered")
      BY <3>2, GotoEffect
    <3>3. CASE Crash(p)
      BY <3>3 DEF Crash, At, InstallInv, TypeOK
    <3> QED BY <1>7, <3>1, <3>2, <3>3 DEF Enter, WriteStats, Raise
  <2>2. UNCHANGED <<mark, journal, db, staged>>
    BY <1>7 DEF Enter, WriteStats, Raise, Crash, rows, files
  <2>3. SettledWorker(proc[p])'
    BY <2>1, SettledIdle DEF Installing
  <2> QED BY <1>0, <2>1, <2>2, <2>3, SettledUntouched
<1>8. ASSUME NEW p \in Procs, Stage(p) PROVE SettledInv'
  <2>1. PICK f \in FreshFiles :
          /\ staged' = [staged EXCEPT ![f] = proc[p].snap]
          /\ proc' = [proc EXCEPT ![p].pc = "staged", ![p].file = f]
    BY <1>8 DEF Stage
  <2>2. f \in Files /\ \A e \in journal : e.file # f
    BY DEF FreshFiles
  <2>3. /\ proc'[p].pc = "staged" /\ proc'[p].file = f /\ proc'[p].snap = proc[p].snap
        /\ \A q \in Procs \ {p} : proc'[q] = proc[q]
        /\ staged'[f] = proc[p].snap
        /\ \A g \in Files \ {f} : staged'[g] = staged[g]
    BY <2>1, <2>2 DEF InstallInv, TypeOK, Proc
  <2>4. UNCHANGED <<mark, db, journal>> /\ lock = p
    BY <1>8, WritersHoldLock DEF Stage, rows
  <2>5. SettledWorker(proc[p])'
    BY <2>2, <2>3, <2>4 DEF SettledWorker, Installing
  <2>6. \A e \in journal : e.file \in Files \ {f}
    BY <2>2 DEF InstallInv, TypeOK, Entry
  <2>7. \A q \in Procs : SettledWorker(proc[q])'
    BY <2>3, <2>4, <2>5, SettledOthers
  <2> QED BY <1>0, <2>3, <2>4, <2>6, <2>7 DEF SettledInv
<1>9. ASSUME NEW p \in Procs, Reject(p) PROVE SettledInv'
  <2>1. Leave(p) /\ lock = p /\ UNCHANGED <<mark, journal, db>>
    BY <1>9, WritersHoldLock DEF Reject, rows
  <2>2. SettledWorker(proc[p])'
    BY <2>1, LeaveEffect, SettledIdle DEF Installing
  <2>3. \A e \in journal : e.file \in Files /\ e.file # proc[p].file
    BY <1>0, <1>9 DEF Reject, SettledInv, SettledWorker, InstallInv, TypeOK, Entry
  <2>4. \A e \in journal : staged'[e.file] = staged[e.file]
    BY <1>9, <2>3 DEF Reject, Unlink
  <2>5. \A q \in Procs : SettledWorker(proc[q])'
    BY <2>1, <2>2, LeaveEffect, SettledOthers
  <2> QED BY <1>0, <2>1, <2>4, <2>5 DEF SettledInv
<1>10. ASSUME NEW p \in Procs, Journal(p) PROVE SettledInv'
  <2>1. /\ lock = p
        /\ proc'[p].pc = "journaled"
        /\ proc'[p].snap = proc[p].snap /\ proc'[p].file = proc[p].file
        /\ \A q \in Procs \ {p} : proc'[q] = proc[q]
    BY <1>10, WritersHoldLock, GotoEffect DEF Journal
  <2>2. proc[p].file \in Files /\ staged[proc[p].file] = proc[p].snap
    BY <1>0, <1>10 DEF Journal, InstallInv, ProcInv, WorkerInv, SettledInv, SettledWorker
  <2>3. /\ journal' = {[at |-> proc[p].at, snap |-> proc[p].snap, file |-> proc[p].file]}
        /\ staged'[proc[p].file] = proc[p].snap
    BY <1>10, <2>2 DEF Journal
  <2>4. SettledWorker(proc[p])'
    BY <2>1, <2>3 DEF SettledWorker
  <2>5. \A q \in Procs : SettledWorker(proc[q])'
    BY <2>1, <2>4, SettledOthers
  <2>6. journal' # {} /\ \A e \in journal' : e.snap = proc[p].snap /\ e.file = proc[p].file
    BY <2>3
  <2> QED BY <2>3, <2>5, <2>6 DEF SettledInv
<1>11. ASSUME NEW p \in Procs, Abort(p) PROVE SettledInv'
  <2>1. proc[p].pc = "journaled" /\ staged[proc[p].file] = NoDb
    BY <1>11 DEF Abort, SwapRaises
  <2>2. staged[proc[p].file] = proc[p].snap
    BY <1>0, <2>1 DEF SettledInv, SettledWorker
  <2>3. IsUsage(proc[p].snap)
    BY <2>1 DEF InstallInv, ProcInv, WorkerInv, Fits
  <2> QED BY <2>1, <2>2, <2>3, SentinelAssumption
<1>12. ASSUME NEW p \in Procs, Commit(p) PROVE SettledInv'
  <2>1. lock = p /\ journal' = {}
    BY <1>12, WritersHoldLock DEF Commit, CommitInstall
  <2>2. db' = mark'.snap
    BY <1>0, <1>12, CommitFits DEF CommitInstall, Advances
  <2>3. /\ proc'[p].pc \in {"committed", "ready"}
        /\ \A q \in Procs \ {p} : proc'[q] = proc[q]
    <3>1. CASE Goto(p, "committed")
      BY <3>1, GotoEffect
    <3>2. CASE Leave(p)
      BY <3>2, LeaveEffect
    <3> QED BY <1>12, <3>1, <3>2 DEF Commit
  <2>4. SettledWorker(proc[p])'
    BY <2>3, SettledIdle DEF Installing
  <2>5. \A q \in Procs : SettledWorker(proc[q])'
    BY <2>1, <2>3, <2>4, SettledOthers
  <2> QED BY <2>1, <2>2, <2>5 DEF SettledInv
<1>13. ASSUME NEW p \in Procs, Derive(p) PROVE SettledInv'
  <2>1. proc'[p].pc = "derived" /\ \A q \in Procs \ {p} : proc'[q] = proc[q]
    BY <1>13 DEF Derive, InstallInv, TypeOK, Proc
  <2>2. SettledWorker(proc[p])'
    BY <2>1, SettledIdle DEF Installing
  <2> QED BY <1>0, <1>13, <2>1, <2>2, SettledUntouched DEF Derive, rows, files
<1>14. CASE PurgeRows \/ PurgeFiles
  BY <1>0, <1>14 DEF PurgeRows, PurgeFiles, InstallInv, PurgeInv
<1>15. CASE UNCHANGED vars
  BY <1>15 DEF vars, SettledInv, SettledWorker
<1> QED
  BY <1>1, <1>2, <1>3, <1>4, <1>5, <1>6, <1>7, <1>8, <1>9, <1>10, <1>11, <1>12, <1>13,
     <1>14, <1>15 DEF Next

LEMMA DerivedStep ==
  ASSUME InstallInv, SettledInv, DerivedInv, ~ SwapMayFail, [Next]_vars
  PROVE  DerivedInv'
<1>0. ASSUME NEW p \in Procs, DerivedWorker(proc[p])', StatsLabelled',
             \A q \in Procs \ {p} : proc'[q] = proc[q],
             lock = p \/ UNCHANGED db
      PROVE  DerivedInv'
  <2> SUFFICES ASSUME NEW q \in Procs, q # p PROVE DerivedWorker(proc[q])'
    BY <1>0 DEF DerivedInv
  <2>1. DerivedWorker(proc[q]) /\ proc'[q] = proc[q]
    BY <1>0 DEF DerivedInv
  <2>2. lock = p => proc[q].pc # "committed"
    BY HolderIsAlone DEF Locked, Ingesting
  <2> QED BY <1>0, <2>1, <2>2 DEF DerivedWorker
<1>1. ASSUME NEW p \in Procs,
             \/ Boot(p) \/ RecoverForward(p) \/ RecoverSwap(p) \/ RecoverCommit(p)
             \/ RecoverBack(p) \/ Receive(p) \/ Enter(p) \/ Stage(p) \/ Reject(p)
             \/ Journal(p) \/ Swap(p) \/ Abort(p) \/ Raise(p) \/ Crash(p)
      PROVE  DerivedInv'
  <2>1. /\ proc'[p].pc \notin {"committed", "derived", "syncing"}
        /\ \A q \in Procs \ {p} : proc'[q] = proc[q]
    <3>1. ASSUME NEW pc, Goto(p, pc), pc \notin {"committed", "derived", "syncing"}
          PROVE  /\ proc'[p].pc \notin {"committed", "derived", "syncing"}
                 /\ \A q \in Procs \ {p} : proc'[q] = proc[q]
      BY <3>1, GotoEffect
    <3>2. CASE Leave(p)
      BY <3>2, LeaveEffect
    <3>3. CASE Boot(p) \/ Receive(p) \/ Stage(p) \/ Crash(p)
      BY <3>1, <3>3 DEF Boot, Receive, Stage, Crash, At, InstallInv, TypeOK, Proc
    <3> QED
      BY <1>1, <3>1, <3>2, <3>3 DEF RecoverForward, RecoverSwap, RecoverCommit, RecoverBack,
           Enter, Reject, Journal, Swap, Abort, Raise
  <2>2. lock = p \/ UNCHANGED db
    BY <1>1, WritersHoldLock DEF Boot, Receive, Enter, Raise, Crash, files
  <2>3. UNCHANGED stats
    BY <1>1
         DEF Boot, RecoverForward, RecoverSwap, RecoverCommit, RecoverBack, Receive,
             Enter,
         Stage, Reject, Journal, Swap, Abort, Raise, Crash, CommitInstall, rows
  <2>4. DerivedWorker(proc[p])' /\ StatsLabelled'
    BY <2>1, <2>3 DEF DerivedInv, DerivedWorker, StatsLabelled
  <2> QED BY <1>0, <2>1, <2>2, <2>4
<1>2. ASSUME NEW p \in Procs, Sync(p) PROVE DerivedInv'
  <2>1. UNCHANGED <<stats, db>> /\ lock = p /\ proc[p].pc = "sync"
    BY <1>2, WritersHoldLock DEF Sync, rows, files
  <2>2. CASE Leave(p)
    <3>1. DerivedWorker(proc[p])' /\ StatsLabelled'
      BY <2>1, <2>2, LeaveEffect DEF DerivedWorker, DerivedInv, StatsLabelled
    <3> QED BY <1>0, <2>1, <2>2, <3>1, LeaveEffect
  <2>3. CASE ~ Leave(p)
    <3>1. tenant /\ db = mark.snap
      BY <1>2, <2>1, <2>3 DEF Sync, StatsLag, SettledInv, SettledWorker
    <3>2. /\ proc'[p].pc = "syncing" /\ proc'[p].of = db /\ proc'[p].snap = mark.snap
          /\ \A q \in Procs \ {p} : proc'[q] = proc[q]
      BY <1>2, <2>3 DEF Sync, InstallInv, TypeOK
    <3>3. DerivedWorker(proc[p])' /\ StatsLabelled'
      BY <2>1, <3>1, <3>2 DEF DerivedWorker, DerivedInv, StatsLabelled
    <3> QED BY <1>0, <2>1, <3>2, <3>3
  <2> QED BY <2>2, <2>3
<1>3. ASSUME NEW p \in Procs, Commit(p) PROVE DerivedInv'
  <2>1. UNCHANGED <<stats, db>> /\ lock = p
    BY <1>3, WritersHoldLock DEF Commit, CommitInstall, files
  <2>2. CASE Advances(proc[p].at) /\ Goto(p, "committed")
    <3>1. db = proc[p].snap
      BY <1>3, <2>2, CommitFits DEF Advances
    <3>2. /\ proc'[p].pc = "committed" /\ proc'[p].snap = proc[p].snap
          /\ \A q \in Procs \ {p} : proc'[q] = proc[q]
      BY <2>2, GotoEffect
    <3>3. DerivedWorker(proc[p])' /\ StatsLabelled'
      BY <2>1, <3>1, <3>2 DEF DerivedWorker, DerivedInv, StatsLabelled
    <3> QED BY <1>0, <2>1, <3>2, <3>3
  <2>3. CASE Leave(p)
    <3>1. DerivedWorker(proc[p])' /\ StatsLabelled'
      BY <2>1, <2>3, LeaveEffect DEF DerivedWorker, DerivedInv, StatsLabelled
    <3> QED BY <1>0, <2>1, <2>3, <3>1, LeaveEffect
  <2> QED BY <1>3, <2>2, <2>3 DEF Commit
<1>4. ASSUME NEW p \in Procs, Derive(p) PROVE DerivedInv'
  <2>1. UNCHANGED <<stats, db>> /\ db = proc[p].snap
    BY <1>4 DEF Derive, DerivedInv, DerivedWorker, rows, files
  <2>2. /\ proc'[p].pc = "derived" /\ proc'[p].of = db /\ proc'[p].snap = proc[p].snap
        /\ \A q \in Procs \ {p} : proc'[q] = proc[q]
    BY <1>4 DEF Derive, InstallInv, TypeOK, Proc
  <2>3. DerivedWorker(proc[p])' /\ StatsLabelled'
    BY <2>1, <2>2 DEF DerivedWorker, DerivedInv, StatsLabelled
  <2> QED BY <1>0, <2>1, <2>2, <2>3
<1>5. ASSUME NEW p \in Procs, WriteStats(p) PROVE DerivedInv'
  <2>1. proc[p].of = proc[p].snap
    BY <1>5 DEF WriteStats, DerivedInv, DerivedWorker
  <2>2. stats' = [of |-> proc[p].of, sha |-> proc[p].snap] /\ Leave(p) /\ UNCHANGED db
    BY <1>5 DEF WriteStats, files
  <2>3. DerivedWorker(proc[p])' /\ StatsLabelled'
    BY <2>1, <2>2, LeaveEffect DEF DerivedWorker, StatsLabelled
  <2> QED BY <1>0, <2>2, <2>3, LeaveEffect
<1>6. CASE PurgeRows \/ PurgeFiles \/ UNCHANGED vars
  <2>1. /\ UNCHANGED proc /\ db' \in {db, NoDb} /\ stats' \in {stats, NoStats}
    BY <1>6 DEF PurgeRows, PurgeFiles, vars, rows, files
  <2> QED BY <2>1 DEF DerivedInv, DerivedWorker, StatsLabelled, NoStats
<1> QED BY <1>1, <1>2, <1>3, <1>4, <1>5, <1>6 DEF Next

\* The strengthened invariant of the runs without failing swaps.
THEOREM InstallSound == Spec => []SoundInv
<1>1. Init => SoundInv
  BY InstallInit, SettledInit DEF SoundInv
<1>2. SoundInv /\ [Next]_vars => SoundInv'
  BY InstallStep, SettledStep, DerivedStep DEF SoundInv
<1> QED BY <1>1, <1>2, PTL DEF Spec

\* "Every crash point recovers to exactly one of two consistent states": true
\* as long as no swap raises, for any number of workers and crashes.
THEOREM ConsistentUnlessSwapsFail == ASSUME ~ SwapMayFail PROVE Spec => []Consistent
<1>1. SoundInv => Consistent
  BY DEF SoundInv, SettledInv, Consistent
<1> QED BY InstallSound, <1>1, PTL

\* Under the same condition the statistics are those of the snapshot they are
\* recorded for.
THEOREM LabelledUnlessSwapsFail == ASSUME ~ SwapMayFail PROVE Spec => []StatsLabelled
<1>1. SoundInv => StatsLabelled
  BY DEF SoundInv, DerivedInv
<1> QED BY InstallSound, <1>1, PTL

=============================================================================
