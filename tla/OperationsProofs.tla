--------------------------- MODULE OperationsProofs ---------------------------
(***************************************************************************)
(* Proofs about the parts of Records that operate the installation:        *)
(* supervisor, rebuild, migration, installation, backups, off-site copies  *)
(* and the login throttle, for every value of the constants (see           *)
(* RecordsProofs for the others).                                          *)
(***************************************************************************)
EXTENDS Records, FiniteSetTheorems, TLAPS

\* No step changes the part.
LEMMA PartStays == ASSUME [PartsNext]_slots PROVE part' = part
  BY DEF PartsNext, slots

-----------------------------------------------------------------------------
(* Supervisor.                                                             *)

LEMMA SupervisorPart ==
    ASSUME part = "supervisor"
    PROVE  /\ PartsInit => SU!SupInit
           /\ [PartsNext]_slots => [SU!SupNext]_(SU!supVars)
  <1>1. PartsInit => SU!SupInit
    BY DEF PartsInit
  <1>2. PartsNext => SU!SupNext
    BY DEF PartsNext
  <1>3. UNCHANGED slots => UNCHANGED SU!supVars
    BY DEF slots, SU!supVars
  <1> QED BY <1>1, <1>2, <1>3

LEMMA SupervisorInitially == ASSUME SU!SupInit PROVE SU!SupInv
  BY PartsAssumption
  DEF SU!SupervisorAssumption, SU!SupInit, SU!SupInv, SU!Accounted, SU!Own, SU!Contours

\* A run that ends without stop() leaves what it has in proc, one of each contour
\* at most, to those that earlier runs left.
LEMMA LeavesOneEach ==
    ASSUME SU!SupInv, v1 # "down", \E how : SU!EndsUnclean(how)
    PROVE  SU!SupInv'
  <1> USE DEF SU!SupInv, SU!Accounted, SU!Own, SU!Contours
  <1>1. /\ v9' = v9 + 1 /\ v1' = "down" /\ v2' = v2 /\ v4' = v4 /\ v7' = v7
    BY DEF SU!EndsUnclean
  <1>2. ASSUME NEW c \in SU!Contours PROVE v7'[c] \in SU!Own(c)'..(v9' + SU!Own(c)')
    <2>1. v7[c] \in Nat /\ v9 \in Nat /\ v7[c] <= v9 + 1
      OBVIOUS
    <2>2. SU!Own(c)' = 0
      BY <1>1
    <2> QED BY <1>1, <2>1, <2>2
  <1> QED BY <1>1, <1>2

\* A contour is spawned only where proc has none, and stays in proc until its
\* process is gone, as long as its supervisor runs.
LEMMA SupervisorStep == ASSUME SU!SupInv, [SU!SupNext]_(SU!supVars) PROVE SU!SupInv'
  <1> N \in Nat \ {0}
    BY PartsAssumption DEF SU!SupervisorAssumption
  <1> USE DEF SU!SupInv, SU!Accounted, SU!Own, SU!Contours
  <1>1. CASE SU!Launch
    BY <1>1 DEF SU!Launch
  <1>2. CASE SU!StartOne
    BY <1>2 DEF SU!StartOne, SU!Spawn
  <1>3. CASE SU!Started
    BY <1>3 DEF SU!Started, SU!LoopTest
  <1>4. CASE SU!PollOne
    <2>1. CASE SU!FindDead(v2)
      BY <1>4, <2>1 DEF SU!PollOne, SU!FindDead
    <2>2. CASE SU!Respawn(v2)
      BY <1>4, <2>2 DEF SU!PollOne, SU!Respawn, SU!IsDue, SU!Spawn
    <2>3. CASE SU!NothingToDo(v2)
      BY <1>4, <2>3 DEF SU!PollOne, SU!NothingToDo
    <2> QED BY <1>4, <2>1, <2>2, <2>3 DEF SU!PollOne
  <1>5. CASE SU!CrashLoop
    BY <1>5 DEF SU!CrashLoop
  <1>6. CASE SU!EndPass
    BY <1>6 DEF SU!EndPass
  <1>7. CASE SU!TerminateOne
    BY <1>7 DEF SU!TerminateOne
  <1>8. CASE SU!Exit
    BY <1>8 DEF SU!Exit
  <1>9. CASE SU!Tick
    BY <1>9 DEF SU!Tick, SU!LoopTest
  <1>10. CASE SU!Signal
    BY <1>10 DEF SU!Signal
  <1>11. CASE SU!Killed
    BY <1>11, LeavesOneEach DEF SU!Killed
  <1>12. CASE SU!SpawnFails
    BY <1>12, LeavesOneEach DEF SU!SpawnFails
  <1>13. ASSUME NEW c \in SU!Contours, SU!Dies(c) PROVE SU!SupInv'
    BY <1>13 DEF SU!Dies
  <1>14. ASSUME NEW c \in SU!Contours, SU!OrphanDies(c) PROVE SU!SupInv'
    BY <1>14 DEF SU!OrphanDies
  <1>15. ASSUME NEW c \in SU!Contours, SU!HelperEnds(c) PROVE SU!SupInv'
    BY <1>15 DEF SU!HelperEnds
  <1>16. CASE UNCHANGED SU!supVars
    BY <1>16 DEF SU!supVars
  <1> QED
    BY <1>1, <1>2, <1>3, <1>4, <1>5, <1>6, <1>7, <1>8, <1>9, <1>10, <1>11, <1>12, <1>13,
       <1>14, <1>15, <1>16 DEF SU!SupNext, SU!Run

\* Besides the one process of each contour a supervisor has, there are as many as
\* runs ended without stop(), killed or for a contour that could not be spawned:
\* for every number of contours, of such runs and every restart budget.
THEOREM OneOfEachContour == PartsSpec => []OneInstance
  <1> DEFINE Inv == part = "supervisor" => SU!SupInv
  <1>1. PartsInit => Inv
    BY SupervisorPart, SupervisorInitially
  <1>2. Inv /\ [PartsNext]_slots => Inv'
    BY PartStays, SupervisorPart, SupervisorStep
  <1>3. Inv => OneInstance
    BY DEF OneInstance, SU!OneInstance, SU!SupInv, SU!Accounted, SU!Own
  <1> QED BY <1>1, <1>2, <1>3, PTL DEF PartsSpec

-----------------------------------------------------------------------------
(* Rebuild: v4 is the input, v5 the output, v6 the work, v8 the verdict.   *)

LEMMA RebuildPart ==
    ASSUME part = "rebuild"
    PROVE  /\ PartsInit => RB!RebInit
           /\ [PartsNext]_slots => [RB!RebNext]_(RB!rebVars)
  <1>1. PartsInit => RB!RebInit
    BY DEF PartsInit
  <1>2. PartsNext => RB!RebNext
    BY DEF PartsNext
  <1>3. UNCHANGED slots => UNCHANGED RB!rebVars
    BY DEF slots, RB!rebVars
  <1> QED BY <1>1, <1>2, <1>3

LEMMA RebuildInitially == ASSUME RB!RebInit PROVE RB!RebInv
  BY DEF RB!RebInit, RB!RebInv, RB!Shapes, RB!PricedAlike, RB!VerdictStands

LEMMA RebuildStep == ASSUME RB!RebInv, [RB!RebNext]_(RB!rebVars) PROVE RB!RebInv'
  <1> USE DEF RB!RebInv, RB!Shapes, RB!PricedAlike, RB!VerdictStands, RB!live, RB!stored
  <1>1. CASE RB!Multica
    BY <1>1 DEF RB!Multica
  <1>2. CASE RB!CaptureBegins
    BY <1>2 DEF RB!CaptureBegins
  <1>3. CASE RB!Record
    BY <1>3 DEF RB!Record
  <1>4. CASE RB!CapturePublished
    BY <1>4 DEF RB!CapturePublished
  <1>5. CASE RB!Discarded
    BY <1>5 DEF RB!Discarded
  <1>6. CASE RB!ReplayBegins
    BY <1>6 DEF RB!ReplayBegins
  <1>7. CASE RB!ReplayCommand
    <2>1. PICK x : v6' = [v6 EXCEPT !.responses = x]
      BY <1>7 DEF RB!ReplayCommand, RB!Replayed
    <2>2. /\ v6 # None /\ v6.task = "rebuild"
          /\ UNCHANGED <<v4, v5, v7, v8>>
      BY <1>7 DEF RB!ReplayCommand
    <2>3. v6 = [task |-> "rebuild", rate |-> v6.rate, responses |-> v6.responses,
                frozen |-> v6.frozen]
      BY <2>2
    <2>4. v6' = [task |-> "rebuild", rate |-> v6.rate, responses |-> x, frozen |-> v6.frozen]
      BY <2>1, <2>3
    <2>5. /\ v6'.rate = v6.rate /\ v6'.task = "rebuild"
          /\ v6' = [task |-> "rebuild", rate |-> v6'.rate, responses |-> v6'.responses,
                    frozen |-> v6'.frozen]
      BY <2>4
    <2>6. v8 # "accepted"
      BY <2>2
    <2> QED BY <2>2, <2>5, <2>6
  <1>8. CASE RB!ReplayPriced
    BY <1>8 DEF RB!ReplayPriced, RB!ReplayPrice
  <1>9. CASE RB!ReplayPublished
    BY <1>9 DEF RB!ReplayPublished, RB!Database
  <1>10. CASE RB!Rots
    BY <1>10 DEF RB!Rots
  <1>11. CASE RB!Removed
    BY <1>11 DEF RB!Removed
  <1>12. CASE RB!Verify
    BY <1>12 DEF RB!Verify, RB!Accepts, RB!SameUsage, RB!Database
  <1>13. CASE UNCHANGED RB!rebVars
    BY <1>13 DEF RB!rebVars
  <1> QED
    BY <1>1, <1>2, <1>3, <1>4, <1>5, <1>6, <1>7, <1>8, <1>9, <1>10, <1>11, <1>12, <1>13
    DEF RB!RebNext

\* A rebuild that verify accepts is the captured poll itself, for every set of
\* runtimes and whatever rots, is removed or is captured anew.
THEOREM VerifiedRebuilds == PartsSpec => []RebuildFaithful
  <1> DEFINE Inv == part = "rebuild" => RB!RebInv
  <1>1. PartsInit => Inv
    BY RebuildPart, RebuildInitially
  <1>2. Inv /\ [PartsNext]_slots => Inv'
    BY PartStays, RebuildPart, RebuildStep
  <1>3. Inv => RebuildFaithful
    BY DEF RebuildFaithful, RB!RebInv, RB!VerdictStands, RB!VerifiedIsFaithful
  <1> QED BY <1>1, <1>2, <1>3, PTL DEF PartsSpec

-----------------------------------------------------------------------------
(* Migration.                                                              *)

LEMMA MigratePart ==
    ASSUME part = "migrate"
    PROVE  /\ PartsInit => MI!MigInit
           /\ [PartsNext]_slots => [MI!MigNext]_(MI!migVars)
  <1>1. PartsInit => MI!MigInit
    BY DEF PartsInit
  <1>2. PartsNext => MI!MigNext
    BY DEF PartsNext
  <1>3. UNCHANGED slots => UNCHANGED MI!migVars
    BY DEF slots, MI!migVars
  <1> QED BY <1>1, <1>2, <1>3

LEMMA MigrateInitially == ASSUME MI!MigInit PROVE MI!MigInv
  BY PartsAssumption
  DEF MI!MigrateAssumption, MI!MigInit, MI!MigInv, MI!MigTypes, MI!CopyInHand,
      MI!NothingLost, MI!Rows

LEMMA AfterEach ==
    /\ MI!FileOrder[1] = "archive" /\ MI!After("archive") = "place"
    /\ MI!After("place") = "remove" /\ MI!After("remove") = "register"
  <1> USE DEF MI!After, MI!FileOrder
  <1> DEFINE at(s) == CHOOSE k \in 1..3 : MI!FileOrder[k] = s
  <1>1. at("archive") = 1 /\ at("place") = 2 /\ at("remove") = 3
    OBVIOUS
  <1> QED BY <1>1

\* The archive, the tenant database and the removal follow one another.
LEMMA MigrateStep == ASSUME MI!MigInv, [MI!MigNext]_(MI!migVars) PROVE MI!MigInv'
  <1> USE AfterEach DEF MI!MigInv, MI!MigTypes, MI!CopyInHand, MI!NothingLost, MI!registry,
          MI!Stops
  <1>0. /\ None \notin Nat /\ Unsound \notin Nat /\ MaxContent \in Nat
        /\ None \notin MI!Rows
    BY PartsAssumption DEF MI!MigrateAssumption
  <1>1. CASE MI!LegacyIngest
    BY <1>0, <1>1 DEF MI!LegacyIngest
  <1>2. CASE MI!TenantIngest
    <2>1. UNCHANGED <<v1, v3, v7, v8, v9, v10>> /\ v2' \in Nat /\ v8 = "idle"
      BY <1>0, <1>2 DEF MI!TenantIngest
    <2>2. v6' \in MI!Rows
      BY <1>2, <2>1 DEF MI!TenantIngest, MI!Rows
    <2> QED BY <1>0, <2>1, <2>2
  <1>3. CASE MI!MigBegin
    BY <1>3 DEF MI!MigBegin
  <1>4. CASE MI!Copy
    BY <1>4 DEF MI!Copy
  <1>5. CASE MI!Check
    BY <1>5 DEF MI!Check, MI!Agrees
  <1>6. CASE MI!Archive
    BY <1>6 DEF MI!Archive
  <1>7. CASE MI!Place
    BY <1>7 DEF MI!Place
  <1>8. CASE MI!Remove
    BY <1>8 DEF MI!Remove
  <1>9. CASE MI!Register
    <2>1. /\ UNCHANGED <<v1, v2, v3, v7, v10>> /\ v8' = "idle" /\ v9' = None
          /\ v8 = "register"
      BY <1>9 DEF MI!Register
    <2>2. v6' \in MI!Rows
      BY <1>9 DEF MI!Register, MI!Mark, MI!Larger, MI!Rows
    <2> QED BY <1>0, <2>1, <2>2
  <1>10. CASE MI!MigFails
    BY <1>10 DEF MI!MigFails
  <1>11. CASE UNCHANGED MI!migVars
    BY <1>11 DEF MI!migVars
  <1> QED
    BY <1>1, <1>2, <1>3, <1>4, <1>5, <1>6, <1>7, <1>8, <1>9, <1>10, <1>11 DEF MI!MigNext

\* What one step may do to the owner's data, and how a command ends.
LEMMA MigrateForward ==
    ASSUME MI!MigInv, MI!MigNext
    PROVE  MI!StepsForward /\ MI!EndsWhole
  <1> USE DEF MI!MigInv, MI!MigTypes, MI!registry, MI!Stops, MI!StepsForward, MI!EndsWhole
  <1>0. /\ None \notin Nat /\ None \notin MI!Rows
        /\ v2 # None => v2 \in Nat
        /\ v6 # None => v6.mark \in Nat
    BY PartsAssumption DEF MI!MigrateAssumption, MI!Rows
  <1>1. CASE UNCHANGED <<v2, v6>>
    BY <1>0, <1>1
  <1>2. CASE MI!TenantIngest
    BY <1>0, <1>2 DEF MI!TenantIngest
  <1>3. CASE MI!Place
    BY <1>0, <1>3 DEF MI!Place, MI!CopyInHand
  <1>4. CASE MI!Register
    <2>1. MI!StepsForward
      BY <1>0, <1>4 DEF MI!Register, MI!Mark, MI!Larger
    <2>2. MI!EndsWhole
      BY <1>0, <1>4 DEF MI!Register, MI!CopyInHand, MI!NothingLost
    <2> QED BY <2>1, <2>2
  <1> QED
    BY <1>1, <1>2, <1>3, <1>4
    DEF MI!MigNext, MI!LegacyIngest, MI!MigBegin, MI!Copy, MI!Check, MI!Archive, MI!Remove,
        MI!MigFails

\* Wherever it stops, nothing of the owner's data is lost or set back, and a
\* command that ends has migrated all, for every number of interruptions.
THEOREM MigrationSafe == PartsSpec => Migrated
  <1> DEFINE Inv == part = "migrate" => MI!MigInv
  <1>1. PartsInit => Inv
    BY MigratePart, MigrateInitially
  <1>2. Inv /\ [PartsNext]_slots => Inv'
    BY PartStays, MigratePart, MigrateStep
  <1>3. Inv => (part = "migrate" => MI!ArchiveFirst)
    BY DEF MI!MigInv, MI!CopyInHand, MI!NothingLost, MI!ArchiveFirst
  <1>4. Inv /\ [PartsNext]_slots => [part = "migrate" => MI!StepsForward /\ MI!EndsWhole]_slots
    BY MigrateForward DEF PartsNext
  <1> QED BY <1>1, <1>2, <1>3, <1>4, PTL DEF PartsSpec, Migrated

-----------------------------------------------------------------------------
(* Installation.                                                           *)

LEMMA InstallPart ==
    ASSUME part = "install"
    PROVE  /\ PartsInit => RI!RtInit
           /\ [PartsNext]_slots => [RI!RtNext]_(RI!rtVars)
  <1>1. PartsInit => RI!RtInit
    BY DEF PartsInit
  <1>2. PartsNext => RI!RtNext
    BY DEF PartsNext
  <1>3. UNCHANGED slots => UNCHANGED RI!rtVars
    BY DEF slots, RI!rtVars
  <1> QED BY <1>1, <1>2, <1>3

LEMMA InstallInitially == ASSUME RI!RtInit PROVE RI!RtInv
  BY PartsAssumption
  DEF RI!InstallAssumption, RI!RtInit, RI!RtInv, RI!StatusInv, RI!SwapInv, RI!ProofInv,
      RI!RetiredInv, RI!BothOnDisk, RI!ProvenHealthy, RI!Installing, RI!Replacing, RI!NoSwap,
      RI!NoSave

\* A rollback moves the two generations between the directories and believes
\* only a status that its own supervisor published, or a late one of the last.
LEMMA RuntimeStep == ASSUME RI!RtInv, [RI!RtNext]_(RI!rtVars) PROVE RI!RtInv'
  <1> USE DEF RI!RtInv, RI!StatusInv, RI!SwapInv, RI!ProofInv, RI!RetiredInv, RI!BothOnDisk,
          RI!ProvenHealthy, RI!Installing, RI!Replacing, RI!NoSwap, RI!NoSave, RI!dirs, RI!launchd,
          RI!nature, RI!history
  <1>1. CASE RI!Reports
    <2>1. /\ v7 \in v4 /\ v9' = [pid |-> v8, ok |-> TRUE]
          /\ v17' = (v17 \/ v11 \in RI!Replacing)
          /\ v1' = v1 /\ v2' = v2 /\ v3' = v3 /\ v4' = v4 /\ v7' = v7 /\ v8' = v8 /\ v10' = v10
          /\ v11' = v11 /\ v12' = v12 /\ v14' = v14 /\ v15' = v15
      BY <1>1 DEF RI!Reports
    <2>2. RI!StatusInv'
      BY <2>1
    <2>3. RI!ProofInv'
      <3>1. v11' \in RI!Replacing => v17'
        BY <2>1
      <3>2. v11' \in {"health", "undo"} => v7' = v1' /\ v1' \in v4'
        BY <2>1
      <3> QED BY <3>1, <3>2
    <2>4. RI!SwapInv' /\ RI!RetiredInv' /\ RI!BothOnDisk'
      BY <2>1
    <2>5. RI!ProvenHealthy'
      BY <2>1
    <2> QED BY <2>1, <2>2, <2>3, <2>4, <2>5
  <1>2. CASE RI!LegacyReturns
    BY <1>2 DEF RI!LegacyReturns
  <1>3. CASE RI!Install
    BY <1>3 DEF RI!Install, RI!Starts
  <1>4. CASE RI!Drop
    BY <1>4 DEF RI!Drop
  <1>5. CASE RI!Keep
    BY <1>5 DEF RI!Keep
  <1>6. ASSUME NEW g \in Gens, RI!Move(g) PROVE RI!RtInv'
    BY <1>6 DEF RI!Move
  <1>7. CASE RI!InstallRetires
    BY <1>7 DEF RI!InstallRetires, RI!Retire, RI!Retired
  <1>8. CASE RI!InstallBoots
    BY <1>8 DEF RI!InstallBoots, RI!Boots, RI!Ends
  <1>9. CASE RI!InstallFails
    BY <1>9 DEF RI!InstallFails
  <1>10. CASE RI!SwapRaises
    BY <1>10 DEF RI!SwapRaises, RI!Ends
  <1>11. CASE RI!Remove
    BY <1>11 DEF RI!Remove
  <1>12. CASE RI!RestorePrevious
    BY <1>12 DEF RI!RestorePrevious, RI!Boots, RI!Ends
  <1>13. CASE RI!RestoreLegacy
    BY <1>13 DEF RI!RestoreLegacy, RI!Ends
  <1>14. CASE RI!Rollback
    BY <1>14 DEF RI!Rollback, RI!Starts
  <1>15. CASE RI!RollbackRetires
    BY <1>15 DEF RI!RollbackRetires, RI!Retire, RI!Retired, RI!ReadsPid
  <1>16. CASE RI!Park
    BY <1>16 DEF RI!Park, RI!Parked
  <1>17. CASE RI!Activate
    BY <1>17 DEF RI!Activate
  <1>18. CASE RI!RollbackBoots
    BY <1>18 DEF RI!RollbackBoots, RI!Boots
  <1>19. CASE RI!RolledBack
    BY <1>19 DEF RI!RolledBack, RI!Ends, RI!Healthy
  <1>20. CASE RI!Reject
    BY <1>20 DEF RI!Reject
  <1>21. CASE RI!Unpark
    BY <1>21 DEF RI!Unpark, RI!Ends
  <1>22. CASE RI!Reread
    BY <1>22 DEF RI!Reread, RI!ReadsPid
  <1>23. CASE RI!Reload
    BY <1>23 DEF RI!Reload, RI!Boots
  <1>24. CASE RI!Undone
    BY <1>24 DEF RI!Undone, RI!Ends, RI!Healthy
  <1>25. CASE RI!Terminal
    BY <1>25 DEF RI!Terminal, RI!Ends
  <1>26. CASE RI!Stopped
    BY <1>26 DEF RI!Stopped, RI!Ends
  <1>27. CASE RI!Restart
    BY <1>27 DEF RI!Restart, RI!Boots
  <1>28. CASE RI!Uninstall
    BY <1>28 DEF RI!Uninstall
  <1>29. CASE UNCHANGED RI!rtVars
    BY <1>29 DEF RI!rtVars
  <1> HIDE DEF RI!RtInv
  <1> QED
    BY <1>1, <1>2, <1>3, <1>4, <1>5, <1>6, <1>7, <1>8, <1>9, <1>10, <1>11, <1>12, <1>13,
       <1>14, <1>15, <1>16, <1>17, <1>18, <1>19, <1>20, <1>21, <1>22, <1>23, <1>24, <1>25,
       <1>26, <1>27, <1>28, <1>29 DEF RI!RtNext

\* A cutover that ends well has gone through the retirement of the legacy job.
LEMMA CutoverRetires == ASSUME RI!RtInv, RI!RtNext PROVE RI!EndsRetired
  BY DEF RI!RtInv, RI!SwapInv, RI!RetiredInv, RI!EndsRetired, RI!RtNext, RI!Reports,
     RI!LegacyReturns, RI!Install, RI!Starts, RI!Drop, RI!Keep, RI!Move, RI!InstallRetires,
     RI!Retire, RI!InstallBoots, RI!Boots, RI!Ends, RI!InstallFails, RI!SwapRaises, RI!Remove,
     RI!RestorePrevious, RI!RestoreLegacy, RI!Rollback, RI!RollbackRetires, RI!Park,
     RI!Activate, RI!RollbackBoots, RI!RolledBack, RI!Reject, RI!Unpark, RI!Reread, RI!Reload,
     RI!Undone, RI!Terminal, RI!Stopped, RI!Restart, RI!Uninstall, RI!launchd, RI!history

\* Both generations stay on disk until a rollback is proven healthy, and only a
\* late status of the supervisor it replaces can make the proof unsound, for every
\* number of generations, commands and failures.
THEOREM RollbackProven == PartsSpec => RuntimeProven
  <1> DEFINE Inv == part = "install" => RI!RtInv
  <1>1. PartsInit => Inv
    BY InstallPart, InstallInitially
  <1>2. Inv /\ [PartsNext]_slots => Inv'
    BY PartStays, InstallPart, RuntimeStep
  <1>3. Inv => (part = "install" => RI!BothOnDisk /\ RI!ProvenHealthy)
    BY DEF RI!RtInv
  <1>4. Inv /\ [PartsNext]_slots => [part = "install" => RI!EndsRetired]_slots
    BY CutoverRetires DEF PartsNext
  <1> QED BY <1>1, <1>2, <1>3, <1>4, PTL DEF PartsSpec, RuntimeProven

-----------------------------------------------------------------------------
(* Backups: v1, v2 and v3 are the files, safety copies and sidecars, v4 the *)
(* generations, v6 the task, v7 what it has to do, v8 what is staged, v9    *)
(* the step, v10 the saved state, v11 tells a failed compensation.          *)

LEMMA BackupPart ==
    ASSUME part = "backup"
    PROVE  /\ PartsInit => BK!BakInit
           /\ [PartsNext]_slots => [BK!BakNext]_(BK!bakVars)
  <1>1. PartsInit => BK!BakInit
    BY DEF PartsInit
  <1>2. PartsNext => BK!BakNext
    BY DEF PartsNext
  <1>3. UNCHANGED slots => UNCHANGED BK!bakVars
    BY DEF slots, BK!bakVars
  <1> QED BY <1>1, <1>2, <1>3

\* Whatever is to do, one member of it is handled first, and one last.
LEMMA FirstAndLast ==
    ASSUME v7 \subseteq Members, v7 # {}
    PROVE  BK!First \in v7 /\ BK!Last \in v7
  <1> DEFINE S == {BK!Place(m) : m \in v7}
  <1>1. Order \in Seq(Members) /\ \A m \in Members : \E i \in DOMAIN Order : Order[i] = m
    BY PartsAssumption DEF BK!BackupAssumption
  <1>2. \A m \in Members : BK!Place(m) \in DOMAIN Order
    BY <1>1 DEF BK!Place
  <1>3. DOMAIN Order = 1..Len(Order) /\ Len(Order) \in Nat
    BY <1>1
  <1>4. S \in SUBSET (1..Len(Order)) /\ S \in SUBSET Nat /\ S # {}
    BY <1>2, <1>3
  <1> HIDE DEF S
  <1>5. PICK l \in S : \A i \in S : l <= i
    BY <1>4, PartsAssumption, PO!LeastNatural
  <1>6. PICK g \in S : \A i \in S : i <= g
    BY <1>3, <1>4, PartsAssumption, PO!GreatestNatural
  <1>7. BK!First \in v7
    <2>1. PICK m \in v7 : BK!Place(m) = l
      BY <1>5 DEF S
    <2>2. \A n \in v7 : BK!Place(m) <= BK!Place(n)
      BY <1>5, <2>1 DEF S
    <2> QED BY <2>2 DEF BK!First
  <1>8. BK!Last \in v7
    <2>1. PICK m \in v7 : BK!Place(m) = g
      BY <1>6 DEF S
    <2>2. \A n \in v7 : BK!Place(n) <= BK!Place(m)
      BY <1>6, <2>1 DEF S
    <2> QED BY <2>2 DEF BK!Last
  <1> QED BY <1>7, <1>8

LEMMA BackupInitially == ASSUME BK!BakInit PROVE BK!BakInv
  <1>1. BK!Nothing \in [Members -> Nat \cup {Absent}]
    BY DEF BK!Nothing
  <1>2. v1 \in [Members -> Nat \cup {Absent}]
    BY DEF BK!BakInit
  <1>3. v2 = BK!Nothing /\ v3 = BK!Nothing /\ v8 = BK!Nothing /\ v4 = <<>> /\ v7 = {}
        /\ v10 = <<BK!Nothing, BK!Nothing, BK!Nothing>> /\ v6 = "idle"
    BY DEF BK!BakInit
  <1>4. BK!BakTypes
    BY <1>1, <1>2, <1>3 DEF BK!BakTypes
  <1> QED BY <1>3, <1>4 DEF BK!BakInv, BK!InstallsInOrder, BK!PutsBack

LEMMA BackupTypes == ASSUME BK!BakTypes, [BK!BakNext]_(BK!bakVars) PROVE BK!BakTypes'
  <1> DEFINE Sound == [Members -> Nat \cup {Absent}]
             Any == [Members -> Nat \cup {Absent, Garbage}]
  <1>1. /\ v1 \in Sound /\ v2 \in Sound /\ v3 \in Sound /\ v8 \in Sound
        /\ v10 \in Sound \X Sound \X Sound
        /\ v4 \in Seq(Any) /\ v7 \subseteq Members
    BY DEF BK!BakTypes
  <1>2. SUFFICES /\ v1' \in Sound /\ v2' \in Sound /\ v3' \in Sound /\ v8' \in Sound
                 /\ v10' \in Sound \X Sound \X Sound
                 /\ v4' \in Seq(Any) /\ v7' \subseteq Members
    BY DEF BK!BakTypes
  <1>3. BK!Nothing \in Sound /\ <<BK!Nothing, BK!Nothing, BK!Nothing>> \in Sound \X Sound \X Sound
    BY DEF BK!Nothing
  <1>4. v7 # {} => BK!First \in Members /\ BK!Last \in Members
    BY <1>1, FirstAndLast
  <1>5. \A f \in Sound, g \in Sound, m \in Members : [f EXCEPT ![m] = g[m]] \in Sound
    OBVIOUS
  <1>6. \A f \in Sound, m \in Members : [f EXCEPT ![m] = Absent] \in Sound
    OBVIOUS
  <1>7. \A i \in 1..3 : v10[i] \in Sound
    BY <1>1
  <1>8. BK!Planned \subseteq Members /\ BK!Durable \subseteq Members
    BY DEF BK!Planned, BK!Durable
  <1>10. ASSUME NEW m \in Members, BK!Write(m) PROVE /\ v1' \in Sound /\ v3' \in Sound
                                                  /\ UNCHANGED <<v2, v4, v7, v8, v10>>
    <2>1. v1[m] = Absent \/ v1[m] \in Nat
      BY <1>1
    <2>2. (IF v1[m] = Absent THEN 1 ELSE v1[m] + 1) \in Nat
      BY <2>1
    <2>3. v1' \in Sound
      BY <1>1, <1>10, <2>2 DEF BK!Write
    <2> QED BY <1>1, <1>10, <2>3 DEF BK!Write, BK!bookkeeping
  <1>11. ASSUME NEW g \in 1..MaxGens, NEW m \in Members, BK!Rot(g, m)
         PROVE  v4' \in Seq(Any) /\ UNCHANGED <<v1, v2, v3, v7, v8, v10>>
    <2>1. g \in DOMAIN v4 /\ v4' = [v4 EXCEPT ![g] = [v4[g] EXCEPT ![m] = Garbage]]
      BY <1>11 DEF BK!Rot
    <2>2. v4[g] \in Any
      BY <1>1, <2>1
    <2>3. [v4[g] EXCEPT ![m] = Garbage] \in Any
      BY <2>2
    <2>4. v4' \in Seq(Any)
      BY <1>1, <2>1, <2>3
    <2> QED BY <1>11, <2>4 DEF BK!Rot, BK!files, BK!bookkeeping
  <1>9. ASSUME BK!Ended
        PROVE  v7' \subseteq Members /\ v8' \in Sound /\ v10' \in Sound \X Sound \X Sound
    BY <1>3, <1>9 DEF BK!Ended
  <1>12. CASE BK!BeginCreate
    BY <1>1, <1>3, <1>8, <1>12 DEF BK!BeginCreate, BK!files, BK!bookkeeping
  <1>13. CASE BK!CopyMember
    <2>1. v7 # {} /\ v8' = [v8 EXCEPT ![BK!First] = v1[BK!First]]
          /\ v7' = v7 \ {BK!First} /\ UNCHANGED <<v1, v2, v3, v4, v10>>
      BY <1>13 DEF BK!CopyMember, BK!files, BK!bookkeeping
    <2> QED BY <1>1, <1>4, <1>5, <2>1
  <1>14. CASE BK!Publish
    <2>1. v4' = Append(v4, v8) /\ v8' = BK!Nothing /\ UNCHANGED <<v1, v2, v3, v7, v10>>
      BY <1>14 DEF BK!Publish, BK!files, BK!bookkeeping
    <2>2. Sound \subseteq Any
      OBVIOUS
    <2>3. v8 \in Any
      BY <1>1, <2>2
    <2> HIDE DEF Sound, Any
    <2> QED BY <1>1, <1>3, <2>1, <2>3
  <1>15. CASE BK!PruneOne
    <2>1. v4' = Tail(v4) /\ Len(v4) > Retention /\ UNCHANGED <<v1, v2, v3, v7, v8, v10>>
      BY <1>15 DEF BK!PruneOne, BK!Excess, BK!files, BK!bookkeeping
    <2>2. Retention \in Nat \ {0}
      BY PartsAssumption DEF BK!BackupAssumption
    <2> HIDE DEF Sound, Any
    <2>3. v4 # <<>>
      BY <1>1, <2>1, <2>2
    <2> QED BY <1>1, <2>1, <2>3
  <1>16. CASE BK!PruneDone \/ UNCHANGED BK!bakVars
    BY <1>1, <1>16 DEF BK!PruneDone, BK!files, BK!bookkeeping, BK!bakVars
  <1>17. CASE BK!CreateFails \/ BK!Restored \/ BK!RolledBack \/ BK!RestoreKilled
    BY <1>1, <1>9, <1>17
       DEF BK!CreateFails, BK!Restored, BK!RolledBack, BK!RestoreKilled, BK!files
  <1>18. ASSUME NEW g \in 1..MaxGens, NEW only, BK!BeginRestore(g, only)
         PROVE  /\ v7' \subseteq Members /\ v8' \in Sound /\ v10' \in Sound \X Sound \X Sound
                /\ UNCHANGED <<v1, v2, v3, v4>>
    <2> DEFINE sel == IF only = {} THEN BK!Listed(g) ELSE only
    <2>1. /\ g \in DOMAIN v4 /\ only \subseteq BK!Listed(g) /\ BK!Verified(g, sel)
          /\ v7' = sel /\ v10' = <<v1, v2, v3>> /\ UNCHANGED <<v1, v2, v3, v4>>
          /\ v8' = [m \in Members |-> IF m \in sel THEN v4[g][m] ELSE Absent]
      BY <1>18 DEF BK!BeginRestore, BK!files
    <2>2. sel \subseteq Members
      BY <2>1 DEF BK!Listed
    <2>3. v4[g] \in Any
      BY <1>1, <2>1
    <2>4. \A m \in sel : v4[g][m] \in Nat \cup {Absent}
      BY <2>1, <2>2, <2>3 DEF BK!Verified
    <2> HIDE DEF sel
    <2>5. v8' \in Sound
      BY <2>1, <2>4
    <2>6. v10' \in Sound \X Sound \X Sound
      BY <1>1, <2>1
    <2> QED BY <2>1, <2>2, <2>5, <2>6
  <1>19. CASE BK!CopyAside
    BY <1>1, <1>4, <1>5, <1>19 DEF BK!CopyAside
  <1>20. CASE BK!ClearSidecars
    BY <1>1, <1>4, <1>6, <1>20 DEF BK!ClearSidecars
  <1>21. CASE BK!Replace
    BY <1>1, <1>4, <1>5, <1>21 DEF BK!Replace
  <1>22. CASE BK!Synced
    BY <1>1, <1>22 DEF BK!Synced, BK!files
  <1>23. CASE BK!InstallFails
    BY <1>1, <1>8, <1>23 DEF BK!InstallFails, BK!files
  <1>24. CASE BK!RollbackOne
    <2>1. /\ v7 # {} /\ v7' = v7 \ {BK!Last} /\ UNCHANGED <<v4, v8, v10>>
          /\ v1' = [v1 EXCEPT ![BK!Last] = v10[1][BK!Last]]
          /\ v2' = [v2 EXCEPT ![BK!Last] = v10[2][BK!Last]]
          /\ v3' = [v3 EXCEPT ![BK!Last] = v10[3][BK!Last]]
      BY <1>24 DEF BK!RollbackOne, BK!SideBack, BK!bookkeeping
    <2>2. v10[1] \in Sound /\ v10[2] \in Sound /\ v10[3] \in Sound
      BY <1>7
    <2> HIDE DEF Sound
    <2> QED BY <1>1, <1>4, <1>5, <2>1, <2>2
  <1>25. CASE BK!RollbackFails
    BY <1>1, <1>25 DEF BK!RollbackFails, BK!files
  <1> HIDE DEF Sound, Any
  <1> QED BY <1>1, <1>10, <1>11, <1>12, <1>13, <1>14, <1>15, <1>16, <1>17, <1>18, <1>19,
             <1>20, <1>21, <1>22, <1>23, <1>24, <1>25 DEF BK!BakNext

\* Only a restore is under way when it is in order; the other commands end, or
\* begin, with nothing installed.
LEMMA RestoreStep == ASSUME BK!BakInv, [BK!BakNext]_(BK!bakVars)
                     PROVE  BK!InstallsInOrder' /\ BK!PutsBack'
  <1>1. BK!BakTypes /\ BK!InstallsInOrder /\ BK!PutsBack
    BY DEF BK!BakInv
  <1>2. v7 # {} => BK!First \in v7 /\ BK!Last \in v7
    BY <1>1, FirstAndLast DEF BK!BakTypes
  <1>3. /\ v1 = [m \in Members |-> v1[m]] /\ v2 = [m \in Members |-> v2[m]]
        /\ v3 = [m \in Members |-> v3[m]] /\ v7 \subseteq Members
    BY <1>1 DEF BK!BakTypes
  <1>4. v7' = v7 => BK!First' = BK!First
    BY DEF BK!First, BK!Place
  <1>5. v8' = v8 => BK!Planned' = BK!Planned
    BY DEF BK!Planned
  <1>6. CASE v6' \notin {"install", "rollback"}
    BY <1>6 DEF BK!InstallsInOrder, BK!PutsBack
  <1>7. ASSUME NEW g \in 1..MaxGens, NEW only, BK!BeginRestore(g, only)
        PROVE  BK!InstallsInOrder' /\ BK!PutsBack'
    <2> DEFINE sel == IF only = {} THEN BK!Listed(g) ELSE only
    <2>1. /\ only \subseteq BK!Listed(g) /\ v7' = sel /\ v6' = "install" /\ v9' = "aside"
          /\ v10' = <<v1, v2, v3>> /\ UNCHANGED <<v1, v2, v3>>
          /\ v8' = [m \in Members |-> IF m \in sel THEN v4[g][m] ELSE Absent]
      BY <1>7 DEF BK!BeginRestore, BK!files
    <2>2. \A m \in sel : m \in Members /\ v4[g][m] # Absent
      BY <2>1 DEF BK!Listed
    <2> HIDE DEF sel
    <2>3. BK!Planned' = sel
      BY <2>1, <2>2 DEF BK!Planned
    <2>4. \A m \in Members : BK!AsSaved(m)'
      BY <2>1 DEF BK!AsSaved
    <2> QED BY <2>1, <2>3, <2>4 DEF BK!InstallsInOrder, BK!PutsBack
  <1>8. CASE BK!CopyAside
    <2>1. /\ v6 = "install" /\ v7 # {} /\ v9' = "clear"
          /\ UNCHANGED <<v1, v3, v6, v7, v8, v10>>
          /\ \A m \in Members \ {BK!First} : v2'[m] = v2[m]
      BY <1>3, <1>8 DEF BK!CopyAside
    <2>2. BK!First \in BK!Planned
      BY <1>1, <1>2, <2>1 DEF BK!InstallsInOrder
    <2>3. \A m \in Members \ BK!Planned : BK!AsSaved(m)'
      BY <1>1, <2>1, <2>2 DEF BK!InstallsInOrder, BK!AsSaved
    <2>4. \A m \in BK!Planned \ v7 : BK!InPlace(m)'
      BY <1>1, <2>1 DEF BK!InstallsInOrder, BK!InPlace
    <2> QED BY <1>1, <1>4, <1>5, <2>1, <2>3, <2>4 DEF BK!InstallsInOrder, BK!PutsBack
  <1>9. CASE BK!ClearSidecars
    <2>1. /\ v6 = "install" /\ v7 # {} /\ v9' = "replace"
          /\ UNCHANGED <<v1, v2, v6, v7, v8, v10>>
          /\ v3' = [v3 EXCEPT ![BK!First] = Absent]
      BY <1>9 DEF BK!ClearSidecars
    <2>2. BK!First \in BK!Planned /\ BK!First \in v7 /\ BK!First \in Members
      BY <1>1, <1>2, <1>3, <2>1 DEF BK!InstallsInOrder
    <2>3. v3'[BK!First] = Absent /\ \A m \in Members \ {BK!First} : v3'[m] = v3[m]
      BY <1>3, <2>1, <2>2
    <2>4. \A m \in Members \ BK!Planned : BK!AsSaved(m)'
      BY <1>1, <2>1, <2>2, <2>3 DEF BK!InstallsInOrder, BK!AsSaved
    <2>5. \A m \in BK!Planned \ v7 : BK!InPlace(m)'
      BY <1>1, <2>1, <2>2, <2>3 DEF BK!InstallsInOrder, BK!InPlace, BK!Planned
    <2> QED BY <1>1, <1>4, <1>5, <2>1, <2>3, <2>4, <2>5 DEF BK!InstallsInOrder, BK!PutsBack
  <1>10. CASE BK!Replace
    <2>1. /\ v6 = "install" /\ v7 # {} /\ v9 = "replace" /\ v9' = "sync"
          /\ UNCHANGED <<v2, v3, v6, v7, v8, v10>>
          /\ v1' = [v1 EXCEPT ![BK!First] = v8[BK!First]]
      BY <1>10 DEF BK!Replace
    <2>2. BK!First \in BK!Planned /\ BK!First \in v7 /\ BK!First \in Members
          /\ v3[BK!First] = Absent
      BY <1>1, <1>2, <1>3, <2>1 DEF BK!InstallsInOrder
    <2>3. v1'[BK!First] = v8[BK!First] /\ \A m \in Members \ {BK!First} : v1'[m] = v1[m]
      BY <1>3, <2>1, <2>2
    <2>4. \A m \in Members \ BK!Planned : BK!AsSaved(m)'
      BY <1>1, <2>1, <2>2, <2>3 DEF BK!InstallsInOrder, BK!AsSaved
    <2>5. \A m \in BK!Planned \ v7 : BK!InPlace(m)'
      BY <1>1, <2>1, <2>2, <2>3 DEF BK!InstallsInOrder, BK!InPlace, BK!Planned
    <2> QED BY <1>1, <1>4, <1>5, <2>1, <2>2, <2>3, <2>4, <2>5
            DEF BK!InstallsInOrder, BK!PutsBack
  <1>11. CASE BK!Synced
    <2>1. /\ v6 = "install" /\ v7 # {} /\ v9 = "sync" /\ v9' = "aside"
          /\ v7' = v7 \ {BK!First} /\ UNCHANGED <<v1, v2, v3, v6, v8, v10>>
      BY <1>11 DEF BK!Synced, BK!files
    <2>2. BK!InPlace(BK!First)
      BY <1>1, <1>2, <2>1 DEF BK!InstallsInOrder, BK!InPlace
    <2>3. \A m \in Members \ BK!Planned : BK!AsSaved(m)'
      BY <1>1, <2>1 DEF BK!InstallsInOrder, BK!AsSaved
    <2>4. \A m \in BK!Planned \ v7' : BK!InPlace(m)'
      BY <1>1, <2>1, <2>2 DEF BK!InstallsInOrder, BK!InPlace
    <2> QED BY <1>1, <1>5, <2>1, <2>3, <2>4 DEF BK!InstallsInOrder, BK!PutsBack
  <1>12. CASE BK!InstallFails
    <2>1. /\ v6 = "install" /\ v6' = "rollback" /\ v7' = BK!Planned
          /\ UNCHANGED <<v1, v2, v3, v8, v10>>
      BY <1>12 DEF BK!InstallFails, BK!files
    <2>2. \A m \in Members \ BK!Planned : BK!AsSaved(m)'
      BY <1>1, <2>1 DEF BK!InstallsInOrder, BK!AsSaved
    <2> QED BY <1>5, <2>1, <2>2 DEF BK!InstallsInOrder, BK!PutsBack
  <1>13. CASE BK!RollbackOne
    <2>1. /\ v6 = "rollback" /\ v7 # {} /\ v7' = v7 \ {BK!Last}
          /\ UNCHANGED <<v6, v8, v10, v11>>
          /\ v1' = [v1 EXCEPT ![BK!Last] = v10[1][BK!Last]]
          /\ v2' = [v2 EXCEPT ![BK!Last] = v10[2][BK!Last]]
          /\ v3' = [v3 EXCEPT ![BK!Last] = v10[3][BK!Last]]
      BY <1>13 DEF BK!RollbackOne, BK!SideBack, BK!bookkeeping
    <2>2. BK!Last \in BK!Planned /\ BK!Last \in Members
      BY <1>1, <1>2, <1>3, <2>1 DEF BK!PutsBack
    <2>3. /\ v1'[BK!Last] = v10[1][BK!Last] /\ v2'[BK!Last] = v10[2][BK!Last]
          /\ v3'[BK!Last] = v10[3][BK!Last]
          /\ \A m \in Members \ {BK!Last} :
               v1'[m] = v1[m] /\ v2'[m] = v2[m] /\ v3'[m] = v3[m]
      BY <1>3, <2>1, <2>2
    <2>4. \A m \in Members : m = BK!Last => BK!AsSaved(m)'
      <3> SUFFICES ASSUME NEW m \in Members, m = BK!Last PROVE BK!AsSaved(m)'
        OBVIOUS
      <3>1. v1'[m] = v10[1][m] /\ v2'[m] = v10[2][m] /\ v3'[m] = v10[3][m]
        BY <2>3
      <3> HIDE DEF BK!Last
      <3> QED BY <2>1, <3>1 DEF BK!AsSaved
    <2>5. \A m \in Members : m # BK!Last => (BK!AsSaved(m)' <=> BK!AsSaved(m))
      <3> SUFFICES ASSUME NEW m \in Members, m # BK!Last
                   PROVE  BK!AsSaved(m)' <=> BK!AsSaved(m)
        OBVIOUS
      <3>1. v1'[m] = v1[m] /\ v2'[m] = v2[m] /\ v3'[m] = v3[m]
        BY <2>3
      <3> QED BY <2>1, <3>1 DEF BK!AsSaved
    <2> QED BY <1>1, <1>5, <2>1, <2>2, <2>4, <2>5 DEF BK!InstallsInOrder, BK!PutsBack, BK!Planned
  <1>14. CASE BK!RollbackFails
    <2>1. /\ v6 = "rollback" /\ v7' = v7 \ {BK!Last} /\ v11' = TRUE
          /\ UNCHANGED <<v1, v2, v3, v6, v8, v10>>
      BY <1>14 DEF BK!RollbackFails, BK!files
    <2>2. \A m \in Members \ BK!Planned : BK!AsSaved(m)'
      BY <1>1, <2>1 DEF BK!PutsBack, BK!AsSaved
    <2> QED BY <1>1, <1>5, <2>1, <2>2 DEF BK!InstallsInOrder, BK!PutsBack
  <1>15. CASE UNCHANGED <<v1, v2, v3, v6, v7, v8, v9, v10, v11>>
    <2>1. \A m : (BK!AsSaved(m)' <=> BK!AsSaved(m)) /\ (BK!InPlace(m)' <=> BK!InPlace(m))
      BY <1>15 DEF BK!AsSaved, BK!InPlace
    <2> QED BY <1>1, <1>4, <1>5, <1>15, <2>1 DEF BK!InstallsInOrder, BK!PutsBack
  <1>16. CASE \/ \E m \in Members : BK!Write(m)
              \/ BK!BeginCreate \/ BK!CopyMember \/ BK!Publish \/ BK!PruneOne
              \/ BK!PruneDone \/ BK!CreateFails \/ BK!Restored \/ BK!RolledBack
              \/ BK!RestoreKilled
    <2>1. v6' \notin {"install", "rollback"}
      BY <1>16 DEF BK!Write, BK!BeginCreate, BK!CopyMember, BK!Publish, BK!PruneOne,
         BK!PruneDone, BK!CreateFails, BK!Restored, BK!RolledBack, BK!RestoreKilled, BK!Ended
    <2> QED BY <1>6, <2>1
  <1>17. CASE \/ \E g \in 1..MaxGens, m \in Members : BK!Rot(g, m)
              \/ UNCHANGED BK!bakVars
    BY <1>15, <1>17 DEF BK!Rot, BK!bakVars, BK!files, BK!bookkeeping
  <1> QED BY <1>7, <1>8, <1>9, <1>10, <1>11, <1>12, <1>13, <1>14, <1>16, <1>17 DEF BK!BakNext

LEMMA BackupStep == ASSUME BK!BakInv, [BK!BakNext]_(BK!bakVars) PROVE BK!BakInv'
  BY BackupTypes, RestoreStep DEF BK!BakInv

LEMMA BackupSafe == ASSUME BK!BakInv PROVE BK!RestoreAllOrNothing /\ BK!LiveSound
  <1>1. BK!BakTypes /\ BK!InstallsInOrder /\ BK!PutsBack
    BY DEF BK!BakInv
  <1>2. BK!LiveSound
    <2>1. v1 \in [Members -> Nat \cup {Absent}] /\ v2 \in [Members -> Nat \cup {Absent}]
      BY <1>1 DEF BK!BakTypes
    <2>2. Garbage \notin Nat \cup {Absent}
      BY PartsAssumption DEF BK!BackupAssumption
    <2> QED BY <2>1, <2>2 DEF BK!LiveSound
  <1>3. ASSUME v6 = "install", v7 = {}, NEW m \in Members
        PROVE  IF v8[m] = Absent
                 THEN <<v1[m], v2[m], v3[m]>> = <<v10[1][m], v10[2][m], v10[3][m]>>
                 ELSE v1[m] = v8[m] /\ v3[m] = Absent
    BY <1>1, <1>3 DEF BK!InstallsInOrder, BK!Planned, BK!AsSaved, BK!InPlace
  <1>4. ASSUME v6 = "rollback", v7 = {}, ~v11
        PROVE  v10 = <<v1, v2, v3>>
    <2>1. \A m \in Members : BK!AsSaved(m)
      BY <1>1, <1>4 DEF BK!PutsBack, BK!Planned
    <2> DEFINE Sound == [Members -> Nat \cup {Absent}]
    <2>2. /\ v1 \in Sound /\ v2 \in Sound /\ v3 \in Sound
          /\ v10 = <<v10[1], v10[2], v10[3]>>
          /\ v10[1] \in Sound /\ v10[2] \in Sound /\ v10[3] \in Sound
      BY <1>1 DEF BK!BakTypes
    <2>3. \A f, g \in Sound : (\A m \in Members : f[m] = g[m]) => f = g
      OBVIOUS
    <2>4. \A m \in Members : v1[m] = v10[1][m] /\ v2[m] = v10[2][m] /\ v3[m] = v10[3][m]
      BY <2>1 DEF BK!AsSaved
    <2> HIDE DEF Sound
    <2>5. v1 = v10[1] /\ v2 = v10[2] /\ v3 = v10[3]
      BY <2>2, <2>3, <2>4
    <2> QED BY <2>2, <2>5
  <1> QED BY <1>2, <1>3, <1>4 DEF BK!RestoreAllOrNothing

\* A generation goes only when there are more than the retention asks for.
LEMMA RetentionStays == ASSUME BK!BakInv, BK!BakNext PROVE BK!StaysRetained
  <1> DEFINE Any == [Members -> Nat \cup {Absent, Garbage}]
  <1>1. v4 \in Seq(Any) /\ Retention \in Nat \ {0}
    BY PartsAssumption DEF BK!BakInv, BK!BakTypes, BK!BackupAssumption
  <1> HIDE DEF Any
  <1>2. CASE v4' = v4
    BY <1>1, <1>2 DEF BK!StaysRetained
  <1>3. ASSUME NEW g, NEW m, BK!Rot(g, m) PROVE Len(v4') = Len(v4)
    BY <1>1, <1>3 DEF BK!Rot
  <1>4. CASE BK!Publish
    <2>1. v4' = Append(v4, v8)
      BY <1>4 DEF BK!Publish
    <2>2. Len(v4') = Len(v4) + 1
      BY <1>1, <2>1
    <2> QED BY <1>1, <2>2 DEF BK!StaysRetained
  <1>5. CASE BK!PruneOne
    <2>1. v4' = Tail(v4) /\ Len(v4) > Retention
      BY <1>5 DEF BK!PruneOne, BK!Excess
    <2>2. Len(v4') = Len(v4) - 1
      BY <1>1, <2>1
    <2> QED BY <1>1, <2>1, <2>2 DEF BK!StaysRetained
  <1> QED BY <1>2, <1>3, <1>4, <1>5
          DEF BK!BakNext, BK!StaysRetained, BK!Write, BK!BeginCreate, BK!CopyMember,
          BK!PruneDone, BK!CreateFails, BK!BeginRestore, BK!CopyAside, BK!ClearSidecars,
          BK!Replace, BK!Synced, BK!Restored, BK!InstallFails, BK!RollbackOne,
          BK!RollbackFails, BK!RolledBack, BK!RestoreKilled

\* A restore is whole or undone, nothing that failed its checks goes live, and
\* no failing create leaves fewer generations than the retention: for every
\* number of databases, generations and faults (create_backup, restore_backup).
THEOREM BackupsKept == PartsSpec => BackupKept
  <1> DEFINE Inv == part = "backup" => BK!BakInv
  <1>1. PartsInit => Inv
    BY BackupPart, BackupInitially
  <1>2. Inv /\ [PartsNext]_slots => Inv'
    BY PartStays, BackupPart, BackupStep
  <1>3. Inv => (part = "backup" => BK!RestoreAllOrNothing /\ BK!LiveSound)
    BY BackupSafe
  <1>4. Inv /\ [PartsNext]_slots => [part = "backup" => BK!StaysRetained]_slots
    BY RetentionStays DEF PartsNext
  <1> QED BY <1>1, <1>2, <1>3, <1>4, PTL DEF PartsSpec, BackupKept

-----------------------------------------------------------------------------
(* Off-site bundles: v1 is the newest local generation, v2 the files, v3 the *)
(* metadata, v4 the staged names, v5 the place in a push, v6 its generation, *)
(* v7 what its prune has to remove.                                          *)

LEMMA OffsitePart ==
    ASSUME part = "offsite"
    PROVE  /\ PartsInit => OS!OffInit
           /\ [PartsNext]_slots => [OS!OffNext]_(OS!offVars)
  <1>1. PartsInit => OS!OffInit
    BY DEF PartsInit
  <1>2. PartsNext => OS!OffNext
    BY DEF PartsNext
  <1>3. UNCHANGED slots => UNCHANGED OS!offVars
    BY DEF slots, OS!offVars, OS!published
  <1> QED BY <1>1, <1>2, <1>3

LEMMA UpTo == ASSUME NEW n \in Nat, NEW S \in SUBSET (1..n)
              PROVE  IsFiniteSet(S) /\ Cardinality(S) \in Nat
  <1>1. IsFiniteSet(1..n)
    BY FS_Interval
  <1> QED BY <1>1, FS_Subset, FS_CardinalityType

LEMMA Fewer == ASSUME NEW n \in Nat, NEW S \in SUBSET (1..n), NEW T \in SUBSET S, NEW r \in Nat,
                      Cardinality(T) >= r
               PROVE  Cardinality(S) >= r
  <1>1. IsFiniteSet(S) /\ Cardinality(S) \in Nat /\ T \in SUBSET (1..n)
    BY UpTo
  <1>2. Cardinality(T) \in Nat /\ Cardinality(T) <= Cardinality(S)
    BY <1>1, UpTo, FS_Subset
  <1> QED BY <1>1, <1>2

\* Of a list of bundles, one is before all the others.
LEMMA OneIsFirst ==
    ASSUME NEW n \in Nat, NEW T \in SUBSET [gen : 1..n, staged : BOOLEAN], T # {}
    PROVE  /\ OS!FirstOf(T) \in T
           /\ \A f \in T \ {OS!FirstOf(T)} : OS!Before(OS!FirstOf(T), f)
  <1> DEFINE A == {e \in T : ~e.staged}
             B == IF A # {} THEN A ELSE T
             G == {e.gen : e \in B}
  <1>1. \A e \in T : /\ e.gen \in 1..n /\ e.staged \in BOOLEAN
                     /\ e = [gen |-> e.gen, staged |-> e.staged]
    OBVIOUS
  <1>2. B # {} /\ B \subseteq T
    OBVIOUS
  <1> HIDE DEF B
  <1>3. G \in SUBSET (1..n) /\ G # {}
    BY <1>1, <1>2
  <1>4. PICK g \in G : \A i \in G : i <= g
    BY <1>3, PartsAssumption, PO!GreatestNatural
  <1>5. PICK e \in B : e.gen = g
    BY <1>4
  <1>6. ASSUME NEW f \in T, f # e PROVE OS!Before(e, f)
    <2>1. CASE f.staged = e.staged
      <3>1. f \in B
        BY <1>2, <1>5, <2>1 DEF B
      <3>2. f.gen <= e.gen
        BY <1>4, <1>5, <3>1
      <3>3. f.gen # e.gen
        BY <1>1, <1>2, <1>5, <1>6, <2>1
      <3>4. f.gen \in Nat /\ e.gen \in Nat
        BY <1>1, <1>2, <1>5
      <3> QED BY <2>1, <3>2, <3>3, <3>4 DEF OS!Before
    <2>2. CASE f.staged # e.staged
      <3>1. e.staged => A = {}
        BY <1>5 DEF B
      <3>2. f.staged
        BY <1>1, <1>2, <1>5, <2>2, <3>1
      <3> QED BY <2>2, <3>2 DEF OS!Before
    <2> QED BY <2>1, <2>2
  <1>7. e \in T /\ \A f \in T \ {e} : OS!Before(e, f)
    BY <1>2, <1>5, <1>6
  <1> QED BY <1>7 DEF OS!FirstOf

\* What is listed before a published bundle are published bundles of later
\* generations.
LEMMA AheadAreNewer ==
    ASSUME NEW n \in Nat, NEW M \in SUBSET (1..n), NEW I, \A e \in I : e.staged = TRUE,
           NEW g \in M, NEW r \in Nat,
           Cardinality({f \in {[gen |-> h, staged |-> FALSE] : h \in M} \cup I :
                          OS!Before(f, [gen |-> g, staged |-> FALSE])}) >= r
    PROVE  Cardinality(OS!Newer(M, g)) >= r
  <1> DEFINE A == {f \in {[gen |-> h, staged |-> FALSE] : h \in M} \cup I :
                     OS!Before(f, [gen |-> g, staged |-> FALSE])}
             H == OS!Newer(M, g)
             m == [f \in A |-> f.gen]
  <1>1. \A f \in A : f.gen \in H /\ f = [gen |-> f.gen, staged |-> FALSE]
    <2> TAKE f \in A
    <2>1. OS!Before(f, [gen |-> g, staged |-> FALSE])
      OBVIOUS
    <2>2. f \notin I
      BY <2>1 DEF OS!Before
    <2>3. PICK h \in M : f = [gen |-> h, staged |-> FALSE]
      BY <2>2
    <2>4. h > g
      BY <2>1, <2>3 DEF OS!Before
    <2> QED BY <2>3, <2>4 DEF OS!Newer
  <1>2. H \in SUBSET (1..n)
    BY DEF OS!Newer
  <1>3. IsFiniteSet(H) /\ Cardinality(H) \in Nat
    BY <1>2, UpTo
  <1> HIDE DEF A, H
  <1>4. m \in [A -> H] /\ \A e, f \in A : m[e] = m[f] => e = f
    BY <1>1
  <1> HIDE DEF m
  <1>5. m \in Injection(A, H)
    BY <1>4 DEF Injection, IsInjective
  <1>6. IsFiniteSet(A) /\ Cardinality(A) <= Cardinality(H)
    BY <1>3, <1>5, FS_Injection
  <1>7. Cardinality(A) \in Nat /\ Cardinality(A) >= r
    BY <1>6, FS_CardinalityType DEF A
  <1>8. Cardinality(H) >= r
    BY <1>3, <1>6, <1>7
  <1> QED BY <1>8 DEF H

\* Behind as many others, one is behind as many of those that are kept.
LEMMA KeptAreAhead ==
    ASSUME NEW n \in Nat, NEW S \in SUBSET (1..n), NEW r \in Nat, NEW x \in S,
           Cardinality(OS!Newer(S, x)) >= r
    PROVE  \E K \in SUBSET S :
             /\ Cardinality(K) >= r
             /\ \A h \in K : h > x /\ ~(Cardinality(OS!Newer(S, h)) >= r)
  <1> DEFINE W == {h \in S : Cardinality(OS!Newer(S, h)) >= r}
  <1>1. W \in SUBSET (1..n) /\ x \in W
    OBVIOUS
  <1>2. PICK z \in W : \A w \in W : w <= z
    <2> HIDE DEF W
    <2> QED BY <1>1, PartsAssumption, PO!GreatestNatural
  <1> DEFINE U == OS!Newer(S, z)
  <1>3. Cardinality(U) >= r
    BY <1>2
  <1>4. ASSUME NEW k \in U
        PROVE  k > x /\ ~(Cardinality(OS!Newer(S, k)) >= r)
    <2>1. x <= z /\ x \in Nat /\ z \in Nat /\ k \in Nat /\ k \in S /\ k > z
      BY <1>1, <1>2 DEF OS!Newer
    <2>2. k \notin W
      <3> HIDE DEF W
      <3> QED BY <1>2, <2>1
    <2> QED BY <2>1, <2>2
  <1>5. U \in SUBSET S
    BY DEF OS!Newer
  <1> HIDE DEF U
  <1> QED BY <1>3, <1>4, <1>5

LEMMA OffsiteInitially == ASSUME OS!OffInit PROVE OS!OffInv
  <1>1. /\ v1 = 0 /\ v2 = [g \in Generations |-> "none"] /\ v3 = {} /\ v4 = {}
        /\ v5 = "idle" /\ v6 = 0 /\ v7 = {}
    BY DEF OS!OffInit
  <1>2. 1..v1 = {} /\ 0 \in 0..v1
    BY <1>1
  <1>3. v2 \in [Generations -> {"none", "good", "bad"}]
    BY <1>1
  <1> QED BY <1>1, <1>2, <1>3 DEF OS!OffInv, OS!OffTypes, OS!BehindFirm

LEMMA OffsiteTypes ==
    ASSUME OS!OffTypes, [OS!OffNext]_(OS!offVars)
    PROVE  OS!OffTypes'
  <1> DEFINE Marks == {"none", "good", "bad"}
             Incoming(n) == [gen : 1..n, meta : BOOLEAN]
             Entries(n) == [gen : 1..n, staged : BOOLEAN]
  <1>1. /\ v1 \in Generations \cup {0} /\ v1 \in Nat
        /\ v6 \in 0..v1 /\ (v5 # "idle" => v6 # 0)
        /\ v2 \in [Generations -> Marks]
        /\ v3 \subseteq 1..v1 /\ 1..v1 \subseteq Generations
        /\ v4 \subseteq Incoming(v1) /\ v7 \subseteq Entries(v1)
    <2>1. Generations \subseteq Nat \ {0}
      BY PartsAssumption DEF OS!OffsiteAssumption
    <2> QED BY <2>1 DEF OS!OffTypes
  <1>2. v6 # 0 => v6 \in 1..v1
    BY <1>1
  <1>3. SUFFICES /\ v1' \in Generations \cup {0} /\ v6' \in 0..v1' /\ (v5' # "idle" => v6' # 0)
                 /\ v2' \in [Generations -> Marks]
                 /\ v3' \subseteq 1..v1' /\ 1..v1' \subseteq Generations
                 /\ v4' \subseteq Incoming(v1') /\ v7' \subseteq Entries(v1')
    BY DEF OS!OffTypes
  <1>4. CASE OS!NewLocal
    <2>1. v1 + 1 \in Generations /\ v1' = v1 + 1 /\ UNCHANGED <<v2, v3, v4, v5, v6, v7>>
      BY <1>4 DEF OS!NewLocal, OS!published
    <2>2. 1..v1 \subseteq 1..v1' /\ 1..v1' = 1..v1 \cup {v1 + 1} /\ 0..v1 \subseteq 0..v1'
      BY <1>1, <2>1
    <2>3. Incoming(v1) \subseteq Incoming(v1') /\ Entries(v1) \subseteq Entries(v1')
      BY <2>2
    <2> HIDE DEF Incoming, Entries
    <2> QED BY <1>1, <2>1, <2>2, <2>3
  <1>5. ASSUME NEW g \in Generations, OS!BundleRots(g)
        PROVE  v2' \in [Generations -> Marks] /\ UNCHANGED <<v1, v3, v4, v5, v6, v7>>
    BY <1>1, <1>5 DEF OS!BundleRots
  <1>6. CASE OS!PushRefused
    BY <1>1, <1>6 DEF OS!PushRefused, OS!Fails, OS!published
  <1>7. CASE OS!PushAgain \/ OS!PushWithoutKey \/ OS!PushBegins
    <2>1. v1 # 0 /\ v6' = v1 /\ UNCHANGED <<v1, v2, v3, v4, v7>>
      BY <1>7 DEF OS!PushAgain, OS!PushWithoutKey, OS!PushBegins, OS!published
    <2>2. v6' \in 0..v1' /\ v6' # 0
      BY <1>1, <2>1
    <2> HIDE DEF Incoming, Entries
    <2> QED BY <1>1, <2>1, <2>2
  <1>8. CASE OS!StageFile \/ OS!StageMeta
    <2>1. PICK b \in BOOLEAN : /\ v4' = v4 \cup {[gen |-> v6, meta |-> b]} /\ v5 # "idle"
                               /\ UNCHANGED <<v1, v2, v3, v6, v7>>
      BY <1>8 DEF OS!StageFile, OS!StageMeta, OS!Staged, OS!published
    <2>2. v4' \subseteq Incoming(v1)
      BY <1>1, <1>2, <2>1
    <2> HIDE DEF Incoming, Entries
    <2> QED BY <1>1, <2>1, <2>2
  <1>9. ASSUME v5 # "idle", OS!Renames("enc") \/ OS!Renames("meta")
        PROVE  /\ v2' \in [Generations -> Marks] /\ v4' \subseteq v4
               /\ v3' \subseteq 1..v1
    <2>1. v6 \in 1..v1
      BY <1>1, <1>2, <1>9
    <2> HIDE DEF Incoming, Entries
    <2> QED BY <1>1, <1>9, <2>1 DEF OS!Renames
  <1>10. CASE OS!RenameOne
    <2>1. /\ v5 # "idle" /\ OS!Renames("enc") /\ UNCHANGED <<v1, v6, v7>>
      BY <1>10 DEF OS!RenameOne, OS!RenameOrder
    <2> HIDE DEF Incoming, Entries
    <2> QED BY <1>1, <1>9, <2>1
  <1>11. CASE OS!RenameOther
    <2>1. /\ v5 # "idle" /\ OS!Renames("meta") /\ UNCHANGED <<v1, v6>> /\ v7' = OS!Excess'
      BY <1>11 DEF OS!RenameOther, OS!RenameOrder
    <2>2. v4' \subseteq Incoming(v1) /\ v3' \subseteq 1..v1
      BY <1>1, <1>9, <2>1
    <2>3. OS!Listed' \subseteq Entries(v1)
      <3>1. \A g \in v3' : [gen |-> g, staged |-> FALSE] \in Entries(v1)
        BY <2>2
      <3>2. \A r \in v4' : [gen |-> r.gen, staged |-> TRUE] \in Entries(v1)
        BY <2>2
      <3> HIDE DEF Incoming, Entries
      <3> QED BY <3>1, <3>2 DEF OS!Listed
    <2>4. v7' \subseteq OS!Listed'
      BY <2>1 DEF OS!Excess
    <2> HIDE DEF Incoming, Entries
    <2> QED BY <1>1, <1>9, <2>1, <2>2, <2>3, <2>4
  <1>12. CASE OS!PushFails
    <2>1. v5' = "idle" /\ v4' \subseteq v4 /\ UNCHANGED <<v1, v2, v3, v6, v7>>
      BY <1>12 DEF OS!PushFails, OS!Fails, OS!published
    <2> HIDE DEF Incoming, Entries
    <2> QED BY <1>1, <2>1
  <1>13. CASE OS!PushKilled
    <2>1. v5' = "idle" /\ v7' = {} /\ UNCHANGED <<v1, v2, v3, v4, v6>>
      BY <1>13 DEF OS!PushKilled, OS!published
    <2> HIDE DEF Incoming, Entries
    <2> QED BY <1>1, <2>1
  <1>14. ASSUME NEW metaGoes \in BOOLEAN, OS!PruneEntry(metaGoes)
         PROVE  /\ v2' \in [Generations -> Marks] /\ v3' \subseteq v3 /\ v4' \subseteq v4
                /\ v7' \subseteq v7 /\ UNCHANGED <<v1, v5, v6>>
    BY <1>1, <1>14 DEF OS!PruneEntry, OS!published
  <1>15. CASE OS!PruneSkips
    <2>1. v7' \subseteq v7 /\ UNCHANGED <<v1, v2, v3, v4, v5, v6>>
      BY <1>15 DEF OS!PruneSkips, OS!published
    <2> HIDE DEF Incoming, Entries
    <2> QED BY <1>1, <2>1
  <1>16. CASE OS!Pushed \/ OS!Drill \/ UNCHANGED OS!offVars
    <2>1. (v5' = v5 \/ v5' = "idle") /\ UNCHANGED <<v1, v2, v3, v4, v6, v7>>
      BY <1>16 DEF OS!Pushed, OS!Drill, OS!offVars, OS!published
    <2> HIDE DEF Incoming, Entries
    <2> QED BY <1>1, <2>1
  <1> HIDE DEF Incoming, Entries
  <1> QED BY <1>1, <1>4, <1>5, <1>6, <1>7, <1>8, <1>10, <1>11, <1>12, <1>13, <1>14, <1>15,
             <1>16 DEF OS!OffNext

\* The firm bundles are some of the generations up to the newest.
LEMMA FirmUpTo ==
    ASSUME OS!OffTypes
    PROVE  /\ v1 \in Nat /\ v3 \in SUBSET (1..v1)
           /\ OS!Complete \subseteq v3 /\ OS!Firm \subseteq OS!Complete
  <1>1. Generations \subseteq Nat \ {0}
    BY PartsAssumption DEF OS!OffsiteAssumption
  <1> QED BY <1>1 DEF OS!OffTypes, OS!Complete, OS!Firm

\* The number of elements is the same within the part.
LEMMA SameCount == \A S : OS!Cardinality(S) = Cardinality(S)
  BY DEF OS!Cardinality, Cardinality

LEMMA BehindStays ==
    ASSUME OS!OffTypes', OS!BehindFirm, OS!Firm \subseteq OS!Firm',
           v3' \ OS!Firm' \subseteq v3 \ OS!Firm
    PROVE  OS!BehindFirm'
  <1>1. v1' \in Nat /\ OS!Firm' \subseteq 1..v1'
    <2>1. Generations \subseteq Nat \ {0}
      BY PartsAssumption DEF OS!OffsiteAssumption
    <2>2. v1' \in Nat /\ v3' \subseteq 1..v1'
      BY <2>1 DEF OS!OffTypes
    <2>3. OS!Firm' \subseteq v3'
      BY DEF OS!Complete, OS!Firm
    <2> QED BY <2>2, <2>3
  <1>2. OffRetention \in Nat
    BY PartsAssumption DEF OS!OffsiteAssumption
  <1> SUFFICES ASSUME NEW g \in v3' \ OS!Firm'
               PROVE  Cardinality(OS!Newer(OS!Firm', g)) >= OffRetention
    BY SameCount DEF OS!BehindFirm
  <1>3. Cardinality(OS!Newer(OS!Firm, g)) >= OffRetention
    BY SameCount DEF OS!BehindFirm
  <1>4. /\ OS!Newer(OS!Firm', g) \in SUBSET (1..v1')
        /\ OS!Newer(OS!Firm, g) \in SUBSET OS!Newer(OS!Firm', g)
    BY <1>1 DEF OS!Newer
  <1> QED BY <1>1, <1>2, <1>3, <1>4, Fewer

\* A published bundle that is listed with its file missing is behind others.
LEMMA OffsitePublishes == ASSUME OS!OffInv, OS!OffTypes', OS!RenameOther PROVE OS!BehindFirm'
  <1> DEFINE R == OffRetention
             M == v3 \cup {v6}
             I == {[gen |-> r.gen, staged |-> TRUE] : r \in {s \in v4' : s.meta}}
             F(g) == [gen |-> g, staged |-> FALSE]
             Lst == {F(h) : h \in M} \cup I
             C == {h \in M : v2[h] # "none"}
  <1>1. /\ v5 = "rename_other" /\ v3' = M /\ v2' = v2 /\ v1' = v1 /\ v7' = OS!Excess'
        /\ v2[v6] # "none" /\ v7 = {}
    BY DEF OS!RenameOther, OS!RenameOrder, OS!Renames, OS!OffInv
  <1>2. v1 \in Nat /\ M \in SUBSET (1..v1) /\ R \in Nat
    <2>1. v1' \in Nat /\ v3' \subseteq 1..v1'
      <3>1. Generations \subseteq Nat \ {0}
        BY PartsAssumption DEF OS!OffsiteAssumption
      <3> QED BY <3>1 DEF OS!OffTypes
    <2>2. R \in Nat
      BY PartsAssumption DEF OS!OffsiteAssumption
    <2> QED BY <1>1, <2>1, <2>2
  <1>3. v7' = {e \in Lst : Cardinality({f \in Lst : OS!Before(f, e)}) >= R}
    BY <1>1, SameCount DEF OS!Excess, OS!Ahead, OS!Listed
  <1>4. \A g \in M : F(g) \in v7' => Cardinality(OS!Newer(M, g)) >= R
    <2> TAKE g \in M
    <2>1. HAVE F(g) \in v7'
    <2>2. Cardinality({f \in Lst : OS!Before(f, F(g))}) >= R
      BY <1>3, <2>1
    <2>3. \A e \in I : e.staged = TRUE
      OBVIOUS
    <2> HIDE DEF M, I
    <2> QED BY <1>2, <2>2, <2>3, AheadAreNewer
  <1>5. \A g \in M : v2[g] = "none" => Cardinality(OS!Newer(M, g)) >= R
    <2> SUFFICES ASSUME NEW g \in M, v2[g] = "none"
                 PROVE  Cardinality(OS!Newer(M, g)) >= R
      OBVIOUS
    <2>1. g \in v3 /\ g \notin OS!Firm
      BY <1>1 DEF OS!Firm, OS!Complete
    <2>2. Cardinality(OS!Newer(OS!Firm, g)) >= R
      BY <2>1, SameCount DEF OS!OffInv, OS!BehindFirm
    <2>3. OS!Newer(OS!Firm, g) \subseteq OS!Newer(M, g)
      BY DEF OS!Firm, OS!Complete, OS!Newer
    <2>4. OS!Newer(M, g) \in SUBSET (1..v1)
      BY <1>2 DEF OS!Newer
    <2> HIDE DEF M
    <2> QED BY <1>2, <2>2, <2>3, <2>4, Fewer
  <1>6. OS!Firm' = {h \in C : F(h) \notin v7'}
    BY <1>1 DEF OS!Firm, OS!Complete
  <1> SUFFICES ASSUME NEW g \in M, g \notin OS!Firm'
               PROVE  Cardinality(OS!Newer(OS!Firm', g)) >= R
    BY <1>1, SameCount DEF OS!BehindFirm
  <1> HIDE DEF M, I, Lst
  <1>7. Cardinality(OS!Newer(M, g)) >= R
    BY <1>4, <1>5, <1>6
  <1>8. PICK K \in SUBSET M :
          /\ Cardinality(K) >= R
          /\ \A h \in K : h > g /\ ~(Cardinality(OS!Newer(M, h)) >= R)
    <2> HIDE DEF R
    <2> QED BY <1>2, <1>7, KeptAreAhead
  <1>9. K \subseteq OS!Newer(OS!Firm', g)
    BY <1>4, <1>5, <1>6, <1>8 DEF OS!Newer
  <1>10. OS!Newer(OS!Firm', g) \in SUBSET (1..v1)
    BY <1>2, <1>6 DEF OS!Newer
  <1> QED BY <1>2, <1>8, <1>9, <1>10, Fewer

\* A prune takes away what is not firm.
LEMMA OffsitePrunes ==
    ASSUME OS!OffTypes, OS!PruneSkips \/ \E metaGoes \in BOOLEAN : OS!PruneEntry(metaGoes)
    PROVE  /\ OS!Firm \subseteq OS!Firm' /\ v3' \ OS!Firm' \subseteq v3 \ OS!Firm
           /\ \/ OS!Complete \subseteq OS!Complete'
              \/ \E g \in v3 \ OS!Firm : OS!Complete \ {g} \subseteq OS!Complete'
  <1> DEFINE e == OS!Entry
  <1>1. e \in v7 /\ e.gen \in 1..v1 /\ e = [gen |-> e.gen, staged |-> e.staged]
        /\ e.staged \in BOOLEAN /\ v7' = v7 \ {e}
    <2>1. v7 # {} /\ v7' = v7 \ {e}
      BY DEF OS!PruneSkips, OS!PruneEntry
    <2>2. v7 \in SUBSET [gen : 1..v1, staged : BOOLEAN]
      BY DEF OS!OffTypes
    <2>3. e \in v7
      BY <2>1, <2>2, FirmUpTo, OneIsFirst DEF OS!Entry
    <2> HIDE DEF e
    <2> QED BY <2>1, <2>2, <2>3
  <1>2. v3 \subseteq Generations /\ v2 = [g \in Generations |-> v2[g]]
    BY DEF OS!OffTypes
  <1>3. CASE UNCHANGED <<v2, v3>>
    <2>1. OS!Complete' = OS!Complete
      BY <1>3 DEF OS!Complete
    <2> HIDE DEF e
    <2> QED BY <1>1, <1>3, <2>1 DEF OS!Firm
  <1>4. CASE /\ e.staged = FALSE /\ v2' = [v2 EXCEPT ![e.gen] = "none"]
             /\ (v3' = v3 \/ v3' = v3 \ {e.gen})
    <2> HIDE DEF e
    <2>1. OS!Complete' = OS!Complete \ {e.gen}
      BY <1>2, <1>4 DEF OS!Complete
    <2>2. e = [gen |-> e.gen, staged |-> FALSE]
      BY <1>1, <1>4
    <2>3. e.gen \notin OS!Firm
      BY <1>1, <2>2 DEF OS!Firm
    <2>4. \A h : h # e.gen => [gen |-> h, staged |-> FALSE] # e
      BY <2>2
    <2>5. OS!Firm' = OS!Firm
      BY <1>1, <2>1, <2>2, <2>3, <2>4 DEF OS!Firm
    <2>6. OS!Complete \subseteq v3
      BY DEF OS!Complete
    <2> QED BY <1>4, <2>1, <2>3, <2>5, <2>6
  <1>5. UNCHANGED <<v2, v3>> \/
        /\ e.staged = FALSE /\ v2' = [v2 EXCEPT ![e.gen] = "none"]
        /\ (v3' = v3 \/ v3' = v3 \ {e.gen})
    <2> HIDE DEF e
    <2>1. CASE OS!PruneSkips
      BY <2>1 DEF OS!PruneSkips, OS!published
    <2>2. ASSUME NEW metaGoes \in BOOLEAN, OS!PruneEntry(metaGoes)
          PROVE  UNCHANGED <<v2, v3>> \/
                 /\ e.staged = FALSE /\ v2' = [v2 EXCEPT ![e.gen] = "none"]
                 /\ (v3' = v3 \/ v3' = v3 \ {e.gen})
      BY <1>1, <2>2 DEF OS!PruneEntry, OS!published, e
    <2> QED BY <2>1, <2>2
  <1> QED BY <1>3, <1>4, <1>5

\* Every other step leaves the bundles, or publishes a file.
LEMMA OffsiteOthers ==
    ASSUME OS!OffInv, [OS!OffNext]_(OS!offVars)
    PROVE  \/ OS!RenameOther
           \/ OS!PruneSkips \/ \E metaGoes \in BOOLEAN : OS!PruneEntry(metaGoes)
           \/ /\ v3' = v3 /\ v7' \subseteq v7
              /\ \A g \in v3 : v2[g] # "none" => v2'[g] # "none"
  <1>1. v3 \subseteq Generations /\ v2 = [g \in Generations |-> v2[g]]
    BY DEF OS!OffInv, OS!OffTypes
  <1>2. ASSUME NEW g, OS!BundleRots(g) \/ OS!RenameOne
        PROVE  /\ v3' = v3 /\ v7' \subseteq v7
               /\ \A h \in v3 : v2[h] # "none" => v2'[h] # "none"
    BY <1>1, <1>2 DEF OS!BundleRots, OS!RenameOne, OS!RenameOrder, OS!Renames
  <1>3. CASE v2' = v2 /\ v3' = v3 /\ v7' \subseteq v7
    BY <1>3
  <1> QED BY <1>2, <1>3
          DEF OS!OffNext, OS!NewLocal, OS!PushRefused, OS!PushAgain, OS!PushWithoutKey,
          OS!PushBegins, OS!StageFile, OS!StageMeta, OS!PushFails, OS!PushKilled, OS!Pushed,
          OS!Drill, OS!Fails, OS!offVars, OS!published

LEMMA OffsiteStep == ASSUME OS!OffInv, [OS!OffNext]_(OS!offVars) PROVE OS!OffInv'
  <1>1. OS!OffTypes /\ OS!OffTypes' /\ OS!BehindFirm
    BY OffsiteTypes DEF OS!OffInv
  <1>2. OS!BehindFirm'
    <2>1. CASE OS!RenameOther
      BY <1>1, <2>1, OffsitePublishes
    <2>2. CASE OS!PruneSkips \/ \E metaGoes \in BOOLEAN : OS!PruneEntry(metaGoes)
      BY <1>1, <2>2, OffsitePrunes, BehindStays
    <2>3. CASE /\ v3' = v3 /\ v7' \subseteq v7
               /\ \A g \in v3 : v2[g] # "none" => v2'[g] # "none"
      <3>1. OS!Firm \subseteq OS!Firm'
        BY <2>3 DEF OS!Firm, OS!Complete
      <3> QED BY <1>1, <2>3, <3>1, BehindStays
    <2> QED BY <2>1, <2>2, <2>3, OffsiteOthers
  <1>3. v5' = "rename_other" => v2'[v6'] # "none"
    <2>1. ASSUME v5' = "rename_other" PROVE v2'[v6'] # "none"
      <3>1. CASE OS!RenameOne
        <4>1. v2' = [v2 EXCEPT ![v6] = "good"] /\ v6' = v6 /\ v5 = "rename"
          BY <3>1 DEF OS!RenameOne, OS!RenameOrder, OS!Renames
        <4>2. v6 \in 1..v1 /\ 1..v1 \subseteq Generations
          BY <1>1, <4>1, FirmUpTo DEF OS!OffTypes
        <4>3. v2 = [g \in Generations |-> v2[g]]
          BY <1>1 DEF OS!OffTypes
        <4> QED BY <4>1, <4>2, <4>3
      <3>2. ASSUME NEW g \in Generations, OS!BundleRots(g) PROVE v2'[v6'] # "none"
        <4>1. v5 = "rename_other" /\ v6' = v6 /\ v2' = [v2 EXCEPT ![g] = "bad"]
          BY <2>1, <3>2 DEF OS!BundleRots
        <4>2. v2[v6] # "none" /\ v2 = [h \in Generations |-> v2[h]]
          BY <4>1 DEF OS!OffInv, OS!OffTypes
        <4> QED BY <4>1, <4>2
      <3>3. CASE UNCHANGED <<v2, v5, v6>>
        BY <2>1, <3>3 DEF OS!OffInv
      <3> QED BY <2>1, <3>1, <3>2, <3>3
              DEF OS!OffNext, OS!NewLocal, OS!PushRefused, OS!PushAgain, OS!PushWithoutKey,
              OS!PushBegins, OS!StageFile, OS!StageMeta, OS!RenameOther, OS!PushFails,
              OS!PushKilled, OS!PruneEntry, OS!PruneSkips, OS!Pushed, OS!Drill, OS!Fails,
              OS!offVars, OS!published
    <2> QED BY <2>1
  <1>4. v5' # "prune" => v7' = {}
    <2>1. v5 # "prune" => v7 = {}
      BY DEF OS!OffInv
    <2> QED BY <2>1
            DEF OS!OffNext, OS!NewLocal, OS!PushRefused, OS!PushAgain, OS!PushWithoutKey,
            OS!PushBegins, OS!StageFile, OS!StageMeta, OS!RenameOne, OS!RenameOther, OS!PushFails,
            OS!PushKilled, OS!PruneEntry, OS!PruneSkips, OS!Pushed, OS!Drill, OS!Fails,
            OS!BundleRots, OS!offVars, OS!published
  <1> QED BY <1>1, <1>2, <1>3, <1>4 DEF OS!OffInv

LEMMA OffsiteLatest == ASSUME OS!OffInv PROVE OS!LatestWhole
  <1> SUFFICES ASSUME OS!Listed # {}, ~OS!Latest.staged, v2[OS!Latest.gen] = "none"
               PROVE  FALSE
    BY DEF OS!LatestWhole
  <1> DEFINE e == OS!Latest
  <1>1. v1 \in Nat /\ v3 \in SUBSET (1..v1) /\ OS!Complete \subseteq v3
        /\ OS!Firm \subseteq OS!Complete
    BY FirmUpTo DEF OS!OffInv
  <1>2. OS!Listed \in SUBSET [gen : 1..v1, staged : BOOLEAN]
    <2>1. v4 \subseteq [gen : 1..v1, meta : BOOLEAN]
      BY DEF OS!OffInv, OS!OffTypes
    <2>2. \A g \in v3 : [gen |-> g, staged |-> FALSE] \in [gen : 1..v1, staged : BOOLEAN]
      BY <1>1
    <2>3. \A r \in v4 : [gen |-> r.gen, staged |-> TRUE] \in [gen : 1..v1, staged : BOOLEAN]
      BY <2>1
    <2> DEFINE E == [gen : 1..v1, staged : BOOLEAN]
    <2>4. /\ \A g \in v3 : [gen |-> g, staged |-> FALSE] \in E
          /\ \A r \in v4 : [gen |-> r.gen, staged |-> TRUE] \in E
      BY <2>2, <2>3
    <2> HIDE DEF E
    <2>5. OS!Listed \subseteq E
      BY <2>4 DEF OS!Listed
    <2> QED BY <2>5 DEF E
  <1>3. e \in OS!Listed /\ \A f \in OS!Listed \ {e} : OS!Before(e, f)
    BY <1>1, <1>2, OneIsFirst DEF OS!Latest
  <1> HIDE DEF e
  <1>4. e.staged = FALSE /\ v2[e.gen] = "none"
    BY <1>2, <1>3 DEF e
  <1>5. e.gen \in v3
    BY <1>3, <1>4 DEF OS!Listed
  <1>6. e.gen \notin OS!Firm
    BY <1>4 DEF OS!Firm, OS!Complete
  <1>7. Cardinality(OS!Newer(OS!Firm, e.gen)) >= OffRetention
    BY <1>5, <1>6, SameCount DEF OS!OffInv, OS!BehindFirm
  <1>8. OS!Newer(OS!Firm, e.gen) # {}
    <2>1. OffRetention \in Nat \ {0}
      BY PartsAssumption DEF OS!OffsiteAssumption
    <2> QED BY <1>7, <2>1, FS_EmptySet
  <1>9. PICK h \in OS!Firm : h > e.gen
    BY <1>8 DEF OS!Newer
  <1>12. h \in v3 /\ h \in Nat /\ e.gen \in Nat
    <2>1. \A x \in v3 : x \in Nat
      BY <1>1
    <2>2. h \in v3
      BY <1>1, <1>9
    <2> QED BY <1>5, <2>1, <2>2
  <1> DEFINE f == [gen |-> h, staged |-> FALSE]
  <1>10. f \in OS!Listed /\ f # e
    <2>1. f \in OS!Listed
      BY <1>12 DEF OS!Listed
    <2>2. f.gen # e.gen
      BY <1>9, <1>12
    <2> QED BY <2>1, <2>2
  <1>11. OS!Before(e, f) /\ e.gen > h
    <2>1. OS!Before(e, f)
      BY <1>3, <1>10
    <2> QED BY <1>4, <2>1 DEF OS!Before
  <1> QED BY <1>9, <1>11, <1>12

\* A step takes no complete bundle, or one that as many others are newer than.
LEMMA CompleteStays == ASSUME OS!OffInv, OS!OffNext PROVE OS!StaysComplete
  <1>1. OS!OffTypes /\ OS!OffTypes' /\ OS!BehindFirm
    BY OffsiteTypes DEF OS!OffInv
  <1>2. v1 \in Nat /\ v1' \in Nat /\ OffRetention \in Nat
    <2>1. Generations \subseteq Nat \ {0} /\ OffRetention \in Nat
      BY PartsAssumption DEF OS!OffsiteAssumption
    <2> QED BY <1>1, <2>1 DEF OS!OffTypes
  <1>3. OS!Complete' \in SUBSET (1..v1')
    BY <1>1 DEF OS!OffTypes, OS!Complete
  <1>4. ASSUME OS!Complete \subseteq OS!Complete' PROVE OS!StaysComplete
    <2>1. Cardinality(OS!Complete) >= OffRetention => Cardinality(OS!Complete') >= OffRetention
      BY <1>2, <1>3, <1>4, Fewer
    <2> QED BY <2>1, SameCount DEF OS!StaysComplete
  <1>5. CASE OS!RenameOther
    <2>1. v2' = v2 /\ v3 \subseteq v3'
      BY <1>5 DEF OS!RenameOther, OS!RenameOrder, OS!Renames
    <2>2. OS!Complete \subseteq OS!Complete'
      BY <2>1 DEF OS!Complete
    <2> QED BY <1>4, <2>2
  <1>6. CASE OS!PruneSkips \/ \E metaGoes \in BOOLEAN : OS!PruneEntry(metaGoes)
    <2>1. CASE OS!Complete \subseteq OS!Complete'
      BY <1>4, <2>1
    <2>2. ASSUME NEW g \in v3 \ OS!Firm, OS!Complete \ {g} \subseteq OS!Complete'
          PROVE  OS!StaysComplete
      <3>1. Cardinality(OS!Newer(OS!Firm, g)) >= OffRetention
        BY <1>1, SameCount DEF OS!BehindFirm
      <3>2. OS!Newer(OS!Firm, g) \subseteq OS!Complete'
        BY <2>2 DEF OS!Newer, OS!Firm
      <3>3. Cardinality(OS!Complete') >= OffRetention
        BY <1>2, <1>3, <3>1, <3>2, Fewer
      <3> QED BY <3>3, SameCount DEF OS!StaysComplete
    <2> QED BY <1>1, <1>6, <2>1, <2>2, OffsitePrunes
  <1>7. CASE /\ v3' = v3 /\ v7' \subseteq v7
             /\ \A g \in v3 : v2[g] # "none" => v2'[g] # "none"
    <2>1. OS!Complete \subseteq OS!Complete'
      BY <1>7 DEF OS!Complete
    <2> QED BY <1>4, <2>1
  <1> QED BY <1>5, <1>6, <1>7, OffsiteOthers

\* However pushes end, the complete bundles off site never become fewer than the
\* retention and the latest has its file: for every retention and number of
\* generations (push_offsite, _prune_offsite).
THEOREM OffsitePushesKeep == PartsSpec => OffsiteKept
  <1> DEFINE Inv == part = "offsite" => OS!OffInv
  <1>1. PartsInit => Inv
    BY OffsitePart, OffsiteInitially
  <1>2. Inv /\ [PartsNext]_slots => Inv'
    BY PartStays, OffsitePart, OffsiteStep
  <1>3. Inv => (part = "offsite" => OS!LatestWhole)
    BY OffsiteLatest
  <1>4. Inv /\ [PartsNext]_slots => [part = "offsite" => OS!StaysComplete]_slots
    BY CompleteStays DEF PartsNext
  <1> QED BY <1>1, <1>2, <1>3, <1>4, PTL DEF PartsSpec, OffsiteKept

-----------------------------------------------------------------------------
(* Logins: at the limit the lock outlasts the window, so that only the     *)
(* requests admitted before it still count, each once; a late deletion     *)
(* starts the count again, once for each request about to delete; and the  *)
(* failures of a running window are as many of the last ones, none older.  *)

LEMMA ThrottlePart ==
    ASSUME part = "throttle"
    PROVE  /\ PartsInit => TH!ThrInit
           /\ [PartsNext]_slots => [TH!ThrNext]_(TH!thrVars)
  <1>1. PartsInit => TH!ThrInit
    BY DEF PartsInit
  <1>2. PartsNext => TH!ThrNext
    BY DEF PartsNext
  <1>3. UNCHANGED slots => UNCHANGED TH!thrVars
    BY DEF slots, TH!thrVars
  <1> QED BY <1>1, <1>2, <1>3

LEMMA RequestsCount ==
    /\ IsFiniteSet(Clients) /\ Cardinality(Clients) \in Nat
    /\ TH!Cardinality(Clients) = Cardinality(Clients)
    /\ \A S \in SUBSET Clients :
         TH!Cardinality(S) \in Nat /\ TH!Cardinality(S) <= TH!Cardinality(Clients)
    /\ \A S \in SUBSET Clients : \A r \in S :
         TH!Cardinality(S \ {r}) = TH!Cardinality(S) - 1
  <1>1. IsFiniteSet(Clients)
    BY PartsAssumption DEF PartsAssumption, TH!ThrottleAssumption, TH!IsFiniteSet, IsFiniteSet
  <1>2. \A S : TH!Cardinality(S) = Cardinality(S)
    BY DEF TH!Cardinality, Cardinality
  <1>3. Cardinality(Clients) \in Nat
    BY <1>1, FS_CardinalityType
  <1>4. \A S \in SUBSET Clients : IsFiniteSet(S) /\ Cardinality(S) \in Nat /\ Cardinality(S) <= Cardinality(Clients)
    BY <1>1, FS_Subset, FS_CardinalityType
  <1>5. ASSUME NEW S \in SUBSET Clients, NEW r \in S
        PROVE  Cardinality(S \ {r}) = Cardinality(S) - 1
    <2>1. IsFiniteSet(S)
      BY <1>4
    <2> QED BY <2>1, FS_RemoveElement
  <1> QED BY <1>1, <1>2, <1>3, <1>4, <1>5

\* Multiples of what one row can count.
LEMMA Multiples ==
    ASSUME NEW n \in Nat, NEW d \in Nat, NEW k \in Nat, d <= n
    PROVE  /\ (n - d) * k \in Nat /\ (n - d) * k <= n * k /\ (n + 1) * k = n * k + k
           /\ d > 0 => (n - (d - 1)) * k = (n - d) * k + k
  <1>1. (n - d) * k + d * k = n * k /\ d * k \in Nat /\ n * k \in Nat /\ (n - d) * k \in Nat
    BY n - d \in Nat
  <1>2. (n + 1) * k = n * k + k
    OBVIOUS
  <1>3. d > 0 => (n - (d - 1)) * k = (n - d) * k + k
    OBVIOUS
  <1> QED BY <1>1, <1>2, <1>3

LEMMA ThrottleInitially == ASSUME TH!ThrInit PROVE TH!ThrInv
  <1> DEFINE n == TH!Cardinality(Clients)  d == TH!Cardinality(TH!Deleting)  K == TH!RowLimit
  <1>0. MaxFailures \in Nat \ {0} /\ LoginWindow \in Nat \ {0} /\ LoginLock \in Nat
    BY PartsAssumption DEF PartsAssumption, TH!ThrottleAssumption
  <1>1. TH!ThrTypes
    BY <1>0 DEF TH!ThrInit, TH!ThrTypes, TH!NoRow, TH!NoneWrong
  <1>2. v1.age = LoginWindow /\ v1.failures = 0 /\ v4 = 0
    BY DEF TH!ThrInit, TH!NoRow
  <1>3. n \in Nat /\ d \in Nat /\ d <= n
    BY RequestsCount DEF TH!Deleting
  <1>4. K \in Nat
    BY <1>0, <1>3 DEF TH!RowLimit
  <1> HIDE DEF n, d, K
  <1>5. (n - d) * K \in Nat /\ (n + 1) * K \in Nat
    BY <1>3, <1>4, Multiples
  <1>6. TH!OvershootBounded
    BY <1>2, <1>4, <1>5 DEF TH!OvershootBounded, n, K
  <1>7. v4 <= (n - d) * K + v1.failures
    <2> DEFINE x == (n - d) * K
    <2> HIDE DEF x
    <2>1. v4 <= x + v1.failures
      BY <1>2, <1>5 DEF x
    <2> QED BY <2>1 DEF x
  <1> QED BY <1>0, <1>1, <1>2, <1>6, <1>7 DEF TH!ThrInv, n, d, K

\* What the row allows: it stays within the limit, and while it lives so does
\* what was counted since a window ran out.
LEMMA CountAgain ==
    ASSUME NEW n \in Nat, NEW d \in Nat, NEW k \in Nat, d <= n, NEW e \in Nat, e <= d,
           NEW f \in Nat, f <= k, NEW t \in Nat, t <= (n - d) * k + f
    PROVE  /\ t <= (n + 1) * k
           /\ t <= (n - e) * k + f
           /\ e = d - 1 => t <= (n - e) * k
  <1>1. /\ (n - d) * k \in Nat /\ (n - d) * k <= n * k /\ (n + 1) * k = n * k + k
        /\ n * k \in Nat
    BY Multiples
  <1>2. (n - d) * k <= (n - e) * k /\ (n - e) * k \in Nat
    <2>1. (n - e) * k = (n - d) * k + (d - e) * k
      BY n - e \in Nat, n - d \in Nat, d - e \in Nat
    <2>2. (d - e) * k \in Nat
      BY d - e \in Nat
    <2> QED BY <1>1, <2>1, <2>2
  <1>3. e = d - 1 => (n - e) * k = (n - d) * k + k
    BY Multiples
  <1> QED BY <1>1, <1>2, <1>3

LEMMA ThrottleStep == ASSUME TH!ThrInv, [TH!ThrNext]_(TH!thrVars) PROVE TH!ThrInv'
  <1> DEFINE C == TH!Checking
             m == TH!Cardinality(C)
             m1 == TH!Cardinality(C')
             D == TH!Deleting
             d == TH!Cardinality(D)
             d1 == TH!Cardinality(D')
             n == TH!Cardinality(Clients)
             K == TH!RowLimit
  <1> USE DEF TH!ThrTypes, TH!Locked, TH!WindowOver, TH!NoRow, TH!NoneWrong
  <1>1. MaxFailures \in Nat \ {0} /\ LoginWindow \in Nat \ {0} /\ LoginLock \in Nat
        /\ LoginLock >= LoginWindow
    BY PartsAssumption DEF PartsAssumption, TH!ThrottleAssumption
  <1>2. TH!ThrTypes /\ v1.age \in 0..LoginWindow /\ v1.failures \in Nat /\ v1.left \in Nat
        /\ v4 \in Nat
    BY DEF TH!ThrInv
  <1>3. m \in Nat /\ m1 \in Nat /\ n \in Nat /\ m <= n /\ m1 <= n
        /\ d \in Nat /\ d1 \in Nat /\ d <= n /\ d1 <= n
    BY RequestsCount DEF TH!Checking, TH!Deleting
  <1>K. K = MaxFailures + n - 1 /\ K' = K /\ n' = n
    BY DEF TH!RowLimit
  <1>4. K \in Nat /\ (n >= 1 => MaxFailures <= K)
    BY <1>1, <1>3, <1>K
  <1>5. v1.failures <= K /\ v4 <= (n + 1) * K
    BY DEF TH!ThrInv, TH!OvershootBounded
  <1>6. ~TH!RanOut => v4 <= (n - d) * K + v1.failures
    BY DEF TH!ThrInv
  <1>7. v1.age < LoginWindow =>
         \A k \in 1..MaxFailures : k <= v1.failures => v3[k] <= v1.age
    BY DEF TH!ThrInv
  <1>8. v1.age < LoginWindow /\ v1.failures >= MaxFailures =>
          v1.left + v1.age >= LoginWindow /\ v1.failures + m <= K
    BY DEF TH!ThrInv
  \* The parts of the invariant, with the counts named.
  <1>9. SUFFICES
          /\ TH!ThrTypes'
          /\ v1'.failures <= K /\ v4' <= (n + 1) * K
          /\ v1'.age < LoginWindow =>
               \A k \in 1..MaxFailures : k <= v1'.failures => v3'[k] <= v1'.age
          /\ v1'.age < LoginWindow /\ v1'.failures >= MaxFailures =>
               v1'.left + v1'.age >= LoginWindow /\ v1'.failures + m1 <= K
          /\ ~TH!RanOut' => v4' <= (n - d1) * K + v1'.failures
    BY <1>K DEF TH!ThrInv, TH!OvershootBounded
  <1> DEFINE Goal ==
          /\ TH!ThrTypes'
          /\ v1'.failures <= K /\ v4' <= (n + 1) * K
          /\ v1'.age < LoginWindow =>
               \A k \in 1..MaxFailures : k <= v1'.failures => v3'[k] <= v1'.age
          /\ v1'.age < LoginWindow /\ v1'.failures >= MaxFailures =>
               v1'.left + v1'.age >= LoginWindow /\ v1'.failures + m1 <= K
          /\ ~TH!RanOut' => v4' <= (n - d1) * K + v1'.failures
  \* A row without failures allows everything.
  <1>10. ASSUME TH!ThrTypes', v1'.age = LoginWindow, v1'.failures = 0,
                v4' <= (n + 1) * K, v4' <= (n - d1) * K
         PROVE  Goal
    <2>1. v1'.failures <= K
      BY <1>4, <1>10
    <2>2. (n - d1) * K \in Nat
      BY <1>3, <1>4, Multiples
    <2>3. v4' <= (n - d1) * K + v1'.failures
      <3> DEFINE x == (n - d1) * K
      <3> HIDE DEF x
      <3>1. v4' <= x + v1'.failures
        BY <1>10, <2>2 DEF x
      <3> QED BY <3>1 DEF x
    <2> QED BY <1>1, <1>10, <2>1, <2>3
  \* What starts the count again.
  <1>11. ASSUME TH!ThrTypes', v1'.age = LoginWindow, v1'.failures = 0, v4' = 0
         PROVE  Goal
    <2>1. 0 <= (n + 1) * K /\ 0 <= (n - d1) * K
      BY <1>3, <1>4, Multiples
    <2> HIDE DEF Goal
    <2> QED BY <1>10, <1>11, <2>1
  <1>12. ASSUME NEW r \in Clients, TH!Admit(r) PROVE Goal
    <2> USE <1>12 DEF TH!Admit
    <2>1. TH!ThrTypes' /\ v1' = v1 /\ v3' = v3 /\ v4' = v4
      BY <1>2
    <2>2. ~(v1.age < LoginWindow /\ v1.failures >= MaxFailures)
      BY <1>1, <1>2, <1>8
    <2>3. ~TH!RanOut => D' = D
      BY <1>2 DEF TH!Deleting
    <2>4. TH!RanOut' = TH!RanOut
      BY <2>1 DEF TH!RanOut
    <2>5. ~TH!RanOut' => v4' <= (n - d1) * K + v1'.failures
      BY <1>6, <2>1, <2>3, <2>4
    <2> QED BY <1>5, <1>7, <2>1, <2>2, <2>5
  <1>13. ASSUME NEW r \in Clients, TH!Delete(r) PROVE Goal
    <2>1. v1' = TH!NoRow /\ v3' = v3 /\ v4' = (IF TH!RanOut THEN 0 ELSE v4)
          /\ v2' = [v2 EXCEPT ![r] = "check"] /\ v2[r] = "delete"
      BY <1>13 DEF TH!Delete
    <2>2. TH!ThrTypes' /\ v1'.age = LoginWindow /\ v1'.failures = 0
      BY <1>1, <1>2, <2>1
    <2>3. D' = D \ {r} /\ r \in D /\ D \in SUBSET Clients
      BY <1>2, <2>1 DEF TH!Deleting
    <2>4. d1 = d - 1
      BY <2>3, RequestsCount
    <2>5. CASE TH!RanOut
      <3>1. v4' = 0
        BY <2>1, <2>5
      <3> HIDE DEF Goal
      <3> QED BY <1>11, <2>2, <3>1
    <2>6. CASE ~TH!RanOut
      <3>1. v4' = v4 /\ v4 <= (n - d) * K + v1.failures
        BY <1>6, <2>1, <2>6
      <3>2. v4 <= (n - d1) * K /\ v4 <= (n + 1) * K
        <4> HIDE DEF d, d1, n, K
        <4> QED BY <1>2, <1>3, <1>4, <1>5, <2>4, <3>1, CountAgain
      <3> HIDE DEF Goal
      <3> QED BY <1>10, <2>2, <3>1, <3>2
    <2> QED BY <2>5, <2>6
  <1>14. ASSUME NEW r \in Clients, TH!Refuse(r) PROVE Goal
    BY <1>2, <1>5, <1>6, <1>7, <1>8, <1>14
    DEF TH!Refuse, TH!Refused, TH!Checking, TH!Deleting, TH!RanOut
  <1>15. ASSUME NEW r \in Clients, TH!WrongPassword(r) PROVE Goal
    <2> DEFINE over == v1.age >= LoginWindow
               failures == IF over THEN 1 ELSE v1.failures + 1
    <2>1. /\ v1'.age = IF over THEN 0 ELSE v1.age
          /\ v1'.failures = failures
          /\ v1'.left = IF failures >= MaxFailures THEN LoginLock
                        ELSE IF over THEN 0 ELSE v1.left
          /\ v4' = IF TH!RanOut THEN 1 ELSE v4 + 1
      BY <1>15 DEF TH!WrongPassword, TH!AtTheLimit
    <2>2. TH!ThrTypes'
      BY <1>1, <1>2, <1>15 DEF TH!WrongPassword, TH!AtTheLimit
    <2>3. C' = C \ {r} /\ r \in C /\ D' = D
      BY <1>2, <1>15 DEF TH!WrongPassword, TH!Checking, TH!Deleting
    <2>4. m1 = m - 1 /\ d1 = d
      BY <2>3, RequestsCount DEF TH!Checking
    <2>5. n >= 1
      BY <1>3, <2>4
    <2>6. v1'.failures <= K /\ (v1'.failures >= MaxFailures => v1'.failures + m1 <= K)
      <3>1. CASE over
        <4> HIDE DEF m, m1, n, C, K
        <4> QED BY <1>1, <1>3, <1>4, <1>K, <2>1, <2>4, <2>5, <3>1
      <3>2. CASE ~over
        <4>1. v1'.failures = v1.failures + 1
          BY <2>1, <3>2
        <4>2. v1.failures >= MaxFailures => v1.failures + m <= K
          <5>1. v1.age < LoginWindow
            BY <1>1, <1>2, <3>2
          <5> HIDE DEF m, K
          <5> QED BY <1>8, <5>1
        <4> HIDE DEF m, m1, n, C, K
        <4> QED BY <1>1, <1>2, <1>3, <1>4, <1>K, <2>4, <2>5, <4>1, <4>2
      <3> QED BY <3>1, <3>2
    <2>7. v1'.age < LoginWindow /\ v1'.failures >= MaxFailures =>
            v1'.left + v1'.age >= LoginWindow
      BY <1>1, <1>2, <2>1
    <2>8. ASSUME NEW k \in 1..MaxFailures, k <= v1'.failures
          PROVE  v3'[k] <= v1'.age
      <3>1. v3'[k] = IF k = 1 THEN 0 ELSE v3[k - 1]
        BY <1>15 DEF TH!WrongPassword
      <3>2. CASE k = 1
        BY <1>1, <1>2, <2>1, <3>1, <3>2
      <3>3. CASE k # 1
        <4>1. ~over /\ k - 1 \in 1..MaxFailures /\ k - 1 <= v1.failures
          BY <1>1, <1>2, <2>1, <2>8, <3>3
        <4>2. v3[k - 1] <= v1.age
          BY <1>1, <1>2, <1>7, <4>1
        <4> QED BY <2>1, <3>1, <3>3, <4>1, <4>2
      <3> QED BY <3>2, <3>3
    <2>9. v4' <= (n - d1) * K + v1'.failures
      <3> DEFINE x == (n - d) * K
      <3>1. x \in Nat
        BY <1>3, <1>4, Multiples
      <3>2. v4' <= x + v1'.failures
        <4>1. CASE TH!RanOut
          <5>1. v4' = 1 /\ v1'.failures = 1
            BY <2>1, <4>1 DEF TH!RanOut
          <5> HIDE DEF x
          <5> QED BY <3>1, <5>1
        <4>2. CASE ~TH!RanOut
          <5>1. v4' = v4 + 1 /\ v1'.failures = v1.failures + 1
            BY <1>2, <2>1, <4>2 DEF TH!RanOut
          <5>2. v4 <= x + v1.failures
            BY <1>6, <4>2
          <5> HIDE DEF x
          <5> QED BY <1>2, <3>1, <5>1, <5>2
        <4> QED BY <4>1, <4>2
      <3> QED BY <2>4, <3>2
    <2>10. v4' <= (n + 1) * K
      <3>1. v4' \in Nat /\ v1'.failures \in Nat
        BY <2>2
      <3> HIDE DEF d, d1, n, K
      <3> QED BY <1>3, <1>4, <2>6, <2>9, <3>1, CountAgain
    <2> QED BY <2>2, <2>6, <2>7, <2>8, <2>9, <2>10
  <1>16. ASSUME NEW r \in Clients, TH!RightPassword(r) PROVE Goal
    <2>1. v1' = TH!NoRow /\ v3' = TH!NoneWrong /\ v2' = [v2 EXCEPT ![r] = "idle"] /\ v4' = 0
      BY <1>16 DEF TH!RightPassword
    <2>2. TH!ThrTypes' /\ v1'.age = LoginWindow /\ v1'.failures = 0
      BY <1>1, <1>2, <2>1
    <2> HIDE DEF Goal
    <2> QED BY <1>11, <2>1, <2>2
  <1>17. ASSUME NEW r \in Clients, TH!RequestDies(r) PROVE Goal
    <2>1. v1' = v1 /\ v3' = v3 /\ v4' = v4 /\ TH!ThrTypes'
      BY <1>2, <1>17 DEF TH!RequestDies
    <2>2. C' = C \ {r} /\ D' = D \ {r} /\ C \in SUBSET Clients /\ D \in SUBSET Clients
      BY <1>2, <1>17 DEF TH!RequestDies, TH!Checking, TH!Deleting
    <2>3. m1 <= m /\ d1 <= d
      <3>1. \A S \in SUBSET Clients : r \notin S => S \ {r} = S
        OBVIOUS
      <3> HIDE DEF C, D
      <3>2. m1 = m \/ m1 = m - 1
        BY <2>2, <3>1, RequestsCount
      <3>3. d1 = d \/ d1 = d - 1
        BY <2>2, <3>1, RequestsCount
      <3> QED BY <1>3, <3>2, <3>3
    <2>4. v1.age < LoginWindow /\ v1.failures >= MaxFailures =>
            v1.left + v1.age >= LoginWindow /\ v1.failures + m1 <= K
      <3> HIDE DEF m, m1, n, K
      <3> QED BY <1>2, <1>3, <1>4, <1>8, <2>3
    <2>5. ~TH!RanOut' => v4' <= (n - d1) * K + v1'.failures
      <3>1. SUFFICES ASSUME ~TH!RanOut PROVE v4 <= (n - d1) * K + v1.failures
        BY <2>1 DEF TH!RanOut
      <3>2. v4 <= (n - d) * K + v1.failures
        BY <1>6, <3>1
      <3> HIDE DEF d, d1, n, K
      <3> QED BY <1>2, <1>3, <1>4, <1>5, <2>3, <3>2, CountAgain
    <2> QED BY <1>5, <1>7, <2>1, <2>4, <2>5
  <1>18. ASSUME TH!Tick PROVE Goal
    <2>1. /\ v1'.age = IF v1.age < LoginWindow THEN v1.age + 1 ELSE v1.age
          /\ v1'.failures = v1.failures
          /\ v1'.left = IF v1.left > 0 THEN v1.left - 1 ELSE 0
          /\ v2' = v2 /\ v4' = v4
      BY <1>2, <1>18 DEF TH!Tick, TH!Older
    <2>2. TH!ThrTypes'
      <3>1. v1' \in [age : 0..LoginWindow, failures : Nat, left : Nat]
        <4>1. /\ TH!Older(v1.age) \in 0..LoginWindow
              /\ (IF v1.left > 0 THEN v1.left - 1 ELSE 0) \in Nat
          BY <1>1, <1>2 DEF TH!Older
        <4> QED BY <1>2, <1>18, <4>1 DEF TH!Tick
      <3>2. v3' \in [1..MaxFailures -> 0..LoginWindow]
        <4>1. \A k \in 1..MaxFailures : TH!Older(v3[k]) \in 0..LoginWindow
          BY <1>1, <1>2 DEF TH!Older
        <4> QED BY <1>18, <4>1 DEF TH!Tick
      <3> QED BY <1>2, <2>1, <3>1, <3>2
    <2>3. C' = C /\ D' = D
      BY <2>1 DEF TH!Checking, TH!Deleting
    <2>4. v1'.age < LoginWindow => v1.age < LoginWindow /\ v1'.age = v1.age + 1
      BY <1>1, <1>2, <2>1
    <2>5. ASSUME NEW k \in 1..MaxFailures, v1'.age < LoginWindow, k <= v1'.failures
          PROVE  v3'[k] <= v1'.age
      <3>1. v3[k] <= v1.age /\ v3[k] \in 0..LoginWindow
        BY <1>2, <1>7, <2>1, <2>4, <2>5
      <3>2. v3'[k] = IF v3[k] < LoginWindow THEN v3[k] + 1 ELSE v3[k]
        BY <1>18 DEF TH!Tick, TH!Older
      <3> QED BY <1>1, <1>2, <2>4, <2>5, <3>1, <3>2
    <2>6. v1'.age < LoginWindow /\ v1'.failures >= MaxFailures =>
            v1'.left + v1'.age >= LoginWindow /\ v1'.failures + m1 <= K
      <3>1. m1 = m
        BY <2>3
      <3> HIDE DEF m, m1, n, K, C, D
      <3> QED BY <1>1, <1>2, <1>3, <1>8, <2>1, <2>4, <3>1
    <2>7. ~TH!RanOut' => v4' <= (n - d1) * K + v1'.failures
      <3>1. ~TH!RanOut' => ~TH!RanOut
        BY <1>1, <1>2, <2>1 DEF TH!RanOut
      <3> QED BY <1>6, <2>1, <2>3, <3>1
    <2> QED BY <1>5, <2>1, <2>2, <2>5, <2>6, <2>7
  <1>19. ASSUME UNCHANGED TH!thrVars PROVE Goal
    BY <1>2, <1>5, <1>6, <1>7, <1>8, <1>19
    DEF TH!thrVars, TH!Checking, TH!Deleting, TH!RanOut
  <1>20. Goal
    <2>1. CASE TH!ThrNext
      <3> HIDE DEF Goal
      <3>1. ASSUME NEW r \in Clients,
                   \/ TH!Admit(r) \/ TH!Delete(r) \/ TH!Refuse(r)
                   \/ TH!WrongPassword(r) \/ TH!RightPassword(r) \/ TH!RequestDies(r)
            PROVE  Goal
        BY <1>12, <1>13, <1>14, <1>15, <1>16, <1>17, <3>1
      <3> QED BY <1>18, <2>1, <3>1 DEF TH!ThrNext
    <2>2. CASE UNCHANGED TH!thrVars
      <3> HIDE DEF Goal
      <3> QED BY <1>19, <2>2
    <2> QED BY <2>1, <2>2
  <1> QED BY <1>20

\* Only a recorded failure prolongs the lock, and then the limit is reached.
LEMMA LockIsEarned == ASSUME TH!ThrInv, TH!ThrNext PROVE TH!EarnsLock
  <1>1. MaxFailures \in Nat \ {0} /\ LoginWindow \in Nat \ {0} /\ TH!ThrTypes
    BY PartsAssumption DEF PartsAssumption, TH!ThrottleAssumption, TH!ThrInv
  <1>2. TH!ThrInv'
    BY ThrottleStep
  <1>3. ASSUME NEW r \in Clients, TH!WrongPassword(r) PROVE TH!EarnsLock
    <2>1. v1'.left > v1.left => v1'.failures >= MaxFailures
      BY <1>1, <1>3 DEF TH!WrongPassword, TH!AtTheLimit, TH!WindowOver, TH!ThrTypes
    <2>2. v1'.age < LoginWindow
      BY <1>1, <1>3 DEF TH!WrongPassword, TH!WindowOver, TH!ThrTypes
    <2>3. v1'.failures >= MaxFailures => v3'[MaxFailures] <= v1'.age
      BY <1>1, <1>2, <2>2 DEF TH!ThrInv, TH!ThrTypes
    <2>4. v3'[MaxFailures] \in Nat /\ v1'.age \in Nat
      BY <1>1, <1>2 DEF TH!ThrInv, TH!ThrTypes
    <2> QED BY <1>1, <2>1, <2>2, <2>3, <2>4 DEF TH!EarnsLock
  <1>4. ~(\E r \in Clients : TH!WrongPassword(r)) => ~(v1'.left > v1.left)
    <2>1. ASSUME NEW r \in Clients,
                 TH!Admit(r) \/ TH!Delete(r) \/ TH!Refuse(r) \/ TH!RightPassword(r)
                   \/ TH!RequestDies(r)
          PROVE  ~(v1'.left > v1.left)
      <3>1. v1' = v1 \/ v1' = TH!NoRow
        BY <2>1 DEF TH!Admit, TH!Delete, TH!Refuse, TH!Refused, TH!RightPassword, TH!RequestDies
      <3> QED BY <1>1, <3>1 DEF TH!NoRow, TH!ThrTypes
    <2>2. TH!Tick => ~(v1'.left > v1.left)
      BY <1>1 DEF TH!Tick, TH!ThrTypes
    <2> QED BY <2>1, <2>2 DEF TH!ThrNext
  <1> QED BY <1>3, <1>4 DEF TH!EarnsLock

\* However many requests are checked side by side and however late a deletion
\* is, the wrong passwords of a window are limited, and every lock is earned by
\* failures of one window, for all clients, limits, windows and locks
\* (login_throttle).
THEOREM LoginsAreLimited == PartsSpec => LockLimits
  <1> DEFINE Inv == part = "throttle" => TH!ThrInv
  <1>1. PartsInit => Inv
    BY ThrottlePart, ThrottleInitially
  <1>2. Inv /\ [PartsNext]_slots => Inv'
    BY PartStays, ThrottlePart, ThrottleStep
  <1>3. Inv => (part = "throttle" => TH!OvershootBounded)
    BY DEF TH!ThrInv
  <1>4. Inv /\ [PartsNext]_slots => [part = "throttle" => TH!EarnsLock]_slots
    <2>1. ASSUME Inv, PartsNext, part = "throttle" PROVE TH!EarnsLock
      <3>1. TH!ThrNext
        BY <2>1 DEF PartsNext
      <3> QED BY <2>1, <3>1, LockIsEarned
    <2> QED BY <2>1
  <1> QED BY <1>1, <1>2, <1>3, <1>4, PTL DEF PartsSpec, LockLimits
=============================================================================
