--------------------------- MODULE RuntimeInstall ---------------------------
(***************************************************************************)
(* runtime_install.py: install, rollback, restart and uninstall of the     *)
(* local runtime.  A generation of code is in code/, code.prev/ or         *)
(* code.rollback/ (parked).  launchd runs what is in code/ when the job is *)
(* bootstrapped; a sound generation then publishes a status of its own.    *)
(***************************************************************************)
EXTENDS Naturals, FiniteSets

CONSTANTS Gens, None, MaxPid, MaxSlips

InstallAssumption ==
    None \notin Gens /\ MaxPid \in Nat /\ MaxSlips \in Nat

VARIABLES
    code, prev, hold,  \* the generation in each directory
    sound,    \* generations whose supervisor comes up
    fit,      \* generations whose own preflight passes
    plist,    \* the job's plist is installed
    job,      \* the generation the loaded job runs, or None
    pid,      \* of the newest supervisor
    status,   \* supervisor.status.json: [pid, ok]
    legacy,   \* com.aistat.sync: none, installed, loaded
    cmd,      \* step of the running command, idle when none
    saved,    \* what the command captured: [had, legacy, pid]
    was,      \* history: the sound generation that ran when it began
    swap,     \* history: rollback: [from, to], the generations it swaps
    result,   \* of the last command
    slips,    \* failures and kills injected so far
    late      \* history: the supervisor to be replaced has reported after its
              \* pid was read from the status, and before it was stopped

rtVars == <<code, prev, hold, sound, fit, plist, job, pid, status, legacy,
            cmd, saved, was, swap, result, slips, late>>
dirs == <<code, prev, hold>>
launchd == <<plist, job, pid, status, legacy>>
nature == <<sound, fit>>
history == <<was, swap, late>>

NoSave == [had |-> FALSE, legacy |-> "none", pid |-> 0]
NoSwap == [from |-> None, to |-> None]

RtInit ==
    /\ sound \in SUBSET Gens /\ fit \in {S \in SUBSET Gens : sound \subseteq S}
    /\ legacy \in {"none", "loaded"}
    /\ code = None /\ prev = None /\ hold = None
    /\ plist = FALSE /\ job = None /\ pid = 0 /\ status = [pid |-> 0, ok |-> FALSE]
    /\ cmd = "idle" /\ saved = NoSave /\ was = None /\ swap = NoSwap
    /\ result = "none" /\ slips = 0 /\ late = FALSE

Slip == slips < MaxSlips /\ slips' = slips + 1

\* The steps between reading the pid of the supervisor that is to be replaced
\* and stopping it.
Replacing == {"park", "activate", "r_boot", "reload"}

\* The supervisor of a sound generation reports, at its own pace.
Reports ==
    /\ job \in sound /\ status # [pid |-> pid, ok |-> TRUE]
    /\ status' = [pid |-> pid, ok |-> TRUE]
    /\ late' = (late \/ cmd \in Replacing)
    /\ UNCHANGED <<dirs, nature, plist, job, pid, legacy, cmd, saved, was, swap,
                   result, slips>>

\* The old generation's installer is run again beside this one.
LegacyReturns ==
    /\ cmd = "idle" /\ legacy = "none" /\ Slip /\ legacy' = "loaded"
    /\ UNCHANGED <<dirs, nature, plist, job, pid, status, cmd, saved, history, result>>

Starts(step) ==
    /\ cmd = "idle" /\ cmd' = step /\ result' = "none"
    /\ was' = IF job \in sound /\ job = code THEN job ELSE None
    /\ saved' = [had |-> code # None, legacy |-> legacy, pid |-> 0]

Ends(outcome) == cmd' = "idle" /\ result' = outcome /\ saved' = NoSave

\* bootout and bootstrap; the last status of the stopped supervisor stays.
Boots(gen) ==
    /\ plist' = TRUE /\ job' = gen /\ pid < MaxPid /\ pid' = pid + 1
    /\ UNCHANGED status

-----------------------------------------------------------------------------
(* install                                                                 *)

Install ==
    /\ Starts("drop") /\ swap' = NoSwap
    /\ UNCHANGED <<dirs, nature, launchd, slips, late>>

\* _swap_code: code.prev is deleted, code becomes code.prev ...
Drop ==
    /\ cmd = "drop" /\ cmd' = "keep" /\ prev' = None
    /\ UNCHANGED <<code, hold, nature, launchd, saved, history, result, slips>>

Keep ==
    /\ cmd = "keep" /\ cmd' = "move"
    /\ prev' = (IF code = None THEN prev ELSE code) /\ code' = None
    /\ UNCHANGED <<hold, nature, launchd, saved, history, result, slips>>

\* ... and the staged copy becomes code.
Move(gen) ==
    /\ cmd = "move" /\ cmd' = "retire" /\ code' = gen
    /\ gen \notin {code, prev, hold}
    /\ UNCHANGED <<prev, hold, nature, launchd, saved, history, result, slips>>

KeepsLegacy == legacy

\* _retire_legacy, which verifies that the job is gone.
Retired == "none"

Retire(next) ==
    /\ cmd' = next /\ legacy' = Retired
    /\ UNCHANGED <<dirs, nature, job, pid, status, was, swap, result, slips>>

InstallRetires ==
    /\ cmd = "retire" /\ plist' = TRUE /\ Retire("boot")
    /\ UNCHANGED <<saved, late>>

\* The postflight asks launchd only whether the job is loaded.
InstallBoots ==
    /\ cmd = "boot" /\ Boots(code) /\ Ends("installed")
    /\ UNCHANGED <<dirs, nature, legacy, history, slips>>

\* The plist, the retirement, the bootstrap or the postflight raises, before or
\* after its effect.
InstallFails ==
    /\ cmd \in {"retire", "boot"} /\ Slip /\ cmd' = "remove"
    /\ \/ cmd = "retire" /\ plist' \in {plist, TRUE} /\ UNCHANGED job
          /\ legacy' \in IF legacy = "loaded" THEN {"loaded", "installed"} ELSE {legacy}
       \/ cmd = "boot" /\ job' \in {job, None} /\ UNCHANGED <<plist, legacy>>
    /\ UNCHANGED <<dirs, nature, pid, status, saved, history, result>>

\* _swap_code itself raises: it runs before the handler is in place.
SwapRaises ==
    /\ cmd \in {"drop", "keep", "move"} /\ Slip /\ Ends("failed")
    /\ UNCHANGED <<dirs, nature, launchd, history>>

Remove ==
    /\ cmd = "remove" /\ cmd' = "restore" /\ code' = None
    /\ UNCHANGED <<prev, hold, nature, launchd, saved, history, result, slips>>

\* _restore_previous: the old copy returns, and is started if it is fit.
RestorePrevious ==
    /\ cmd = "restore" /\ saved.had /\ prev # None
    /\ code' = prev /\ prev' = None
    /\ IF prev \in fit THEN Boots(prev) ELSE UNCHANGED <<plist, job, pid, status>>
    /\ Ends("failed")
    /\ UNCHANGED <<hold, nature, legacy, history, slips>>

\* A first install: the job is deregistered and the legacy one comes back.
RestoreLegacy ==
    /\ cmd = "restore" /\ ~(saved.had /\ prev # None)
    /\ IF saved.had THEN UNCHANGED <<job, plist, legacy>>
       ELSE job' = None /\ plist' = FALSE /\ legacy' = saved.legacy
    /\ Ends("failed")
    /\ UNCHANGED <<dirs, nature, pid, status, history, slips>>

-----------------------------------------------------------------------------
(* rollback                                                                *)

\* The copy to restore must pass its own preflight, and nothing may be parked.
Rollback ==
    /\ hold = None /\ prev \in fit /\ Starts("r_retire")
    /\ swap' = [from |-> code, to |-> prev]
    /\ UNCHANGED <<dirs, nature, launchd, slips, late>>

\* _read_supervisor_status: whose status is not to pass for the new one's.
ReadsPid == saved' = [saved EXCEPT !.pid = status.pid] /\ late' = FALSE

RollbackRetires ==
    /\ cmd = "r_retire" /\ Retire("park") /\ ReadsPid
    /\ UNCHANGED plist

DropsRunning == hold

\* _activate_previous: the running copy is parked, never deleted.
Parked == IF code = None THEN hold ELSE code

Park ==
    /\ cmd = "park" /\ cmd' = "activate"
    /\ hold' = Parked /\ code' = None
    /\ UNCHANGED <<prev, nature, launchd, saved, history, result, slips>>

Activate ==
    /\ cmd = "activate" /\ cmd' = "r_boot" /\ code' = prev /\ prev' = None
    /\ UNCHANGED <<hold, nature, launchd, saved, history, result, slips>>

RollbackBoots ==
    /\ cmd = "r_boot" /\ cmd' = "health" /\ Boots(code)
    /\ UNCHANGED <<dirs, nature, legacy, saved, history, result, slips>>

AnyHealthy == status.ok

\* _status_is_healthy: a status published by a supervisor other than the one
\* that was replaced.
Healthy == status.ok /\ status.pid # saved.pid

RolledBack ==
    /\ cmd = "health" /\ Healthy
    /\ hold' = None /\ Ends("rolled_back")
    /\ UNCHANGED <<code, prev, nature, launchd, history, slips>>

\* Renames, bootstrap or postflight raise, or no healthy status comes in time:
\* _restore_parked_generation sets the target aside ...
Reject ==
    /\ \/ cmd = "r_boot" /\ Slip /\ job' \in {job, None}
       \/ cmd = "health" /\ Slip /\ UNCHANGED job
       \/ cmd = "health" /\ ~Healthy /\ UNCHANGED <<job, slips>>
    /\ cmd' = "unpark" /\ prev' = code /\ code' = None
    /\ UNCHANGED <<hold, nature, plist, pid, status, legacy, saved, history, result>>

\* ... moves the parked copy back, if there is one ...
Unpark ==
    /\ cmd = "unpark"
    /\ IF hold = None THEN Ends("terminal") /\ UNCHANGED <<code, hold>>
       ELSE /\ code' = hold /\ hold' = None /\ cmd' = "reread"
            /\ UNCHANGED <<saved, result>>
    /\ UNCHANGED <<prev, nature, launchd, history, slips>>

\* ... reads the pid of the rejected supervisor, which still runs ...
Reread ==
    /\ cmd = "reread" /\ cmd' = "reload" /\ ReadsPid
    /\ UNCHANGED <<dirs, nature, launchd, was, swap, result, slips>>

\* ... and only then stops it and starts the copy it restored.
Reload ==
    /\ cmd = "reload" /\ cmd' = "undo" /\ Boots(code)
    /\ UNCHANGED <<dirs, nature, legacy, saved, history, result, slips>>

Undone ==
    /\ cmd = "undo" /\ Healthy /\ Ends("undone")
    /\ UNCHANGED <<dirs, nature, launchd, history, slips>>

\* The recovery fails: no status in time, or one of its steps raises.
Terminal ==
    /\ \/ cmd = "undo" /\ ~Healthy /\ UNCHANGED <<job, slips>>
       \/ cmd \in {"unpark", "reread", "undo"} /\ Slip /\ UNCHANGED job
       \/ cmd = "reload" /\ Slip /\ job' \in {job, None}
    /\ Ends("terminal")
    /\ UNCHANGED <<dirs, nature, plist, pid, status, legacy, history>>

\* A rename or the retirement raises before the handler, or a kill anywhere.
Stopped ==
    /\ cmd # "idle" /\ Slip /\ Ends("stopped")
    /\ UNCHANGED <<dirs, nature, launchd, history>>

-----------------------------------------------------------------------------
(* restart and uninstall                                                   *)

Restart ==
    /\ cmd = "idle" /\ legacy # "loaded" /\ plist /\ code # None
    /\ Boots(code) /\ result' = "none" /\ swap' = NoSwap /\ was' = None
    /\ UNCHANGED <<dirs, nature, legacy, cmd, saved, slips, late>>

Uninstall ==
    /\ cmd = "idle"
    /\ job' = None /\ plist' = FALSE /\ legacy' = "none"
    /\ code' = None /\ prev' = None /\ hold' = None
    /\ result' = "none" /\ swap' = NoSwap /\ was' = None
    /\ UNCHANGED <<nature, pid, status, cmd, saved, slips, late>>

RtNext ==
    \/ Reports \/ LegacyReturns
    \/ Install \/ Drop \/ Keep \/ (\E g \in Gens : Move(g)) \/ InstallRetires
    \/ InstallBoots \/ InstallFails \/ SwapRaises \/ Remove \/ RestorePrevious
    \/ RestoreLegacy
    \/ Rollback \/ RollbackRetires \/ Park \/ Activate \/ RollbackBoots
    \/ RolledBack \/ Reject \/ Unpark \/ Reread \/ Reload \/ Undone \/ Terminal
    \/ Stopped
    \/ Restart \/ Uninstall

RtSpec == RtInit /\ [][RtNext]_rtVars

-----------------------------------------------------------------------------
\* However a rollback ends short of its commit, failed, undone or killed, the
\* two generations it was swapping are both on disk ("only a recovery that
\* fails too is terminal - with both generations still on disk").
BothOnDisk ==
    result # "rolled_back" =>
      ({swap.from, swap.to} \ {None}) \subseteq {code, prev, hold}

\* A rollback that succeeds, and one that says it undid itself, has a sound
\* supervisor running the code in place: a status that was there when the pid
\* was read never passes for it (_await_supervisor_health).  The one exception
\* is the supervisor to be replaced, when its first status falls between that
\* reading and the bootout.
ProvenHealthy ==
    /\ result \in {"rolled_back", "undone"} => code \in sound \/ late
    /\ result = "undone" => code = swap.from /\ prev = swap.to

\* VIOLATED.  "Undo a rejected rollback and prove the parked generation healthy"
\* (_restore_parked_generation): the pid is read before the rejected supervisor
\* is stopped, so that its own late status may pass for the proof.
UndoneIsHealthy == result = "undone" => code \in sound

\* A cutover that is reported done, an install or a rollback, also one begun
\* after the legacy installer was run again, has left no legacy job loaded
\* (_retire_legacy).
EndsRetired ==
    cmd # "idle" /\ result' \in {"installed", "rolled_back"} => legacy' # "loaded"
CutoverRetiresLegacy == [][EndsRetired]_rtVars

\* VIOLATED.  "A job that survives bootout must abort the cutover instead of
\* silently running next to the new supervisor" (_retire_legacy): no command
\* starts the supervisor's job while the legacy one is loaded.
NoDuplicateContours ==
    [][cmd # "idle" /\ pid' # pid => legacy' # "loaded"]_rtVars

\* VIOLATED.  "A broken update can never leave the machine without a working
\* runtime" (runtime_install.py): an install that fails leaves the generation
\* that was working in place.
FailedInstallRestores == result = "failed" /\ was # None => code = was

-----------------------------------------------------------------------------
(* The inductive invariant behind the safety properties.                   *)

Installing == {"drop", "keep", "move", "retire", "boot", "remove", "restore"}

\* A status is published by a supervisor that runs a sound generation.
StatusInv ==
    /\ pid \in Nat /\ status.pid \in 0..pid /\ None \notin sound
    /\ status.pid > 0 => status.ok

\* Where a rollback has the two generations at each of its steps.
SwapInv ==
    /\ cmd \in {"r_retire", "park"} =>
         code = swap.from /\ prev = swap.to /\ hold = None
    /\ cmd = "activate" => code = None /\ hold = swap.from /\ prev = swap.to
    /\ cmd \in {"r_boot", "health"} => code = swap.to /\ hold = swap.from
    /\ cmd = "unpark" => code = None /\ prev = swap.to /\ hold = swap.from
    /\ cmd \in {"reread", "reload", "undo"} => code = swap.from /\ prev = swap.to
    /\ cmd \in Installing => swap = NoSwap
    /\ cmd # "idle" => result = "none"

\* From the reading to the boot the status stays the one that was read, or it
\* was a late one; after that any other is that of the supervisor it booted.
ProofInv ==
    /\ cmd \in Replacing => late \/ status.pid = saved.pid
    /\ cmd \in {"health", "undo"} =>
         job = code /\ (late \/ status.pid = saved.pid \/ code \in sound)

\* Past the retirement nothing brings the legacy job back.
RetiredInv ==
    cmd \in {"boot", "park", "activate", "r_boot", "health"} => legacy # "loaded"

RtInv ==
    /\ cmd \in {"idle", "r_retire", "health", "unpark", "reread", "undo"}
               \cup Replacing \cup Installing
    /\ DOMAIN saved = DOMAIN NoSave
    /\ StatusInv /\ SwapInv /\ ProofInv /\ RetiredInv /\ BothOnDisk /\ ProvenHealthy
=============================================================================
