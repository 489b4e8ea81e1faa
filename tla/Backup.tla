------------------------------- MODULE Backup -------------------------------
(***************************************************************************)
(* backup.py: generations of the durable databases, and their restore.     *)
(*                                                                         *)
(* A database is its content, a version number; Garbage is content that    *)
(* fails the checks.  Beside its file a database has a sidecar (-wal and   *)
(* -shm) and a .pre-restore copy.  The services are stopped for a restore, *)
(* as the runbook asks; they write between the commands and during create. *)
(***************************************************************************)
EXTENDS Naturals, Sequences, FiniteSets

CONSTANTS Members,     \* labels of the durable databases
          Order,       \* the order of a manifest
          Retention,   \* AISTAT_BACKUP_RETENTION
          Absent, Garbage,
          MaxVersion, MaxGens, MaxFaults  \* bounds of the model

BackupAssumption ==
    /\ Retention \in Nat \ {0} /\ MaxVersion \in Nat /\ MaxGens \in Nat
    /\ Absent \notin Nat /\ Garbage \notin Nat /\ Absent # Garbage
    /\ Order \in Seq(Members)
    /\ \A m \in Members : \E i \in DOMAIN Order : Order[i] = m
    /\ \A i, j \in DOMAIN Order : Order[i] = Order[j] => i = j

VARIABLES
    live, pre, side,  \* member -> its file, .pre-restore copy and sidecar
    gens,      \* published generations, oldest first: member -> content
    made,      \* generations published so far
    task,      \* idle, create, prune, install, rollback
    todo,      \* members the task has still to handle
    staged,    \* create: the copies in the .incoming directory;
               \* restore: the verified scratch files
    step,      \* of _atomic_install: aside, clear, replace, sync
    saved,     \* _snapshot_restore_state
    failed,    \* rollback: some path could not be put back
    faults     \* faults injected so far

bakVars == <<live, pre, side, gens, made, task, todo, staged, step, saved,
             failed, faults>>
files == <<live, pre, side>>
bookkeeping == <<step, saved, failed>>

Nothing == [m \in Members |-> Absent]

BakInit ==
    /\ live \in {[m \in Members |-> 0],
                 [m \in Members |-> IF m = Order[1] THEN 0 ELSE Absent]}
    /\ pre = Nothing /\ side = Nothing
    /\ gens = <<>> /\ made = 0
    /\ task = "idle" /\ todo = {} /\ staged = Nothing
    /\ step = "aside" /\ saved = <<Nothing, Nothing, Nothing>>
    /\ failed = FALSE
    /\ faults = 0

Fault == faults < MaxFaults /\ faults' = faults + 1

\* A service commits to a database: its newest pages are in the sidecar.
Write(m) ==
    /\ task \in {"idle", "create"}
    /\ live[m] \in {Absent} \cup 0..(MaxVersion - 1)
    /\ live' = [live EXCEPT ![m] = IF live[m] = Absent THEN 1 ELSE @ + 1]
    /\ side' = [side EXCEPT ![m] = live'[m]]
    /\ UNCHANGED <<pre, gens, made, task, todo, staged, bookkeeping, faults>>

\* A generation rots on its medium.
Rot(g, m) ==
    /\ Fault /\ g \in DOMAIN gens /\ gens[g][m] \notin {Absent, Garbage}
    /\ gens' = [gens EXCEPT ![g] = [@ EXCEPT ![m] = Garbage]]
    /\ UNCHANGED <<files, made, task, todo, staged, bookkeeping>>

-----------------------------------------------------------------------------
(* create                                                                  *)

\* _durable_databases: what exists when the command starts.
Durable == {m \in Members : live[m] # Absent}

\* The members of a task are handled in the order of the manifest, in a
\* rollback in the reverse.
Place(m) == CHOOSE i \in DOMAIN Order : Order[i] = m
First == CHOOSE m \in todo : \A n \in todo : Place(m) <= Place(n)
Last == CHOOSE m \in todo : \A n \in todo : Place(n) <= Place(m)

BeginCreate ==
    /\ task = "idle" /\ made < MaxGens /\ Durable # {}
    /\ task' = "create" /\ todo' = Durable /\ staged' = Nothing
    /\ UNCHANGED <<files, gens, made, bookkeeping, faults>>

\* The command ends; its scratch directory and its memory go with it.
Ended ==
    /\ task' = "idle" /\ todo' = {} /\ staged' = Nothing /\ step' = "aside"
    /\ saved' = <<Nothing, Nothing, Nothing>> /\ failed' = FALSE

\* One member is copied by the online backup, compressed, and proved to
\* decompress and to pass its checks.
CopyMember ==
    /\ task = "create" /\ todo # {}
    /\ staged' = [staged EXCEPT ![First] = live[First]]
    /\ todo' = todo \ {First}
    /\ UNCHANGED <<files, gens, made, task, bookkeeping, faults>>

\* The directory is renamed into place: the generation is visible whole.
Publish ==
    /\ task = "create" /\ todo = {}
    /\ gens' = Append(gens, staged) /\ made' = made + 1
    /\ task' = "prune" /\ staged' = Nothing
    /\ UNCHANGED <<files, todo, bookkeeping, faults>>

PruneEarly == Len(gens) >= Retention

\* _prune: generations beyond the retention, oldest last in its listing.
Excess == Len(gens) > Retention

PruneOne ==
    /\ task = "prune" /\ Excess
    /\ gens' = Tail(gens)
    /\ UNCHANGED <<files, made, task, todo, staged, bookkeeping, faults>>

PruneDone ==
    /\ task = "prune" /\ ~Excess
    /\ task' = "idle"
    /\ UNCHANGED <<files, gens, made, todo, staged, bookkeeping, faults>>

\* Any failure of create removes the staging directory; a kill leaves it, but
\* it is no generation.
CreateFails ==
    /\ task \in {"create", "prune"} /\ Fault
    /\ Ended
    /\ UNCHANGED <<files, gens, made>>

-----------------------------------------------------------------------------
(* restore                                                                 *)

\* The members of a manifest, each once and each of a known database.
Listed(g) == {m \in Members : gens[g][m] # Absent}

SoundEnough(g, sel) == \E m \in sel : gens[g][m] # Garbage

\* Checksum and integrity of every selected member, before anything live is
\* touched.
Verified(g, sel) == \A m \in sel : gens[g][m] # Garbage

\* restore_backup up to the snapshot of every path it may change; only names
\* one member, or none.
BeginRestore(g, only) ==
    LET sel == IF only = {} THEN Listed(g) ELSE only IN
    /\ task = "idle" /\ g \in DOMAIN gens
    /\ only \subseteq Listed(g) /\ Verified(g, sel)
    /\ task' = "install" /\ step' = "aside"
    /\ todo' = sel
    /\ staged' = [m \in Members |-> IF m \in sel THEN gens[g][m] ELSE Absent]
    /\ saved' = <<live, pre, side>> /\ failed' = FALSE
    /\ UNCHANGED <<files, gens, made, faults>>

\* _atomic_install of the next member: the old file is copied aside ...
CopyAside ==
    /\ task = "install" /\ todo # {} /\ step = "aside"
    /\ pre' = IF live[First] = Absent THEN pre ELSE [pre EXCEPT ![First] = live[First]]
    /\ step' = "clear"
    /\ UNCHANGED <<live, side, gens, made, task, todo, staged, saved, failed,
                   faults>>

\* ... stale sidecars are removed, so that they cannot shadow the new file ...
ClearSidecars ==
    /\ task = "install" /\ todo # {} /\ step = "clear"
    /\ side' = [side EXCEPT ![First] = Absent]
    /\ step' = "replace"
    /\ UNCHANGED <<live, pre, gens, made, task, todo, staged, saved, failed,
                   faults>>

\* ... and the scratch file takes its name.
Replace ==
    /\ task = "install" /\ todo # {} /\ step = "replace"
    /\ live' = [live EXCEPT ![First] = staged[First]]
    /\ step' = "sync"
    /\ UNCHANGED <<pre, side, gens, made, task, todo, staged, saved, failed,
                   faults>>

Synced ==
    /\ task = "install" /\ todo # {} /\ step = "sync"
    /\ todo' = todo \ {First} /\ step' = "aside"
    /\ UNCHANGED <<files, gens, made, task, staged, saved, failed,
                   faults>>

Restored ==
    /\ task = "install" /\ todo = {}
    /\ Ended
    /\ UNCHANGED <<files, gens, made, faults>>

\* The paths _rollback_restore visits: those of every planned member.
Planned == {m \in Members : staged[m] # Absent}

\* Any step raises, before or after its effect: the whole plan is rolled back.
InstallFails ==
    /\ task = "install" /\ todo # {} /\ Fault
    /\ task' = "rollback" /\ todo' = Planned
    /\ UNCHANGED <<files, gens, made, staged, step, saved, failed>>

SideLeft(m) == side

\* The sidecar, the .pre-restore copy and then the file are put back.
SideBack(m) == [side EXCEPT ![m] = saved[3][m]]

RollbackOne ==
    /\ task = "rollback" /\ todo # {}
    /\ live' = [live EXCEPT ![Last] = saved[1][Last]]
    /\ pre' = [pre EXCEPT ![Last] = saved[2][Last]]
    /\ side' = SideBack(Last)
    /\ todo' = todo \ {Last}
    /\ UNCHANGED <<gens, made, task, staged, bookkeeping, faults>>

\* A path cannot be put back: the error is collected and the rest goes on.
RollbackFails ==
    /\ task = "rollback" /\ todo # {} /\ Fault
    /\ failed' = TRUE /\ todo' = todo \ {Last}
    /\ UNCHANGED <<files, gens, made, task, staged, step, saved>>

\* The command fails; what rolled back incompletely is reported as such.
RolledBack ==
    /\ task = "rollback" /\ todo = {}
    /\ Ended
    /\ UNCHANGED <<files, gens, made, faults>>

\* SIGKILL or power loss: the runbook does not promise a transaction here.
RestoreKilled ==
    /\ task \in {"install", "rollback"} /\ Fault
    /\ Ended
    /\ UNCHANGED <<files, gens, made>>

BakNext ==
    \/ \E m \in Members : Write(m)
    \/ \E g \in 1..MaxGens, m \in Members : Rot(g, m)
    \/ BeginCreate \/ CopyMember \/ Publish \/ PruneOne \/ PruneDone \/ CreateFails
    \/ \E g \in 1..MaxGens, only \in {{}} \cup {{m} : m \in Members} :
         BeginRestore(g, only)
    \/ CopyAside \/ ClearSidecars \/ Replace \/ Synced \/ Restored
    \/ InstallFails \/ RollbackOne \/ RollbackFails \/ RolledBack \/ RestoreKilled

BakSpec == BakInit /\ [][BakNext]_bakVars

-----------------------------------------------------------------------------
\* A restore that returns has installed every selected member with no stale
\* sidecar; one that raises, without reporting a failed compensation, has left
\* every file, safety copy and sidecar as it found them (restore_backup,
\* _rollback_restore).
RestoreAllOrNothing ==
    /\ task = "install" /\ todo = {} =>
         \A m \in Members :
           IF staged[m] = Absent
             THEN <<live[m], pre[m], side[m]>> = <<saved[1][m], saved[2][m], saved[3][m]>>
             ELSE live[m] = staged[m] /\ side[m] = Absent
    /\ task = "rollback" /\ todo = {} /\ ~failed => saved = <<live, pre, side>>

\* Nothing that failed its checks ever becomes a live database, also when a
\* generation rots between two commands (verify before touch).
LiveSound == \A m \in Members : live[m] # Garbage /\ pre[m] # Garbage

\* Once there are as many generations as the retention asks for, no failure of
\* a later create, at whatever point, leaves fewer (Publish before _prune).
StaysRetained == Len(gens) >= Retention => Len(gens') >= Retention
RetentionHolds == [][StaysRetained]_bakVars

-----------------------------------------------------------------------------
(* The inductive invariant behind the properties.                          *)

\* Only a generation holds garbage: what is copied, saved or staged is sound.
BakTypes ==
    LET Sound == [Members -> Nat \cup {Absent}] IN
    /\ {live, pre, side, staged} \subseteq Sound /\ saved \in Sound \X Sound \X Sound
    /\ gens \in Seq([Members -> Nat \cup {Absent, Garbage}])
    /\ todo \subseteq Members

AsSaved(m) == <<live[m], pre[m], side[m]>> = <<saved[1][m], saved[2][m], saved[3][m]>>
InPlace(m) == live[m] = staged[m] /\ side[m] = Absent

\* A restore has not touched what it did not plan, and is done with the planned
\* members that are no longer to do, up to the steps of the one at hand.
InstallsInOrder ==
    task = "install" =>
      /\ todo \subseteq Planned
      /\ \A m \in Members \ Planned : AsSaved(m)
      /\ \A m \in Planned \ todo : InPlace(m)
      /\ todo # {} /\ step \in {"replace", "sync"} => side[First] = Absent
      /\ todo # {} /\ step = "sync" => live[First] = staged[First]

\* A rollback has put back whatever it planned and has no longer to do.
PutsBack ==
    task = "rollback" =>
      /\ todo \subseteq Planned
      /\ \A m \in Members \ Planned : AsSaved(m)
      /\ ~failed => \A m \in Planned \ todo : AsSaved(m)

BakInv == BakTypes /\ InstallsInOrder /\ PutsBack
=============================================================================
