------------------------------ MODULE Migrate ------------------------------
(***************************************************************************)
(* migrate.py: the owner's data moves from the one legacy database to the  *)
(* database of the owner's tenant.  The security database is written in    *)
(* one transaction that commits last, so every file the command touches    *)
(* is changed before the registry knows of it.  Contents are versions.     *)
(***************************************************************************)
EXTENDS Naturals

CONSTANTS None, Unsound,        \* no file; content that validation refuses
          MaxVersion, MaxTrips  \* bounds of the model

\* Rows of tenants: the watermark and the digest of the last install.
Rows == [mark : Nat, digest : Nat \cup {None}]

MigrateAssumption ==
    /\ MaxVersion \in Nat /\ MaxTrips \in Nat
    /\ {None, Unsound} \cap Nat = {} /\ None \notin Rows

VARIABLES
    legacy, tenant, archive,  \* the legacy and tenant databases, .migrated
    admins,    \* admin rows of users
    matches,   \* rows that carry the configured admin email
    row,       \* the owner's tenants row: None or [mark, digest]
    stamp,     \* ingest_state.last_timestamp
    pc,        \* idle, copy, check, archive, place, remove, register
    candidate, \* the coherent copy in tenants/
    legacyHeld,\* history: the newest content the legacy database had
    trips      \* failures injected so far

migVars == <<legacy, tenant, archive, admins, matches, row, stamp, pc,
             candidate, legacyHeld, trips>>
registry == <<admins, matches, row, stamp>>

Contents == 1..MaxVersion

MigInit ==
    /\ legacy \in {None, Unsound, 1} /\ archive \in {None, 0} /\ tenant \in {None, 0}
    /\ legacyHeld = legacy
    /\ admins \in 0..2 /\ matches \in 0..2
    /\ row \in {None, [mark |-> 2, digest |-> 0]} /\ (row = None <=> tenant = None)
    /\ stamp = 1
    /\ pc = "idle" /\ candidate = None /\ trips = 0

Trip == trips < MaxTrips /\ trips' = trips + 1

\* Ingests hold ingest.lock, which the migration holds from end to end.
LegacyIngest ==
    /\ pc = "idle" /\ legacy \in 0..(MaxVersion - 1)
    /\ legacy' = legacy + 1 /\ legacyHeld' = legacy'
    /\ stamp' = stamp + 1
    /\ UNCHANGED <<tenant, archive, admins, matches, row, pc, candidate, trips>>

TenantIngest ==
    /\ pc = "idle" /\ row # None /\ tenant \in 0..(MaxVersion - 1)
    /\ tenant' = tenant + 1
    /\ row' = [mark |-> row.mark + 1, digest |-> tenant']
    /\ UNCHANGED <<legacy, archive, admins, matches, stamp, pc, candidate,
                   legacyHeld, trips>>

-----------------------------------------------------------------------------
\* _ensure_owner: the one admin, else the one user with the admin's email,
\* else a new user; anything ambiguous stops the command.
OwnerFound == admins = 1 \/ (admins = 0 /\ matches <= 1)

Stops == pc' = "idle" /\ candidate' = None

MigBegin ==
    /\ pc = "idle" /\ OwnerFound
    /\ pc' = IF legacy = None THEN "register" ELSE "copy"
    /\ UNCHANGED <<legacy, tenant, archive, registry, candidate, legacyHeld, trips>>

Copy ==
    /\ pc = "copy" /\ pc' = "check" /\ candidate' = legacy
    /\ UNCHANGED <<legacy, tenant, archive, registry, legacyHeld, trips>>

ArchiveUnchecked == candidate # Unsound /\ tenant \in {None, candidate}

\* The copy is sound, and neither an archive nor a tenant database that is
\* already there differs from it.
Agrees ==
    /\ candidate # Unsound
    /\ archive \in {None, candidate}
    /\ tenant \in {None, candidate}

RemovesEarly == <<"archive", "remove", "place">>

ArchivesLast == <<"place", "remove", "archive">>

\* The order in which the command changes files.
FileOrder == <<"archive", "place", "remove">>

After(s) == LET i == CHOOSE k \in 1..3 : FileOrder[k] = s
            IN IF i = 3 THEN "register" ELSE FileOrder[i + 1]

Check ==
    /\ pc = "check"
    /\ IF Agrees THEN pc' = FileOrder[1] /\ UNCHANGED candidate ELSE Stops
    /\ UNCHANGED <<legacy, tenant, archive, registry, legacyHeld, trips>>

\* _install_archive: unless it exists, a checked copy is renamed to .migrated.
Archive ==
    /\ pc = "archive" /\ pc' = After("archive")
    /\ archive' = IF archive = None THEN candidate ELSE archive
    /\ UNCHANGED <<legacy, tenant, registry, candidate, legacyHeld, trips>>

Place ==
    /\ pc = "place" /\ pc' = After("place")
    /\ tenant' = IF tenant = None THEN candidate ELSE tenant
    /\ UNCHANGED <<legacy, archive, registry, candidate, legacyHeld, trips>>

\* _remove_legacy_source.
Remove ==
    /\ pc = "remove" /\ pc' = After("remove")
    /\ legacy' = None
    /\ UNCHANGED <<tenant, archive, registry, candidate, legacyHeld, trips>>

Larger(a, b) == IF a > b THEN a ELSE b

LegacyMark(mark) == stamp

\* The watermark of a row that exists is raised, never set.
Mark(mark) == Larger(mark, stamp)

Register ==
    /\ pc = "register" /\ Stops
    /\ admins' = 1 /\ matches' = IF admins = 0 THEN 1 ELSE matches
    /\ row' = IF row = None THEN [mark |-> stamp, digest |-> tenant]
              ELSE [mark |-> Mark(row.mark),
                    digest |-> IF row.digest = None THEN tenant ELSE row.digest]
    /\ UNCHANGED <<legacy, tenant, archive, stamp, legacyHeld, trips>>

\* An error or a kill: the transaction is rolled back, the files stay.
MigFails ==
    /\ pc # "idle" /\ Trip /\ Stops
    /\ UNCHANGED <<legacy, tenant, archive, registry, legacyHeld>>

MigNext ==
    \/ LegacyIngest \/ TenantIngest \/ MigBegin \/ Copy \/ Check \/ Archive
    \/ Place \/ Remove \/ Register \/ MigFails

MigSpec == MigInit /\ [][MigNext]_migVars

-----------------------------------------------------------------------------
\* Wherever the command is stopped, the newest legacy content is in the legacy
\* database or in the rollback archive, and no tenant database is filled from
\* it before the archive is ("the rollback archive must be in place before the
\* tenant DB", migrate_owner_database).
ArchiveFirst ==
    /\ legacy = None /\ legacyHeld # None => archive = legacyHeld
    /\ pc \in {"remove", "register"} /\ candidate # None /\ tenant = candidate
         => archive = candidate

\* The owner's own data is not overwritten, and ingests accepted before the
\* migration are not accepted again after it.
StepsForward ==
    /\ tenant # None => tenant' # None /\ tenant' >= tenant
    /\ row # None => row'.mark >= row.mark
    /\ row = None /\ row' # None => row'.mark >= stamp
TenantForward == [][StepsForward]_migVars

\* A command that ends has migrated: the tenant database is the archived
\* content or newer, is registered under its own digest, and the legacy
\* database is gone; however often it was stopped before.
EndsWhole ==
    pc = "register" /\ pc' = "idle" /\ row' # row /\ row = None
      => /\ legacy = None /\ row'.digest = tenant
         /\ legacyHeld # None => tenant = legacyHeld
MigratedWhole == [][EndsWhole]_migVars

-----------------------------------------------------------------------------
(* The inductive invariant behind ArchiveFirst and EndsWhole.              *)

MigTypes ==
    /\ legacy \in {None, Unsound} \cup Nat
    /\ tenant \in {None} \cup Nat /\ archive \in {None} \cup Nat
    /\ stamp \in Nat
    /\ row \in {None} \cup Rows
    /\ pc \in {"idle", "copy", "check", "archive", "place", "remove", "register"}

\* The legacy database is copied as it is, and goes when the archive and the
\* tenant database have what it had.
CopyInHand ==
    /\ pc = "idle" => candidate = None
    /\ pc = "copy" => legacy # None
    /\ pc \in {"check", "archive", "place", "remove"} =>
         legacy # None /\ candidate = legacy
    /\ pc \in {"archive", "place", "remove"} =>
         /\ candidate # Unsound
         /\ archive \in {None, candidate} /\ tenant \in {None, candidate}
    /\ pc \in {"place", "remove"} => archive = candidate
    /\ pc = "remove" => tenant = candidate
    /\ pc = "register" => legacy = None /\ (candidate # None => archive = candidate)

\* What the legacy database had is not lost, and without a row the owner's
\* tenant database has nothing else.
NothingLost ==
    /\ legacy # None => legacyHeld = legacy
    /\ legacy = None /\ legacyHeld # None =>
         archive = legacyHeld /\ (row = None => tenant = legacyHeld)

MigInv == MigTypes /\ CopyInHand /\ NothingLost
=============================================================================
