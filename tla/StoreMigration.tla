-------------------------- MODULE StoreMigration ---------------------------
(***************************************************************************)
(* The explicit schema migration: ArtifactRepository::migrate of           *)
(* crates/app/src/artifact_repository/migration.rs over the session        *)
(* ExistingStoreMigration of crates/model-store/src/migration.rs, against  *)
(* other connections to the same database and the read-only inspection of  *)
(* `retonr doctor`.                                                        *)
(*                                                                         *)
(* A database is its schema version and the number of transactions         *)
(* committed to it; SQLite makes a committed transaction durable           *)
(* (synchronous = FULL).  A backup file is its content and whether its     *)
(* bytes and its directory entry have reached the disk.  Any step may fail *)
(* in the file system, any process may be killed and the machine may lose  *)
(* power, MaxFaults times in all.                                          *)
(***************************************************************************)
EXTENDS Naturals, FiniteSets

CONSTANTS
    Calls,       \* callers of ArtifactRepository::migrate, which may retry
    Current,     \* STORE_SCHEMA_VERSION
    MaxEntries,  \* maximum_repository_entries
    OtherFiles,  \* directory entries that are not backups
    MaxBytes,    \* maximum_state_bytes, in committed transactions
    MaxWrites,   \* bound on transactions of other connections
    MaxCancels,  \* bound on cancellation requests
    MaxFaults,   \* bound on I/O errors, kills and power losses
    Inspects,    \* whether `retonr doctor` inspects the schema meanwhile
    None         \* no owner, no file, no outcome

ASSUME MigrationAssumption ==
    /\ Current \in Nat \ {0}
    /\ MaxEntries \in Nat /\ OtherFiles \in Nat /\ MaxBytes \in Nat
    /\ MaxWrites \in Nat /\ MaxCancels \in Nat /\ MaxFaults \in Nat
    /\ Inspects \in BOOLEAN
    /\ None \notin Calls /\ "writer" \notin Calls \cup {None}

VARIABLES
    db,         \* the committed database: [version, rows]
    reserved,   \* who holds SQLite's write reservation, or None
    work,       \* the database as the reservation's transaction sees it
    repoLock,   \* the call that holds repository.lock exclusively, or None
    lifecycle,  \* the call that holds the lifecycle lock, or None
    leased,     \* TRUE while another command holds both locks shared
    files,      \* [Names -> backup file, or None]
    call,       \* [Calls -> local state of the current call]
    inspector,  \* inspect_schema: the version it read and its verdict
    writes, cancels, faults,  \* how often each bounded event happened
    reported,   \* history: names returned to a caller
    replaced    \* history: databases a migration commit replaced

guards == <<reserved, work, repoLock, lifecycle>>
env == <<leased, inspector, writes, cancels>>
history == <<reported, replaced>>
vars == <<db, guards, files, call, env, faults, history>>

Names == 1..MaxEntries
Database(version, rows) == [version |-> version, rows |-> rows]
Databases == [version : 0..(Current + 1), rows : 0..MaxWrites]

Parts == {"empty", "partial", "whole"}
BackupFiles == [image : Databases \cup {None}, part : Parts,
                synced : BOOLEAN, entered : BOOLEAN]
Outcomes == {"failed", "already_current", "retained", "migrated"}
Verdicts == {"current", "migration_required", "incompatible"}

ASSUME NoneAssumption == None \notin Nat \cup Outcomes \cup Verdicts \cup BackupFiles

\* A backup file as create_new_file leaves it.
EmptyFile == [image |-> None, part |-> "empty", synced |-> FALSE, entered |-> FALSE]

NewCall == [pc |-> "idle", cancelled |-> FALSE, early |-> FALSE,
            found |-> None, name |-> None, snapshot |-> None,
            complete |-> FALSE, outcome |-> None]

\* inspect_connection accepts 1..Current: version zero is uninitialised, a
\* later version belongs to a later program.
Supported(version) == version \in 1..Current

Init ==
    /\ db \in {Database(v, 0) : v \in 0..(Current + 1)}
    /\ reserved = None /\ work = db
    /\ repoLock = None /\ lifecycle = None /\ leased = FALSE
    /\ files = [n \in Names |-> None]
    /\ call = [c \in Calls |-> NewCall]
    /\ inspector = [version |-> None, verdict |-> None]
    /\ writes = 0 /\ cancels = 0 /\ faults = 0
    /\ reported = {} /\ replaced = {}

-----------------------------------------------------------------------------
(* Control shared by the steps of a call.                                  *)

Goto(c, next) == call' = [call EXCEPT ![c].pc = next]

Fault == faults < MaxFaults /\ faults' = faults + 1

\* A step fails because its check does not hold, or in the file system.
Fails(check) == (~check /\ UNCHANGED faults) \/ Fault

\* ensure_not_cancelled.
Live(c) == ~call[c].cancelled

\* Mutant: the repository lock outlives the call.
DropGuardsKeepingLock(c) ==
    /\ reserved' = IF reserved = c THEN None ELSE reserved
    /\ work' = IF reserved = c THEN db ELSE work
    /\ lifecycle' = IF lifecycle = c THEN None ELSE lifecycle
    /\ UNCHANGED repoLock

\* Dropping the session rolls its transaction back, dropping the guards
\* releases both locks.
DropGuards(c) ==
    /\ reserved' = IF reserved = c THEN None ELSE reserved
    /\ work' = IF reserved = c THEN db ELSE work
    /\ repoLock' = IF repoLock = c THEN None ELSE repoLock
    /\ lifecycle' = IF lifecycle = c THEN None ELSE lifecycle

Return(c, result) ==
    /\ call' = [call EXCEPT ![c].pc = "done", ![c].outcome = result]
    /\ DropGuards(c)

\* An error before a backup file exists.
Refuse(c) == Return(c, "failed") /\ UNCHANGED files

\* An error while the backup is made: cleanup_failed_backup comes next.
Abandon(c) == Goto(c, "cleanup") /\ UNCHANGED <<guards, files>>

-----------------------------------------------------------------------------
(* ArtifactRepository::migrate up to the backup file.                      *)

Start(c) ==
    /\ call[c].pc = "idle"
    /\ \/ /\ Live(c)
          /\ Goto(c, "locks")
          /\ UNCHANGED <<guards, files, faults>>
       \/ Fails(Live(c)) /\ Refuse(c)
    /\ UNCHANGED <<db, env, history>>

\* pin_data_directory: try_lock, never a wait.  validate_state_size reads the
\* length of the database file.
LockRepository(c) ==
    LET free == repoLock = None /\ ~leased /\ db.rows <= MaxBytes
    IN  /\ call[c].pc = "locks"
        /\ \/ /\ free
              /\ repoLock' = c
              /\ Goto(c, "storage")
              /\ UNCHANGED <<reserved, work, lifecycle, files, faults>>
           \/ Fails(free) /\ Refuse(c)
        /\ UNCHANGED <<db, env, history>>

LockLifecycle(c) ==
    LET free == lifecycle = None /\ ~leased
    IN  /\ call[c].pc = "storage"
        /\ \/ /\ free
              /\ lifecycle' = c
              /\ Goto(c, "reserve")
              /\ UNCHANGED <<reserved, work, repoLock, files, faults>>
           \/ Fails(free) /\ Refuse(c)
        /\ UNCHANGED <<db, env, history>>

\* Mutant: the schema is not inspected under the reservation.
BeginAnySchema(c) ==
    /\ call[c].pc = "reserve"
    /\ reserved = None
    /\ reserved' = c /\ work' = db
    /\ call' = [call EXCEPT ![c].pc = "begun", ![c].found = db.version]
    /\ UNCHANGED <<db, repoLock, lifecycle, files, env, faults, history>>

\* begin_existing_migration: BEGIN IMMEDIATE, then the schema is inspected
\* under the reservation and again through the read-only backup source.
BeginExistingMigration(c) ==
    LET ready == reserved = None /\ Supported(db.version)
    IN  /\ call[c].pc = "reserve"
        /\ \/ /\ ready
              /\ reserved' = c /\ work' = db
              /\ call' = [call EXCEPT ![c].pc = "begun", ![c].found = db.version]
              /\ UNCHANGED <<repoLock, lifecycle, files, faults>>
           \/ Fails(ready) /\ Refuse(c)
        /\ UNCHANGED <<db, env, history>>

\* A current repository ends the call without a backup.
Begun(c) ==
    /\ call[c].pc = "begun"
    /\ \/ /\ Live(c) /\ call[c].found = Current
          /\ Return(c, "already_current")
          /\ UNCHANGED <<files, faults>>
       \/ /\ Live(c) /\ call[c].found # Current
          /\ Goto(c, "create")
          /\ UNCHANGED <<guards, files, faults>>
       \/ Fails(Live(c)) /\ Refuse(c)
    /\ UNCHANGED <<db, env, history>>

\* create_staging_file: refused in a full directory, before a name is made.
Entries == OtherFiles + Cardinality({n \in Names : files[n] # None})

CreateBackup(c) ==
    LET room == Live(c) /\ Entries < MaxEntries
    IN  /\ call[c].pc = "create"
        /\ \/ /\ room
              /\ \E n \in Names :
                    /\ files[n] = None
                    /\ \A m \in 1..(n - 1) : files[m] # None
                    /\ files' = [files EXCEPT ![n] = EmptyFile]
                    /\ call' = [call EXCEPT ![c].pc = "snapshot", ![c].name = n]
              /\ UNCHANGED <<guards, faults>>
           \/ Fails(room) /\ Refuse(c)
        /\ UNCHANGED <<db, env, history>>

-----------------------------------------------------------------------------
(* ExistingStoreMigration::backup_to, one action between two cancellation  *)
(* checks, and sync_and_recheck_backup.                                    *)

SnapshotLockedSource(c) ==
    LET fits == Live(c) /\ db.rows <= MaxBytes
    IN  /\ call[c].pc = "snapshot"
        /\ \/ /\ fits
              /\ call' = [call EXCEPT ![c].pc = "write", ![c].snapshot = db]
              /\ UNCHANGED <<guards, files, faults>>
           \/ Fails(fits) /\ Abandon(c)
        /\ UNCHANGED <<db, env, history>>

WriteChunk(c, from, to, part) ==
    /\ call[c].pc = from
    /\ \/ /\ Live(c)
          /\ files' = [files EXCEPT ![call[c].name].image = call[c].snapshot,
                                   ![call[c].name].part = part]
          /\ Goto(c, to)
          /\ UNCHANGED <<guards, faults>>
       \/ Fails(Live(c)) /\ Abandon(c)
    /\ UNCHANGED <<db, env, history>>

WriteRollbackImage(c) ==
    \/ WriteChunk(c, "write", "finish", "partial")
    \/ WriteChunk(c, "finish", "sync", "whole")

\* sync_all, then a cancellation check.
SyncBackup(c) ==
    /\ call[c].pc = "sync"
    /\ \/ /\ files' = [files EXCEPT ![call[c].name].synced = TRUE]
          /\ Goto(c, IF Live(c) THEN "verify" ELSE "cleanup")
          /\ UNCHANGED <<guards, faults>>
       \/ Fault /\ Abandon(c)
    /\ UNCHANGED <<db, env, history>>

\* inspect_serialized_backup: the image read back from the same handle must
\* have the schema the session bound.
VerifyBackup(c) ==
    LET file == files[call[c].name]
        exact == file.part = "whole" /\ file.image.version = call[c].found
    IN  /\ call[c].pc = "verify"
        /\ \/ /\ exact
              /\ call' = [call EXCEPT ![c].pc = "bind", ![c].complete = TRUE]
              /\ UNCHANGED <<guards, files, faults>>
           \/ Fails(exact) /\ Abandon(c)
        /\ UNCHANGED <<db, env, history>>

\* Mutant: the directory entry of the backup is not synchronised.
RecheckBackupUnsynced(c) ==
    /\ call[c].pc = "bind"
    /\ \/ Live(c) /\ Goto(c, "upgrade") /\ UNCHANGED <<guards, files, faults>>
       \/ Fails(Live(c)) /\ Abandon(c)
    /\ UNCHANGED <<db, env, history>>

\* sync_and_recheck_backup: the directory reaches the disk, then the last
\* cancellation check of the call.
SyncAndRecheckBackup(c) ==
    /\ call[c].pc = "bind"
    /\ \/ /\ files' = [files EXCEPT ![call[c].name].entered = TRUE]
          /\ \/ Live(c) /\ Goto(c, "upgrade") /\ UNCHANGED faults
             \/ Fails(Live(c)) /\ Goto(c, "cleanup")
          /\ UNCHANGED guards
       \/ Fault /\ Abandon(c)
    /\ UNCHANGED <<db, env, history>>

\* Mutant: a cancelled call leaves its backup.
CleanupUnlessCancelled(c) ==
    /\ call[c].pc = "cleanup"
    /\ \/ /\ files' = [files EXCEPT ![call[c].name] = IF Live(c) THEN None ELSE @]
          /\ UNCHANGED faults
       \/ Fault /\ UNCHANGED files
    /\ Return(c, "failed")
    /\ UNCHANGED <<db, env, history>>

\* cleanup_failed_backup: an error of the removal is discarded.  The session
\* is dropped when the call returns, after the clean-up.
CleanupFailedBackup(c) ==
    /\ call[c].pc = "cleanup"
    /\ \/ files' = [files EXCEPT ![call[c].name] = None] /\ UNCHANGED faults
       \/ Fault /\ UNCHANGED files
    /\ Return(c, "failed")
    /\ UNCHANGED <<db, env, history>>

-----------------------------------------------------------------------------
(* commit_migration.                                                       *)

\* retain_backup: every error from here on names the backup.
Retain(c) ==
    /\ Return(c, "retained")
    /\ reported' = reported \cup {call[c].name}

\* migrate_existing_transaction: one validated step per schema version inside
\* the session's transaction, refused without a completed backup.
MigrateSchemaStep(c) ==
    LET ready == call[c].complete
    IN  /\ call[c].pc = "upgrade"
        /\ \/ /\ ready /\ work.version < Current
              /\ work' = [work EXCEPT !.version = @ + 1]
              /\ UNCHANGED <<reserved, repoLock, lifecycle, call, faults, history>>
           \/ /\ ready /\ work.version = Current
              /\ Goto(c, "commit")
              /\ UNCHANGED <<guards, faults, history>>
           \/ /\ Fails(ready) /\ Retain(c)
              /\ UNCHANGED replaced
        /\ UNCHANGED <<db, files, env>>

\* Mutant: a successful migration removes its backup.
CommitRemovingBackup(c) ==
    /\ call[c].pc = "commit"
    /\ db' = work /\ replaced' = replaced \cup {db}
    /\ reserved' = None
    /\ files' = [files EXCEPT ![call[c].name] = None]
    /\ Goto(c, "confirm")
    /\ UNCHANGED <<work, repoLock, lifecycle, faults, reported, env>>

\* COMMIT, which may report an error before or after it took effect, and the
\* drop of the consumed session.
Commit(c) ==
    /\ call[c].pc = "commit"
    /\ \/ /\ db' = work
          /\ replaced' = replaced \cup {db}
          /\ \/ /\ reserved' = None
                /\ Goto(c, "confirm")
                /\ UNCHANGED <<work, repoLock, lifecycle, faults, reported>>
             \/ /\ Fault
                /\ reserved' = None
                /\ repoLock' = None /\ lifecycle' = None
                /\ call' = [call EXCEPT ![c].pc = "done", ![c].outcome = "retained"]
                /\ reported' = reported \cup {call[c].name}
                /\ UNCHANGED work
       \/ /\ Fault /\ Retain(c)
          /\ UNCHANGED <<db, replaced>>
    /\ UNCHANGED <<files, env>>

\* open_existing_read_only at the exact schema, and the boundary checks.
Confirm(c) ==
    LET exact == db.version = Current
    IN  /\ call[c].pc = "confirm"
        /\ \/ /\ exact
              /\ Return(c, "migrated")
              /\ reported' = reported \cup {call[c].name}
              /\ UNCHANGED faults
           \/ Fails(exact) /\ Retain(c)
        /\ UNCHANGED <<db, files, env, replaced>>

Step(c) ==
    \/ Start(c) \/ LockRepository(c) \/ LockLifecycle(c)
    \/ BeginExistingMigration(c) \/ Begun(c) \/ CreateBackup(c)
    \/ SnapshotLockedSource(c) \/ WriteRollbackImage(c) \/ SyncBackup(c)
    \/ VerifyBackup(c) \/ SyncAndRecheckBackup(c) \/ CleanupFailedBackup(c)
    \/ MigrateSchemaStep(c) \/ Commit(c) \/ Confirm(c)

-----------------------------------------------------------------------------
(* The caller, and everything else on the machine.                         *)

\* The phases before the last cancellation check of the call.
BeforeBoundary == {"idle", "locks", "storage", "reserve", "begun", "create",
                   "snapshot", "write", "finish", "sync", "verify", "bind"}

Cancel(c) ==
    /\ call[c].pc # "done" /\ Live(c) /\ cancels < MaxCancels
    /\ call' = [call EXCEPT ![c].cancelled = TRUE,
                           ![c].early = call[c].pc \in BeforeBoundary]
    /\ cancels' = cancels + 1
    /\ UNCHANGED <<db, guards, files, leased, inspector, writes, faults, history>>

Retry(c) ==
    /\ call[c].pc = "done" /\ call[c].outcome \in {"failed", "retained"}
    /\ call' = [call EXCEPT ![c] = NewCall]
    /\ UNCHANGED <<db, guards, files, env, faults, history>>

\* Another command under shared locks (a lease, an inventory).
Lease ==
    /\ repoLock = None /\ lifecycle = None /\ ~leased /\ writes < MaxWrites
    /\ leased' = TRUE /\ writes' = writes + 1
    /\ UNCHANGED <<db, guards, files, call, inspector, cancels, faults, history>>

EndLease ==
    /\ leased /\ leased' = FALSE
    /\ UNCHANGED <<db, guards, files, call, inspector, writes, cancels, faults, history>>

\* A connection that takes neither lock, such as the qualification records'.
WriterBegin ==
    /\ reserved = None /\ Supported(db.version) /\ writes < MaxWrites
    /\ reserved' = "writer" /\ work' = db /\ writes' = writes + 1
    /\ UNCHANGED <<db, repoLock, lifecycle, files, call, leased, inspector,
                   cancels, faults, history>>

WriterCommit ==
    /\ reserved = "writer"
    /\ reserved' = None
    /\ db' = [work EXCEPT !.rows = @ + 1] /\ work' = db'
    /\ UNCHANGED <<repoLock, lifecycle, files, call, env, faults, history>>

Kill(c) ==
    /\ call[c].pc \notin {"idle", "done"}
    /\ Fault
    /\ call' = [call EXCEPT ![c] = NewCall]
    /\ DropGuards(c)
    /\ UNCHANGED <<db, files, env, history>>

\* What a file can be after the power returns: without its entry on disk it
\* may be gone, without its bytes on disk it may hold any prefix of them.
Survivors(f) ==
    IF f = None THEN {None}
    ELSE (IF f.entered THEN {} ELSE {None})
         \cup (IF f.synced THEN {f}
               ELSE {f} \cup {[f EXCEPT !.part = part] : part \in {"empty", "partial"}})

PowerLoss ==
    /\ Fault
    /\ files' \in {g \in [Names -> UNION {Survivors(files[n]) : n \in Names}] :
                     \A n \in Names : g[n] \in Survivors(files[n])}
    /\ call' = [c \in Calls |-> IF call[c].pc = "done" THEN call[c] ELSE NewCall]
    /\ reserved' = None /\ work' = db /\ repoLock' = None /\ lifecycle' = None
    /\ leased' = FALSE
    /\ inspector' = [version |-> None, verdict |-> None]
    /\ UNCHANGED <<db, writes, cancels, history>>

\* inspect_schema takes no lock and no transaction: inspect_connection reads
\* the version in one statement and the table shapes in later ones.
InspectVersion ==
    /\ Inspects /\ inspector.version = None
    /\ inspector' = [version |-> db.version, verdict |-> None]
    /\ UNCHANGED <<db, guards, files, call, leased, writes, cancels, faults, history>>

\* Mutant: the shape is compared with the current schema only.
InspectShapeOfCurrent ==
    /\ inspector.version # None /\ inspector.verdict = None
    /\ inspector' = [inspector EXCEPT !.verdict =
          IF inspector.version = 0 THEN "migration_required"
          ELSE IF db.version # Current THEN "incompatible"
          ELSE "current"]
    /\ UNCHANGED <<db, guards, files, call, leased, writes, cancels, faults, history>>

InspectShape ==
    /\ inspector.version # None /\ inspector.verdict = None
    /\ inspector' = [inspector EXCEPT !.verdict =
          IF inspector.version = 0 THEN "migration_required"
          ELSE IF inspector.version > Current \/ inspector.version # db.version
               THEN "incompatible"
          ELSE IF inspector.version = Current THEN "current"
          ELSE "migration_required"]
    /\ UNCHANGED <<db, guards, files, call, leased, writes, cancels, faults, history>>

Next ==
    \/ \E c \in Calls : Step(c) \/ Cancel(c) \/ Retry(c) \/ Kill(c)
    \/ Lease \/ EndLease \/ WriterBegin \/ WriterCommit \/ PowerLoss
    \/ InspectVersion \/ InspectShape

Spec == Init /\ [][Next]_vars

\* Every call that is not killed goes on and callers retry a failed one.  Other
\* commands may keep their locks and reservations for ever.
FairSpec == Spec /\ \A c \in Calls : WF_vars(Step(c)) /\ WF_vars(Retry(c))

-----------------------------------------------------------------------------
(* Properties.                                                             *)

\* A complete backup that survives a power loss.
OnDisk(n) ==
    files[n] # None /\ files[n].part = "whole" /\ files[n].synced /\ files[n].entered

\* Types of the variables.
TypeOK ==
    /\ db \in Databases /\ work \in Databases
    /\ reserved \in Calls \cup {"writer", None}
    /\ repoLock \in Calls \cup {None} /\ lifecycle \in Calls \cup {None}
    /\ leased \in BOOLEAN
    /\ files \in [Names -> BackupFiles \cup {None}]
    /\ \A c \in Calls :
          /\ call[c].name \in Names \cup {None}
          /\ call[c].found \in 1..Current \cup {None}
          /\ call[c].snapshot \in Databases \cup {None}
          /\ call[c].outcome \in Outcomes \cup {None}
    /\ inspector \in [version : 0..(Current + 1) \cup {None}, verdict : Verdicts \cup {None}]
    /\ writes \in 0..MaxWrites /\ cancels \in 0..MaxCancels /\ faults \in 0..MaxFaults
    /\ reported \subseteq Names /\ replaced \subseteq Databases

\* Whenever a migration has changed the schema, a file that survives a power
\* loss holds exactly the database the commit replaced, whatever was written,
\* killed or lost in between (migration.rs:151, app migration.rs:115-126).
MigrationBackedUp ==
    /\ TypeOK
    /\ \A d \in replaced : \E n \in Names : OnDisk(n) /\ files[n].image = d

\* A backup whose name a caller was given, in a result or in an error, stays
\* on disk as a complete image of a legacy schema: no later call, kill or
\* power loss takes it away (app migration.rs:32, retain_backup 307).
ReportedBackupKept ==
    \A n \in reported :
       OnDisk(n) /\ files[n].image.version < Current

\* A call that is cancelled or fails leaves nothing: one cancelled before its
\* last check never reaches the migration (app migration.rs:24-25, 153), and
\* backups no caller was told of come only from faults, since a failing call
\* removes its own (cleanup_failed_backup, app migration.rs:239).
UnreportedBackupsBounded ==
    /\ \A c \in Calls : call[c].early =>
          /\ call[c].pc \notin {"upgrade", "commit", "confirm"}
          /\ call[c].outcome \notin {"migrated", "retained"}
    /\ Cardinality({n \in Names : files[n] # None} \ reported)
         <= faults + Cardinality({c \in Calls : call[c].name # None /\ call[c].pc # "done"})

\* A step changes the database only by one more transaction of another
\* connection, or by moving a supported schema to the current one with every
\* transaction kept: no write is lost between the reservation and COMMIT and
\* no intermediate schema is ever visible (migration.rs:105, 208-209).
OnlyWholeMigrations ==
    [][db' # db =>
         \/ db' = [db EXCEPT !.rows = @ + 1]
         \/ Supported(db.version) /\ db' = [db EXCEPT !.version = Current]]_vars

\* What an inspection says of the schema, although it takes neither a lock nor a
\* transaction: "current" is true and stays so, and a schema that can be used is
\* called incompatible only when a migration committed between the reads of its
\* version and of its shape (migration.rs:234; inspect.rs:14 knows only of
\* schemas that are "future, corrupt, or otherwise unusable").
InspectionSound ==
    /\ inspector.verdict = "current" => db.version = Current
    /\ inspector.verdict = "incompatible" =>
          \/ inspector.version > Current
          \/ \E d \in replaced : d.version = inspector.version

\* Every call that is not killed returns, even if another command keeps its
\* lock or reservation for ever: it does not wait for the lock, and for the
\* reservation no longer than SQLite's busy timeout of five seconds
\* (guard.rs:106-112, migration.rs:103-105, schema.rs:556).  With retries and room for the backups of failed
\* attempts, a supported legacy schema reaches the current one once other
\* commands have ended: no failed attempt is in the way of a later one
\* (app migration.rs:33-77).
MigrationCompletes ==
    /\ \A c \in Calls : call[c].pc = "locks" ~> call[c].pc \in {"idle", "done"}
    /\ <>[](~leased /\ reserved # "writer") =>
          (Supported(db.version) ~> db.version = Current)

=============================================================================
