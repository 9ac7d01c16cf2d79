------------------------- MODULE ArtifactLifecycle -------------------------
(***************************************************************************)
(* The artifact repository of crates/app: processes that import,           *)
(* reconcile, remove, recover and lease single-file artifacts, with the    *)
(* state store (ArtifactState) on one side and a filesystem that may lose  *)
(* unsynchronised changes on the other.                                    *)
(*                                                                         *)
(* An operation is a sequence of steps, one for each effect that a crash   *)
(* or another process could separate from the next: a lock, a directory    *)
(* change, a synchronisation, a database transaction.  Reads made under    *)
(* the exclusive lifecycle lock belong to the step that follows them.      *)
(*                                                                         *)
(* Filesystem.  The managed root has two directories, artifacts/ (one      *)
(* canonical name per digest) and .staging/.  Staging names are random;    *)
(* one slot per artifact stands for them, since only one import runs at a  *)
(* time and recovery removes all of them alike.  An artifact has one inode *)
(* at a time, so that both its names being present means a link count of   *)
(* two.  `here' is what processes see; `disk' holds, for each name, every  *)
(* value a power loss may leave behind.                                    *)
(***************************************************************************)
EXTENDS ArtifactState, FiniteSets

CONSTANTS
    Procs,              \* processes that use the repository
    NoJob,              \* job of a process that runs no operation
    MaxStorageEntries,  \* limits.maximum_storage_entries, the same for all
    MaxFaults           \* bound on injected failures, kills and power losses

ASSUME LimitAssumption == MaxStorageEntries \in Nat /\ MaxFaults \in Nat

VARIABLES
    here,      \* [Names -> BOOLEAN]: the name exists
    disk,      \* [Names -> SUBSET BOOLEAN]: what a power loss may leave
    content,   \* [Artifacts -> what the artifact's inode holds]
    flushed,   \* [Artifacts -> BOOLEAN]: the inode's data is on disk
    pc,        \* [Procs -> next step of the running operation]
    job,       \* [Procs -> its arguments]
    repoLock,  \* [Procs -> mode held on .artifact-repository.lock]
    lifeLock,  \* [Procs -> mode held on .artifact-import.lock]
    faults     \* faults so far

fsVars == <<here, disk, content, flushed>>
procVars == <<pc, job, repoLock, lifeLock>>
vars == <<storeVars, fsVars, procVars, faults>>

Names == {"artifacts", ".staging"} \X Artifacts
Canonical(a) == <<"artifacts", a>>
Staged(a) == <<".staging", a>>

Modes == {"none", "shared", "exclusive"}
Jobs == [art : Artifacts, manifest : Manifests \cup {NoManifest},
         epoch : 0..MaxEpoch, bytes : BOOLEAN]

Steps ==
    {"idle",
     "import.open", "import.recover", "import.syncRecovered", "import.inspect",
     "import.copy", "import.flush", "import.link", "import.syncArtifacts", "import.cleanup",
     "import.syncStaging", "discard", "discard.sync",
     "reconcile.open", "verify", "verify.sync", "register",
     "remove.open", "remove.verify", "recover.open", "recover.verify",
     "prepare", "unlink", "unlink.sync", "complete",
     "lease.verify", "lease.confirm", "leased"}

TypeOK ==
    /\ StoreTypeOK
    /\ here \in [Names -> BOOLEAN]
    /\ disk \in [Names -> SUBSET BOOLEAN]
    /\ content \in [Artifacts -> {"none", "partial", "exact"}]
    /\ flushed \in [Artifacts -> BOOLEAN]
    /\ pc \in [Procs -> Steps]
    /\ job \in [Procs -> Jobs \cup {NoJob}]
    /\ repoLock \in [Procs -> Modes]
    /\ lifeLock \in [Procs -> Modes]
    /\ faults \in 0..MaxFaults

Init ==
    /\ StoreInit
    /\ here = [n \in Names |-> FALSE]
    /\ disk = [n \in Names |-> {FALSE}]
    /\ content = [a \in Artifacts |-> "none"]
    /\ flushed = [a \in Artifacts |-> TRUE]
    /\ pc = [p \in Procs |-> "idle"]
    /\ job = [p \in Procs |-> NoJob]
    /\ repoLock = [p \in Procs |-> "none"]
    /\ lifeLock = [p \in Procs |-> "none"]
    /\ faults = 0

-----------------------------------------------------------------------------
(* Filesystem operations.                                                  *)

\* Adding or removing a name: until the directory is synchronised, a power
\* loss may leave the old or the new state.
SetNames(ns, present) ==
    /\ here' = [n \in Names |-> IF n \in ns THEN present ELSE here[n]]
    /\ disk' = [n \in Names |-> IF n \in ns THEN disk[n] \cup {present} ELSE disk[n]]

\* PinnedDirectory::sync.
SyncDirectory(d) ==
    disk' = [n \in Names |-> IF n[1] = d THEN {here[n]} ELSE disk[n]]

StorageEntries == {a \in Artifacts : here[Canonical(a)]}

\* open_managed_file: a directory with more entries than the limit is refused
\* whole, and a name that is absent from a full one is an error too.
Lookup(a) ==
    IF Cardinality(StorageEntries) > MaxStorageEntries THEN "limit"
    ELSE IF here[Canonical(a)] THEN "present"
    ELSE IF Cardinality(StorageEntries) = MaxStorageEntries THEN "limit"
    ELSE "missing"

\* verify_exact_artifact_with, without the synchronisation it ends with.
VerifyResult(a) ==
    IF Lookup(a) # "present" THEN Lookup(a)
    ELSE IF here[Staged(a)] THEN "aliased"
    ELSE IF content[a] # "exact" THEN "mismatch"
    ELSE "verified"

-----------------------------------------------------------------------------
(* Locks are tried, never waited for, and die with their process.          *)

CanShare(lock, p) == \A q \in Procs \ {p} : lock[q] # "exclusive"

\* Mutant: an exclusive lock does not wait for shared ones.
CanLockDespiteLeases(lock, p) == \A q \in Procs \ {p} : lock[q] # "exclusive"

CanLock(lock, p) == \A q \in Procs \ {p} : lock[q] = "none"

Goto(p, step) ==
    /\ pc' = [pc EXCEPT ![p] = step]
    /\ UNCHANGED <<job, repoLock, lifeLock, faults>>

\* The operation returns, with a value or an error: the guards are dropped.
Return(p) ==
    /\ pc' = [pc EXCEPT ![p] = "idle"]
    /\ job' = [job EXCEPT ![p] = NoJob]
    /\ repoLock' = [repoLock EXCEPT ![p] = "none"]
    /\ lifeLock' = [lifeLock EXCEPT ![p] = "none"]
    /\ UNCHANGED faults

\* Facade operations take the repository lock first (pin_data_directory).
Begin(p, step, j) ==
    /\ pc[p] = "idle"
    /\ CanLock(repoLock, p)
    /\ pc' = [pc EXCEPT ![p] = step]
    /\ job' = [job EXCEPT ![p] = j]
    /\ repoLock' = [repoLock EXCEPT ![p] = "exclusive"]
    /\ UNCHANGED <<storeVars, fsVars, lifeLock, faults>>

\* The exclusive lifecycle lock, once an operation has the repository lock.
TakeLifecycle(p, step) ==
    /\ CanLock(lifeLock, p)
    /\ lifeLock' = [lifeLock EXCEPT ![p] = "exclusive"]
    /\ pc' = [pc EXCEPT ![p] = step]
    /\ UNCHANGED <<job, repoLock, faults>>

\* StorageInUse: another process holds the lifecycle lock.
OpenBusy(p) ==
    /\ pc[p] \in {"import.open", "reconcile.open", "remove.open", "recover.open"}
    /\ ~CanLock(lifeLock, p)
    /\ Return(p)
    /\ UNCHANGED <<storeVars, fsVars>>

\* import and reconcile refuse an artifact whose removal is pending.
RemovalPending(a) == ~Installed(a) /\ removalPhase[a] = "prepared"

-----------------------------------------------------------------------------
(* Import.                                                                 *)

ImportBegin(p, a, m) ==
    Begin(p, "import.open", [art |-> a, manifest |-> m, epoch |-> 0, bytes |-> FALSE])

StagingEntries == {n \in Names : n[1] = ".staging" /\ here[n]}

\* OfflineArtifactImportService::open takes the lock; recover_owned_staging
\* then unlinks, one by one, what interrupted imports left in .staging/.  With
\* nothing left there is nothing to synchronise.
ImportOpen(p) ==
    /\ pc[p] = "import.open"
    /\ TakeLifecycle(p, IF StagingEntries = {} THEN "import.inspect" ELSE "import.recover")
    /\ UNCHANGED <<storeVars, fsVars>>

ImportRecover(p) ==
    /\ pc[p] = "import.recover"
    /\ \E n \in StagingEntries :
          /\ SetNames({n}, FALSE)
          /\ Goto(p, IF StagingEntries = {n} THEN "import.syncRecovered" ELSE "import.recover")
    /\ UNCHANGED <<storeVars, content, flushed>>

ImportRecoverSync(p) ==
    /\ pc[p] = "import.syncRecovered"
    /\ SyncDirectory(".staging")
    /\ Goto(p, "import.inspect")
    /\ UNCHANGED <<storeVars, here, content, flushed>>

\* Existing canonical bytes are only verified; otherwise a staging file is
\* created.
ImportInspect(p) ==
    LET a == job[p].art IN
    /\ pc[p] = "import.inspect"
    /\ \/ /\ RemovalPending(a) \/ Lookup(a) = "limit"
          /\ Return(p)
          /\ UNCHANGED fsVars
       \/ /\ ~RemovalPending(a) /\ Lookup(a) = "present"
          /\ Goto(p, "verify")
          /\ UNCHANGED fsVars
       \/ /\ ~RemovalPending(a) /\ Lookup(a) = "missing"
          /\ SetNames({Staged(a)}, TRUE)
          /\ content' = [content EXCEPT ![a] = "partial"]
          /\ flushed' = [flushed EXCEPT ![a] = FALSE]
          /\ Goto(p, "import.copy")
    /\ UNCHANGED storeVars

\* copy_and_hash: the source had the manifest's digest (a source that has not
\* is a Fail).
ImportCopy(p) ==
    /\ pc[p] = "import.copy"
    /\ content' = [content EXCEPT ![job[p].art] = "exact"]
    /\ Goto(p, "import.flush")
    /\ UNCHANGED <<storeVars, here, disk, flushed>>

\* commit_staged: flush, publish under the canonical name, synchronise the
\* directory, and only then drop the staging name.
ImportFlush(p) ==
    /\ pc[p] = "import.flush"
    /\ Lookup(job[p].art) = "missing"
    /\ flushed' = [flushed EXCEPT ![job[p].art] = TRUE]
    /\ Goto(p, "import.link")
    /\ UNCHANGED <<storeVars, here, disk, content>>

ImportLink(p) ==
    /\ pc[p] = "import.link"
    /\ ~here[Canonical(job[p].art)]
    /\ SetNames({Canonical(job[p].art)}, TRUE)
    /\ Goto(p, "import.syncArtifacts")
    /\ UNCHANGED <<storeVars, content, flushed>>

ImportSyncArtifacts(p) ==
    /\ pc[p] = "import.syncArtifacts"
    /\ SyncDirectory("artifacts")
    /\ Goto(p, "import.cleanup")
    /\ UNCHANGED <<storeVars, here, content, flushed>>

ImportCleanup(p) ==
    /\ pc[p] = "import.cleanup"
    /\ SetNames({Staged(job[p].art)}, FALSE)
    /\ Goto(p, "import.syncStaging")
    /\ UNCHANGED <<storeVars, content, flushed>>

ImportSyncStaging(p) ==
    /\ pc[p] = "import.syncStaging"
    /\ SyncDirectory(".staging")
    /\ Goto(p, "verify")
    /\ UNCHANGED <<storeVars, here, content, flushed>>

\* StagedArtifact::cleanup on an error path (and Drop): the staging name goes,
\* what was published stays.
Discard(p) ==
    /\ pc[p] = "discard"
    /\ SetNames({Staged(job[p].art)}, FALSE)
    /\ Goto(p, "discard.sync")
    /\ UNCHANGED <<storeVars, content, flushed>>

DiscardSync(p) ==
    /\ pc[p] = "discard.sync"
    /\ SyncDirectory(".staging")
    /\ Return(p)
    /\ UNCHANGED <<storeVars, here, content, flushed>>

-----------------------------------------------------------------------------
(* Reconciliation of an orphan, and the two steps it shares with import.   *)

ReconcileBegin(p, a, m) ==
    Begin(p, "reconcile.open", [art |-> a, manifest |-> m, epoch |-> 0, bytes |-> FALSE])

ReconcileOpen(p) ==
    /\ pc[p] = "reconcile.open"
    /\ IF RemovalPending(job[p].art)
       THEN CanLock(lifeLock, p) /\ Return(p)
       ELSE TakeLifecycle(p, "verify")
    /\ UNCHANGED <<storeVars, fsVars>>

\* verify_exact_artifact: check the canonical bytes, flush them, and then
\* synchronise the directory.
Verify(p) ==
    LET a == job[p].art IN
    /\ pc[p] = "verify"
    /\ \/ /\ VerifyResult(a) = "verified"
          /\ flushed' = [flushed EXCEPT ![a] = TRUE]
          /\ Goto(p, "verify.sync")
       \/ /\ VerifyResult(a) # "verified"
          /\ Return(p)
          /\ UNCHANGED flushed
    /\ UNCHANGED <<storeVars, here, disk, content>>

\* Mutant: the verified bytes are registered without a synchronisation.
VerifyWithoutSync(p) ==
    /\ pc[p] = "verify.sync"
    /\ Goto(p, "register")
    /\ UNCHANGED <<storeVars, fsVars>>

VerifySync(p) ==
    /\ pc[p] = "verify.sync"
    /\ SyncDirectory("artifacts")
    /\ Goto(p, "register")
    /\ UNCHANGED <<storeVars, here, content, flushed>>

\* put_installation: a new row, or nothing (AlreadyPresent or an error).
Register(p) ==
    LET a == job[p].art
        m == job[p].manifest
    IN
    /\ pc[p] = "register"
    /\ \/ PutInstallation(a, m)
       \/ PutInstallationResult(a, m) # "Inserted" /\ UNCHANGED storeVars
    /\ Return(p)
    /\ UNCHANGED fsVars

-----------------------------------------------------------------------------
(* Removal and its recovery.                                               *)

RemoveBegin(p, a, e) ==
    Begin(p, "remove.open", [art |-> a, manifest |-> NoManifest, epoch |-> e, bytes |-> TRUE])

\* ArtifactRepository::remove: any key that is not the current installation
\* is answered from the rows alone.
RemoveOpen(p) ==
    /\ pc[p] = "remove.open"
    /\ IF installedEpoch[job[p].art] = job[p].epoch
       THEN TakeLifecycle(p, "remove.verify")
       ELSE Return(p)
    /\ UNCHANGED <<storeVars, fsVars>>

RemoveVerify(p) ==
    /\ pc[p] = "remove.verify"
    /\ \/ /\ VerifyResult(job[p].art) = "verified"
          /\ SyncDirectory("artifacts")
          /\ Goto(p, "prepare")
       \/ /\ VerifyResult(job[p].art) # "verified"
          /\ Return(p)
          /\ UNCHANGED disk
    /\ UNCHANGED <<storeVars, here, content, flushed>>

RecoverBegin(p, a, e) ==
    Begin(p, "recover.open", [art |-> a, manifest |-> NoManifest, epoch |-> e, bytes |-> TRUE])

\* ArtifactRepository::recover_removal.
RecoverOpen(p) ==
    LET a == job[p].art IN
    /\ pc[p] = "recover.open"
    /\ IF removalPhase[a] = "prepared" /\ removalEpoch[a] = job[p].epoch /\ ~Installed(a)
       THEN TakeLifecycle(p, "recover.verify")
       ELSE Return(p)
    /\ UNCHANGED <<storeVars, fsVars>>

\* Mutant: a recovery insists on finding the bytes.
RecoverNeedsBytes(p) ==
    /\ pc[p] = "recover.verify"
    /\ \/ VerifyResult(job[p].art) = "verified" /\ SyncDirectory("artifacts") /\ Goto(p, "prepare")
       \/ VerifyResult(job[p].art) # "verified" /\ Return(p) /\ UNCHANGED disk
    /\ UNCHANGED <<storeVars, here, content, flushed>>

\* A recovery accepts that the bytes are already gone, and nothing else.
RecoverVerify(p) ==
    LET v == VerifyResult(job[p].art) IN
    /\ pc[p] = "recover.verify"
    /\ \/ v = "verified" /\ SyncDirectory("artifacts") /\ Goto(p, "prepare")
       \/ /\ v = "missing"
          /\ pc' = [pc EXCEPT ![p] = "prepare"]
          /\ job' = [job EXCEPT ![p].bytes = FALSE]
          /\ UNCHANGED <<disk, repoLock, lifeLock, faults>>
       \/ v \notin {"verified", "missing"} /\ Return(p) /\ UNCHANGED disk
    /\ UNCHANGED <<storeVars, here, content, flushed>>

\* Mutant: the bytes are unlinked before the removal is journalled.
PrepareLater(p) ==
    /\ pc[p] = "prepare"
    /\ Goto(p, "unlink")
    /\ UNCHANGED <<storeVars, fsVars>>

\* prepare_state: the transaction that revokes the installation.
Prepare(p) ==
    LET a == job[p].art
        e == job[p].epoch
    IN
    /\ pc[p] = "prepare"
    /\ \/ PrepareArtifactRemoval(a, e) /\ Goto(p, "unlink")
       \/ PrepareResult(a, e) = "AlreadyPrepared" /\ Goto(p, "unlink") /\ UNCHANGED storeVars
       \/ /\ PrepareResult(a, e) \notin {"Prepared", "AlreadyPrepared"}
          /\ Return(p)
          /\ UNCHANGED storeVars
    /\ UNCHANGED fsVars

\* finish_prepared: unlink the verified file, or confirm that none is there.
Unlink(p) ==
    LET a == job[p].art IN
    /\ pc[p] = "unlink"
    /\ job[p].bytes = here[Canonical(a)]
    /\ job[p].bytes => ~here[Staged(a)]
    /\ SetNames({Canonical(a)} \cap {n \in Names : here[n]}, FALSE)
    /\ Goto(p, "unlink.sync")
    /\ UNCHANGED <<storeVars, content, flushed>>

\* Mutant: the directory is not synchronised before completion.
UnlinkUnsynced(p) ==
    /\ pc[p] = "unlink.sync"
    /\ Goto(p, "complete")
    /\ UNCHANGED <<storeVars, fsVars>>

UnlinkSync(p) ==
    /\ pc[p] = "unlink.sync"
    /\ SyncDirectory("artifacts")
    /\ Goto(p, "complete")
    /\ UNCHANGED <<storeVars, here, content, flushed>>

Complete(p) ==
    /\ pc[p] = "complete"
    /\ CompleteArtifactRemoval(job[p].art, job[p].epoch)
    /\ Return(p)
    /\ UNCHANGED fsVars

-----------------------------------------------------------------------------
(* Runtime leases: a shared lifecycle lock around verified bytes.          *)

LeaseBegin(p, a, e) ==
    /\ pc[p] = "idle"
    /\ CanShare(lifeLock, p)
    /\ installedEpoch[a] = e
    /\ lifeLock' = [lifeLock EXCEPT ![p] = "shared"]
    /\ pc' = [pc EXCEPT ![p] = "lease.verify"]
    /\ job' = [job EXCEPT ![p] =
           [art |-> a, manifest |-> NoManifest, epoch |-> e, bytes |-> TRUE]]
    /\ UNCHANGED <<storeVars, fsVars, repoLock, faults>>

LeaseVerify(p) ==
    /\ pc[p] = "lease.verify"
    /\ IF VerifyResult(job[p].art) = "verified" THEN Goto(p, "lease.confirm") ELSE Return(p)
    /\ UNCHANGED <<storeVars, fsVars>>

LeaseConfirm(p) ==
    /\ pc[p] = "lease.confirm"
    /\ installedEpoch[job[p].art] = job[p].epoch
    /\ Goto(p, "leased")
    /\ UNCHANGED <<storeVars, fsVars>>

LeaseRelease(p) ==
    /\ pc[p] = "leased"
    /\ Return(p)
    /\ UNCHANGED <<storeVars, fsVars>>

-----------------------------------------------------------------------------
(* Faults.                                                                 *)

Fault == faults < MaxFaults /\ faults' = faults + 1

StagingSteps == {"import.copy", "import.flush", "import.link",
                 "import.syncArtifacts", "import.cleanup"}

\* An I/O error, a bad source or a cancellation: an import that has a staging
\* file discards it, everything else just returns.  After "prepare" this is
\* the RecoveryRequired answer.
Fail(p) ==
    /\ Fault
    /\ pc[p] \notin {"idle", "leased", "discard", "discard.sync"}
    /\ IF pc[p] \in StagingSteps
       THEN pc' = [pc EXCEPT ![p] = "discard"] /\ UNCHANGED <<job, repoLock, lifeLock>>
       ELSE /\ pc' = [pc EXCEPT ![p] = "idle"]
            /\ job' = [job EXCEPT ![p] = NoJob]
            /\ repoLock' = [repoLock EXCEPT ![p] = "none"]
            /\ lifeLock' = [lifeLock EXCEPT ![p] = "none"]
    /\ UNCHANGED <<storeVars, fsVars>>

\* The process is killed: its locks go, what it wrote stays visible.
Kill(p) ==
    /\ Fault
    /\ pc[p] # "idle"
    /\ pc' = [pc EXCEPT ![p] = "idle"]
    /\ job' = [job EXCEPT ![p] = NoJob]
    /\ repoLock' = [repoLock EXCEPT ![p] = "none"]
    /\ lifeLock' = [lifeLock EXCEPT ![p] = "none"]
    /\ UNCHANGED <<storeVars, fsVars>>

\* The machine stops: committed transactions survive (SQLite runs with its
\* default synchronous=FULL), names and data only as far as synchronised.
PowerLoss ==
    /\ Fault
    /\ \E h \in [Names -> BOOLEAN] :
          /\ \A n \in Names : h[n] \in disk[n]
          /\ here' = h
          /\ disk' = [n \in Names |-> {h[n]}]
    /\ \E torn \in SUBSET {a \in Artifacts : ~flushed[a]} :
          content' = [a \in Artifacts |-> IF a \in torn THEN "partial" ELSE content[a]]
    /\ flushed' = [a \in Artifacts |-> TRUE]
    /\ pc' = [p \in Procs |-> "idle"]
    /\ job' = [p \in Procs |-> NoJob]
    /\ repoLock' = [p \in Procs |-> "none"]
    /\ lifeLock' = [p \in Procs |-> "none"]
    /\ UNCHANGED storeVars

-----------------------------------------------------------------------------
(* Keys name generations that existed: they come from an inventory, a      *)
(* pending-operations report or the result of an import.                   *)

KnownEpochs(a) == 1..GenerationOf(a)

ImportStep(p) ==
    \/ ImportOpen(p) \/ ImportRecover(p) \/ ImportRecoverSync(p)
    \/ ImportInspect(p) \/ ImportCopy(p)
    \/ ImportFlush(p) \/ ImportLink(p) \/ ImportSyncArtifacts(p)
    \/ ImportCleanup(p) \/ ImportSyncStaging(p) \/ Discard(p) \/ DiscardSync(p)

RegisterStep(p) == ReconcileOpen(p) \/ Verify(p) \/ VerifySync(p) \/ Register(p)

RemovalStep(p) ==
    \/ RemoveOpen(p) \/ RemoveVerify(p) \/ RecoverOpen(p) \/ RecoverVerify(p)
    \/ Prepare(p) \/ Unlink(p) \/ UnlinkSync(p) \/ Complete(p)

LeaseStep(p) == LeaseVerify(p) \/ LeaseConfirm(p) \/ LeaseRelease(p)

\* One step of an operation that has begun.
Continue(p) ==
    OpenBusy(p) \/ ImportStep(p) \/ RegisterStep(p) \/ RemovalStep(p) \/ LeaseStep(p)

BeginStep(p) ==
    \E a \in Artifacts :
        \/ \E m \in Manifests : ImportBegin(p, a, m) \/ ReconcileBegin(p, a, m)
        \/ \E e \in KnownEpochs(a) :
              RemoveBegin(p, a, e) \/ RecoverBegin(p, a, e) \/ LeaseBegin(p, a, e)

\* Qualification and activation go to the store without the repository's
\* locks; SQLite alone orders them.
StoreCall == ActivationStep /\ UNCHANGED <<fsVars, procVars, faults>>

Next ==
    \/ \E p \in Procs : BeginStep(p) \/ Continue(p) \/ Fail(p) \/ Kill(p)
    \/ PowerLoss
    \/ StoreCall

Spec == Init /\ [][Next]_vars

\* An operation that has begun runs on until it returns or its process dies.
\* Locks are tried and not queued for, so nothing in the code keeps a retry
\* from being refused for ever; the user is assumed to retry recovery and
\* import until they get through the locks (strong fairness).  Leases of other
\* artifacts can still overlap for ever, so the runs that use FairSpec have
\* one artifact or one process.
Fairness ==
    /\ \A p \in Procs : WF_vars(Continue(p))
    /\ \A p \in Procs, a \in Artifacts :
          /\ SF_vars(\E e \in KnownEpochs(a) : RecoverBegin(p, a, e) /\ e = removalEpoch[a])
          /\ SF_vars(\E m \in Manifests : ImportBegin(p, a, m))
    /\ \A p \in Procs : SF_vars(RecoverOpen(p)) /\ SF_vars(ImportOpen(p))

FairSpec == Spec /\ Fairness

-----------------------------------------------------------------------------
(* Properties.                                                             *)

Durable(a) ==
    /\ here[Canonical(a)] /\ disk[Canonical(a)] = {TRUE}
    /\ content[a] = "exact" /\ flushed[a]

\* An installation row, and so an active role, never promises bytes that are
\* missing, incomplete or only in memory: whatever failed or was killed on the
\* way, a power loss in any state leaves the exact bytes of every installed
\* artifact, although roles are activated without the locks that removals run
\* under (artifact_import.rs:217-235, artifact_reconciliation.rs:108-132,
\* artifact_removal.rs:184).
InstalledBytesDurable ==
    /\ TypeOK
    /\ \A a \in Artifacts : Installed(a) => Durable(a)
    /\ \A r \in BoundRoles : Durable(activeBindings[r].artifact)

\* While a lease is held its generation stays installed and its bytes stay in
\* place, under a single name (runtime_artifact_lease.rs:42).
LeaseProtects ==
    \A p \in Procs : pc[p] = "leased" =>
        /\ installedEpoch[job[p].art] = job[p].epoch
        /\ VerifyResult(job[p].art) = "verified"

\* A removal is journalled as completed only once no power loss can bring the
\* canonical name back (removal.rs:68, artifact_removal.rs:244).
CompletionMeansGone ==
    [][\A a \in Artifacts :
         removalPhase[a] = "prepared" /\ removalPhase'[a] = "completed"
            => disk[Canonical(a)] = {FALSE}]_vars

\* A process unlinks canonical bytes only while the journal holds exactly the
\* generation it set out to remove: a delayed or retried removal never deletes
\* the bytes of a reinstallation (removal.rs:58, artifact_removal.rs:244).
UnlinkOnlyPrepared ==
    [][\A p \in Procs, a \in Artifacts :
         pc[p] = "unlink" /\ here[Canonical(a)] /\ ~here'[Canonical(a)] /\ faults' = faults
            => /\ removalPhase[a] = "prepared"
               /\ removalEpoch[a] = job[p].epoch
               /\ a = job[p].art]_vars

\* Every journalled removal is eventually completed once faults stop and
\* recovery and import are retried.  Import matters too: after a power loss a
\* staging name may reappear beside the canonical one, recovery then refuses
\* the file as aliased, and only an import clears .staging/
\* (artifact_removal.rs:79, mutation.rs:439).
RemovalCompletes ==
    \A a \in Artifacts : removalPhase[a] = "prepared" ~> removalPhase[a] = "completed"
=============================================================================
