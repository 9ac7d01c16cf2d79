------------------------ MODULE ArtifactSetLifecycle ------------------------
(***************************************************************************)
(* Managed artifact sets: a directory tree per set under sets/, published  *)
(* by one rename and deleted entry by entry, with installation rows and a  *)
(* removal journal of its own in the state store.                          *)
(*                                                                         *)
(* A set is content-addressed, so its manifest cannot conflict, and no     *)
(* role is ever bound to a set.  Every set operation takes the repository  *)
(* lock and then the lifecycle lock in the same mode, and reads nothing    *)
(* between them that another holder could change: one step takes both.     *)
(* A single-file operation that holds either lock makes the operation fail *)
(* (StorageInUse), which is the Fail action here.                          *)
(*                                                                         *)
(* A tree is the set of its entries that exist, the root included; {} is   *)
(* no tree.  `tree' is what processes see, `disk' every state of it that a *)
(* power loss may leave.  Staging roots have random names and are counted. *)
(***************************************************************************)
EXTENDS Naturals, FiniteSets, FiniteSetsExt

CONSTANTS
    Sets,               \* ArtifactSetId values
    TreeSize,           \* files and directories below a set root
    Procs,              \* processes that use the repository
    NoJob,              \* job of a process that runs no operation
    MaxEpoch,           \* largest epoch the store writes
    MaxStorageEntries,  \* maximum_storage_entries, of sets/
    MaxStagingEntries,  \* maximum_staging_entries, of .set-staging/
    MaxFaults,          \* bound on errors and kills
    MaxPowerLosses      \* bound on power losses

ASSUME SetConstants ==
    /\ IsFiniteSet(Sets)
    /\ TreeSize \in Nat \ {0} /\ MaxEpoch \in Nat \ {0}
    /\ MaxStorageEntries \in Nat /\ MaxStagingEntries \in Nat
    /\ MaxFaults \in Nat /\ MaxPowerLosses \in Nat

VARIABLES
    installedEpoch,  \* installed_artifact_sets: [Sets -> epoch, 0 = no row]
    removalEpoch,    \* artifact_set_removals:   [Sets -> epoch, 0 = no row]
    removalPhase,    \*                          [Sets -> phase of that row]
    adopted,         \* history: sets whose row was put over a root that its
                     \* operation found, and did not publish itself
    tree,            \* [Sets -> entries of sets/set-v1-<id>]
    disk,            \* [Sets -> set of the trees a power loss may leave]
    staging,         \* roots in .set-staging/
    probes,          \* publication probes in sets/
    pc,              \* [Procs -> next step of the running operation]
    job,             \* [Procs -> its arguments]
    lock,            \* [Procs -> mode held on both locks]
    faults, losses   \* faults and power losses so far

rows == <<installedEpoch, removalEpoch, removalPhase, adopted>>
files == <<tree, disk, staging, probes>>
procs == <<pc, job, lock>>
vars == <<rows, files, procs, faults, losses>>

Root == 0
Full == Root..TreeSize
Trees == {{}} \cup {t \in SUBSET Full : Root \in t}

Jobs == [set : Sets, epoch : 0..MaxEpoch, found : BOOLEAN, sealed : BOOLEAN]

Steps ==
    {"idle", "import.inspect", "import.probe", "import.unprobe", "import.stage",
     "import.seal", "import.publish", "import.syncStaging", "import.syncSets",
     "verify", "register", "remove.open", "remove.verify", "recover.open",
     "recover.verify", "prepare", "delete", "delete.sync", "complete",
     "lease.verify", "lease.confirm", "leased"}

TypeOK ==
    /\ installedEpoch \in [Sets -> 0..MaxEpoch]
    /\ removalEpoch \in [Sets -> 0..MaxEpoch]
    /\ removalPhase \in [Sets -> {"none", "prepared", "completed"}]
    /\ adopted \subseteq Sets
    /\ tree \in [Sets -> Trees]
    /\ disk \in [Sets -> SUBSET Trees]
    /\ staging \in 0..MaxStagingEntries /\ probes \in 0..MaxStorageEntries
    /\ pc \in [Procs -> Steps]
    /\ job \in [Procs -> Jobs \cup {NoJob}]
    /\ lock \in [Procs -> {"none", "shared", "exclusive"}]
    /\ faults \in 0..MaxFaults /\ losses \in 0..MaxPowerLosses

Init ==
    /\ installedEpoch = [s \in Sets |-> 0]
    /\ removalEpoch = [s \in Sets |-> 0]
    /\ removalPhase = [s \in Sets |-> "none"]
    /\ adopted = {}
    /\ tree = [s \in Sets |-> {}]
    /\ disk = [s \in Sets |-> {{}}]
    /\ staging = 0 /\ probes = 0
    /\ pc = [p \in Procs |-> "idle"]
    /\ job = [p \in Procs |-> NoJob]
    /\ lock = [p \in Procs |-> "none"]
    /\ faults = 0 /\ losses = 0

-----------------------------------------------------------------------------
(* The set rows of the state store.                                        *)

Installed(s) == installedEpoch[s] # 0

\* Mutant: a reinstallation takes the epoch of the generation it replaces.
NextEpochReused(s) == IF removalPhase[s] = "none" THEN 1 ELSE removalEpoch[s]

NextEpoch(s) == IF removalPhase[s] = "none" THEN 1 ELSE removalEpoch[s] + 1

\* put_artifact_set_installation, where it inserts a row.
PutSetInstallation(s) ==
    /\ removalPhase[s] # "prepared"
    /\ ~Installed(s)
    /\ NextEpoch(s) <= MaxEpoch
    /\ installedEpoch' = [installedEpoch EXCEPT ![s] = NextEpoch(s)]
    /\ UNCHANGED <<removalEpoch, removalPhase>>

\* prepare_artifact_set_removal.
PrepareResult(s, e) ==
    IF Installed(s) /\ installedEpoch[s] # e THEN "StaleInstallation"
    ELSE IF removalPhase[s] # "none" /\ removalEpoch[s] = e
         THEN IF removalPhase[s] = "completed" THEN "AlreadyCompleted" ELSE "AlreadyPrepared"
    ELSE IF ~Installed(s) THEN "StaleInstallation"
    ELSE "Prepared"

PrepareSetRemoval(s, e) ==
    /\ PrepareResult(s, e) = "Prepared"
    /\ removalEpoch' = [removalEpoch EXCEPT ![s] = e]
    /\ removalPhase' = [removalPhase EXCEPT ![s] = "prepared"]
    /\ installedEpoch' = [installedEpoch EXCEPT ![s] = 0]
    /\ UNCHANGED adopted

\* complete_artifact_set_removal, where it updates the journal.
CompleteSetRemoval(s, e) ==
    /\ ~Installed(s)
    /\ removalPhase[s] = "prepared"
    /\ removalEpoch[s] = e
    /\ removalPhase' = [removalPhase EXCEPT ![s] = "completed"]
    /\ UNCHANGED <<installedEpoch, removalEpoch, adopted>>

-----------------------------------------------------------------------------
(* The filesystem.                                                         *)

\* The next entry of a tree goes, in reverse path order and the root last; a
\* power loss may or may not keep the change.
RemoveEntry(s) ==
    LET gone(t) == IF tree[s] = {Root} THEN {} ELSE t \ {Max(tree[s])} IN
    /\ tree' = [tree EXCEPT ![s] = gone(@)]
    /\ disk' = [disk EXCEPT ![s] = @ \cup {gone(t) : t \in @}]

\* PinnedDirectory::sync of sets/: it settles which roots exist.  Only the
\* publisher synchronises the directories inside a tree, and nothing has been
\* deleted from a tree that is full.
SyncSets ==
    disk' = [s \in Sets |->
        IF tree[s] \in {{}, Full} THEN {tree[s]} ELSE {t \in disk[s] : Root \in t}]

StorageEntries == Cardinality({s \in Sets : tree[s] # {}}) + probes

\* exact_entry_capacity of a set root's name; a directory with more entries
\* than the limit is refused whole (raw_entries).
Lookup(s) ==
    IF tree[s] # {} /\ StorageEntries <= MaxStorageEntries THEN "Present"
    ELSE IF StorageEntries >= MaxStorageEntries THEN "Full" ELSE "Available"

\* The root opens and verify_final_tree accepts it; it reads only.
VerifiedTree(s) == Lookup(s) = "Present" /\ tree[s] = Full

-----------------------------------------------------------------------------
(* Processes.                                                              *)

CanShare(p) == \A q \in Procs \ {p} : lock[q] # "exclusive"

\* Mutant: an exclusive lock does not wait for shared ones.
CanLockDespiteLeases(p) == \A q \in Procs \ {p} : lock[q] # "exclusive"

CanLock(p) == \A q \in Procs \ {p} : lock[q] = "none"

Goto(p, step) ==
    /\ pc' = [pc EXCEPT ![p] = step]
    /\ UNCHANGED <<job, lock, faults, losses>>

Stop(p) ==
    /\ pc' = [pc EXCEPT ![p] = "idle"]
    /\ job' = [job EXCEPT ![p] = NoJob]
    /\ lock' = [lock EXCEPT ![p] = "none"]
    /\ UNCHANGED losses

Return(p) == Stop(p) /\ UNCHANGED faults

Begin(p, step, s, e) ==
    /\ pc[p] = "idle"
    /\ CanLock(p)
    /\ pc' = [pc EXCEPT ![p] = step]
    /\ job' = [job EXCEPT ![p] = [set |-> s, epoch |-> e, found |-> TRUE, sealed |-> FALSE]]
    /\ lock' = [lock EXCEPT ![p] = "exclusive"]
    /\ UNCHANGED <<rows, files, faults, losses>>

-----------------------------------------------------------------------------
(* Import.                                                                 *)

ImportBegin(p, s) == Begin(p, "import.inspect", s, 0)

\* A root that exists is only verified; the state of a pending removal is not
\* looked at before the tree is published.
ImportInspect(p) ==
    LET s == job[p].set IN
    /\ pc[p] = "import.inspect"
    /\ \/ Lookup(s) = "Present" /\ Goto(p, "verify") /\ UNCHANGED staging
       \/ /\ Lookup(s) = "Full" \/ (Lookup(s) = "Available" /\ Installed(s))
          /\ Return(p)
          /\ UNCHANGED staging
       \/ /\ Lookup(s) = "Available" /\ ~Installed(s)
          /\ IF staging < MaxStagingEntries
             THEN staging' = staging + 1 /\ Goto(p, "import.probe")
             ELSE Return(p) /\ UNCHANGED staging
    /\ UNCHANGED <<rows, tree, disk, probes>>

\* preflight_no_replace_publication: an empty root is renamed into sets/ ...
ImportProbe(p) ==
    /\ pc[p] = "import.probe"
    /\ staging' = staging - 1
    /\ probes' = probes + 1
    /\ Goto(p, "import.unprobe")
    /\ UNCHANGED <<rows, tree, disk>>

\* ... and deleted there.
ImportUnprobe(p) ==
    /\ pc[p] = "import.unprobe"
    /\ probes' = probes - 1
    /\ SyncSets
    /\ Goto(p, "import.stage")
    /\ UNCHANGED <<rows, tree, staging>>

\* OwnedStagingTree::create, then the directories and the members, copied
\* from a source that matches the manifest (any other source is a Fail).
ImportStage(p) ==
    /\ pc[p] = "import.stage"
    /\ staging' = staging + 1
    /\ Goto(p, "import.seal")
    /\ UNCHANGED <<rows, tree, disk, probes>>

\* Mutant: the staged tree is published without being synchronised.
ImportUnsealed(p) == pc[p] = "import.seal" /\ Goto(p, "import.publish") /\ UNCHANGED <<rows, files>>

\* sync_bottom_up.
ImportSeal(p) ==
    /\ pc[p] = "import.seal"
    /\ pc' = [pc EXCEPT ![p] = "import.publish"]
    /\ job' = [job EXCEPT ![p].sealed = TRUE]
    /\ UNCHANGED <<rows, files, lock, faults, losses>>

\* publish_no_replace: the rename.  A power loss keeps every entry of a tree
\* that was synchronised first, and any part of one that was not.
ImportPublish(p) ==
    LET s == job[p].set IN
    /\ pc[p] = "import.publish"
    /\ Lookup(s) = "Available"
    /\ tree' = [tree EXCEPT ![s] = Full]
    /\ disk' = [disk EXCEPT ![s] =
           @ \cup (IF job[p].sealed THEN {Full} ELSE Trees \ {{}})]
    /\ staging' = staging - 1
    /\ Goto(p, "import.syncStaging")
    /\ UNCHANGED <<rows, probes>>

ImportSyncStaging(p) ==
    /\ pc[p] = "import.syncStaging"
    /\ Goto(p, "import.syncSets")
    /\ UNCHANGED <<rows, files>>

\* Mutant: the publication is not synchronised.
ImportUnsynced(p) == pc[p] = "import.syncSets" /\ Goto(p, "verify") /\ UNCHANGED <<rows, files>>

ImportSyncSets(p) ==
    /\ pc[p] = "import.syncSets"
    /\ SyncSets
    /\ Goto(p, "verify")
    /\ UNCHANGED <<rows, tree, staging, probes>>

-----------------------------------------------------------------------------
(* Reconciliation, and the two steps it shares with import.                *)

ReconcileBegin(p, s) == Begin(p, "verify", s, 0)

Verify(p) ==
    /\ pc[p] = "verify"
    /\ IF VerifiedTree(job[p].set) THEN Goto(p, "register") ELSE Return(p)
    /\ UNCHANGED <<rows, files>>

\* A new row, or nothing: AlreadyPresent, RemovalPending, an exhausted epoch.
Register(p) ==
    LET s == job[p].set IN
    /\ pc[p] = "register"
    /\ \/ /\ PutSetInstallation(s)
          /\ adopted' = IF job[p].sealed THEN adopted \ {s} ELSE adopted \cup {s}
       \/ /\ Installed(s) \/ removalPhase[s] = "prepared" \/ NextEpoch(s) > MaxEpoch
          /\ UNCHANGED rows
    /\ Return(p)
    /\ UNCHANGED files

-----------------------------------------------------------------------------
(* Removal and its recovery.                                               *)

RemoveBegin(p, s, e) == Begin(p, "remove.open", s, e)

\* ArtifactRepository::remove_set: any key but the current installation is
\* answered from the rows alone.
RemoveOpen(p) ==
    /\ pc[p] = "remove.open"
    /\ IF installedEpoch[job[p].set] = job[p].epoch
       THEN Goto(p, "remove.verify") ELSE Return(p)
    /\ UNCHANGED <<rows, files>>

RemoveVerify(p) ==
    /\ pc[p] = "remove.verify"
    /\ IF VerifiedTree(job[p].set) THEN Goto(p, "prepare") ELSE Return(p)
    /\ UNCHANGED <<rows, files>>

RecoverBegin(p, s, e) == Begin(p, "recover.open", s, e)

\* ArtifactRepository::recover_set_removal.
RecoverOpen(p) ==
    LET s == job[p].set IN
    /\ pc[p] = "recover.open"
    /\ IF removalPhase[s] = "prepared" /\ removalEpoch[s] = job[p].epoch /\ ~Installed(s)
       THEN Goto(p, "recover.verify") ELSE Return(p)
    /\ UNCHANGED <<rows, files>>

\* Mutant: a recovery insists on finding the tree.
RecoverNeedsTree(p) ==
    /\ pc[p] = "recover.verify"
    /\ IF VerifiedTree(job[p].set) THEN Goto(p, "prepare") ELSE Return(p)
    /\ UNCHANGED <<rows, files>>

\* A recovery accepts the exact tree or no tree at all.
RecoverVerify(p) ==
    LET s == job[p].set IN
    /\ pc[p] = "recover.verify"
    /\ \/ VerifiedTree(s) /\ Goto(p, "prepare")
       \/ /\ Lookup(s) = "Available"
          /\ pc' = [pc EXCEPT ![p] = "prepare"]
          /\ job' = [job EXCEPT ![p].found = FALSE]
          /\ UNCHANGED <<lock, faults, losses>>
       \/ ~VerifiedTree(s) /\ Lookup(s) # "Available" /\ Return(p)
    /\ UNCHANGED <<rows, files>>

Prepare(p) ==
    LET s == job[p].set
        e == job[p].epoch
    IN
    /\ pc[p] = "prepare"
    /\ \/ PrepareSetRemoval(s, e) /\ Goto(p, "delete")
       \/ PrepareResult(s, e) = "AlreadyPrepared" /\ Goto(p, "delete") /\ UNCHANGED rows
    /\ UNCHANGED files

\* remove_verified_managed_tree: one entry at a time; without a tree,
\* confirm_managed_file_absent.
Delete(p) ==
    LET s == job[p].set IN
    /\ pc[p] = "delete"
    /\ \/ tree[s] # {} /\ job[p].found /\ RemoveEntry(s) /\ UNCHANGED pc
       \/ /\ tree[s] = {}
          /\ pc' = [pc EXCEPT ![p] = "delete.sync"]
          /\ UNCHANGED <<tree, disk>>
    /\ UNCHANGED <<rows, staging, probes, job, lock, faults, losses>>

DeleteSync(p) ==
    /\ pc[p] = "delete.sync"
    /\ SyncSets
    /\ Goto(p, "complete")
    /\ UNCHANGED <<rows, tree, staging, probes>>

Complete(p) ==
    /\ pc[p] = "complete"
    /\ CompleteSetRemoval(job[p].set, job[p].epoch)
    /\ Return(p)
    /\ UNCHANGED files

-----------------------------------------------------------------------------
(* Leases: both locks, shared, around a verified tree.                     *)

LeaseBegin(p, s) ==
    /\ pc[p] = "idle"
    /\ CanShare(p)
    /\ Installed(s)
    /\ pc' = [pc EXCEPT ![p] = "lease.verify"]
    /\ job' = [job EXCEPT ![p] =
           [set |-> s, epoch |-> installedEpoch[s], found |-> TRUE, sealed |-> FALSE]]
    /\ lock' = [lock EXCEPT ![p] = "shared"]
    /\ UNCHANGED <<rows, files, faults, losses>>

LeaseVerify(p) ==
    /\ pc[p] = "lease.verify"
    /\ IF VerifiedTree(job[p].set) THEN Goto(p, "lease.confirm") ELSE Return(p)
    /\ UNCHANGED <<rows, files>>

LeaseConfirm(p) ==
    /\ pc[p] = "lease.confirm"
    /\ IF installedEpoch[job[p].set] = job[p].epoch THEN Goto(p, "leased") ELSE Return(p)
    /\ UNCHANGED <<rows, files>>

LeaseRelease(p) ==
    /\ pc[p] = "leased"
    /\ Return(p)
    /\ UNCHANGED <<rows, files>>

-----------------------------------------------------------------------------
(* Faults.                                                                 *)

Fault == faults < MaxFaults /\ faults' = faults + 1

\* An error or a cancellation.  Before the rename the staging tree is cleaned
\* up, which may fail and leave it; after it the published tree stays.  After
\* "prepare" this is RecoveryRequired.
Fail(p) ==
    /\ Fault
    /\ pc[p] \notin {"idle", "leased"}
    /\ \/ UNCHANGED staging
       \/ pc[p] \in {"import.probe", "import.seal", "import.publish"} /\ staging' = staging - 1
    /\ Stop(p)
    /\ UNCHANGED <<rows, tree, disk, probes>>

Kill(p) ==
    /\ Fault
    /\ pc[p] # "idle"
    /\ Stop(p)
    /\ UNCHANGED <<rows, files>>

\* Committed rows survive; a tree is in one of the states left on disk; a
\* staging root may be lost, or be back where it was renamed from.
PowerLoss ==
    /\ losses < MaxPowerLosses
    /\ losses' = losses + 1
    /\ \E left \in [Sets -> Trees] :
          /\ \A s \in Sets : left[s] \in disk[s]
          /\ tree' = left
          /\ disk' = [s \in Sets |-> {left[s]}]
    /\ staging' \in 0..MaxStagingEntries
    /\ pc' = [p \in Procs |-> "idle"]
    /\ job' = [p \in Procs |-> NoJob]
    /\ lock' = [p \in Procs |-> "none"]
    /\ UNCHANGED <<rows, probes, faults>>

-----------------------------------------------------------------------------
\* Keys name generations that existed.
GenerationOf(s) == IF Installed(s) THEN installedEpoch[s] ELSE removalEpoch[s]
KnownEpochs(s) == 1..GenerationOf(s)

ImportStep(p) ==
    \/ ImportInspect(p) \/ ImportProbe(p) \/ ImportUnprobe(p) \/ ImportStage(p)
    \/ ImportSeal(p) \/ ImportPublish(p) \/ ImportSyncStaging(p)
    \/ ImportSyncSets(p) \/ Verify(p) \/ Register(p)

RemovalStep(p) ==
    \/ RemoveOpen(p) \/ RemoveVerify(p) \/ RecoverOpen(p) \/ RecoverVerify(p)
    \/ Prepare(p) \/ Delete(p) \/ DeleteSync(p) \/ Complete(p)

LeaseStep(p) == LeaseVerify(p) \/ LeaseConfirm(p) \/ LeaseRelease(p)

\* One step of an operation that has begun.
Continue(p) == ImportStep(p) \/ RemovalStep(p) \/ LeaseStep(p)

BeginStep(p) ==
    \E s \in Sets :
        \/ ImportBegin(p, s) \/ ReconcileBegin(p, s) \/ LeaseBegin(p, s)
        \/ \E e \in KnownEpochs(s) : RemoveBegin(p, s, e) \/ RecoverBegin(p, s, e)

Next ==
    \/ \E p \in Procs : BeginStep(p) \/ Continue(p) \/ Fail(p) \/ Kill(p)
    \/ PowerLoss

Spec == Init /\ [][Next]_vars

\* An operation that has begun runs on until it returns or its process dies,
\* and the user retries recovery until it gets through the locks.
FairSpec ==
    /\ Spec
    /\ \A p \in Procs : WF_vars(Continue(p))
    /\ \A p \in Procs, s \in Sets : SF_vars(RecoverBegin(p, s, removalEpoch[s]))

-----------------------------------------------------------------------------
(* Properties.                                                             *)

\* A root under its canonical name holds either the exact tree or what an
\* unfinished removal has left of it, whatever was killed or lost: no import,
\* reconciliation or lease ever meets half a tree that no journal explains
\* (publication.rs:35, artifact_set_removal.rs:276).
PartialOnlyWhileRemoving ==
    /\ TypeOK
    /\ \A s \in Sets : tree[s] \notin {{}, Full} => removalPhase[s] = "prepared"

\* An installed set has its exact tree, through errors, kills and power losses;
\* but a power loss may take one whose root an import or a reconciliation found
\* already there, and registered without synchronising it
\* (artifact_set_import/service.rs:209-221, artifact_set_reconciliation.rs:142).
InstalledTreeExact ==
    \A s \in Sets : Installed(s) => tree[s] = Full \/ (losses > 0 /\ s \in adopted)

\* While a lease is held its generation stays installed and its tree exact
\* (runtime_artifact_set_lease.rs:31-41).
SetLeaseProtects ==
    \A p \in Procs : pc[p] = "leased" =>
        installedEpoch[job[p].set] = job[p].epoch /\ tree[job[p].set] = Full

\* Refinement: sets go through the same turns as single-file artifacts.
StatusOf(s) ==
    IF Installed(s) THEN "installed"
    ELSE IF removalPhase[s] = "prepared" THEN "removing" ELSE "absent"

Registry == INSTANCE InstallationRegistry WITH
    Artifacts <- Sets,
    generation <- [s \in Sets |-> GenerationOf(s)],
    status <- [s \in Sets |-> StatusOf(s)]

\* Whatever processes do to the rows and the trees, each set is installed,
\* revoked and deleted in whole turns with a new generation for each
\* (store/artifact_set.rs:24, store/set_removal.rs:121).
SetImplementsRegistry == Registry!Spec

\* The deletion of a tree stopped between two of its entries.
Interrupted(s) ==
    tree[s] \notin {{}, Full} /\ \A p \in Procs : pc[p] # "delete"

\* Nothing runs, and sets/ has filled up since the tree was deleted: recovery
\* cannot tell a free name from a full directory, nor look into one that a power
\* loss which brought the tree back has left above its limit.
Crowded(s) ==
    /\ Lookup(s) = "Full"
    /\ tree[s] = {} \/ losses > 0
    /\ \A p \in Procs : pc[p] = "idle"

\* Every journalled removal is completed, whether it stopped before the first
\* entry was deleted or after the last.  Only two things hold one up: that its
\* deletion stopped in between, and that sets/ filled up after the whole tree
\* was gone; probes left by killed imports never keep a tree from being deleted
\* (artifact_set_removal.rs:93, tree/staging.rs:163).
WholeRemovalCompletes ==
    \A s \in Sets :
        removalPhase[s] = "prepared" ~>
            removalPhase[s] = "completed" \/ Interrupted(s) \/ Crowded(s)

\* A prepared removal resumes until it is completed, wherever it stopped:
\* what docs/current-state.md:1021 says of recover-set-removal.
SetRemovalCompletes ==
    \A s \in Sets : removalPhase[s] = "prepared" ~> removalPhase[s] = "completed"
=============================================================================
