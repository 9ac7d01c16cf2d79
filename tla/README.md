# Retonr: a verification of its stateful core

Retonr is a local-first copy editor. It keeps the model artifacts it may run in
a repository of its own: files and trees under a managed root, a SQLite state
store that says what is installed, qualified and active, and a protocol of locks,
journals and synchronisations that holds the two together. That protocol is where
a mistake costs the user data or runs unverified bytes, where processes really
race, and where crashes matter; it is the core of this development. Around it
stand the other parts of the program that have state of their own: the migration
of the store, the live qualification of a model, the connection to the model
server, the isolated launch of a runtime, in-place replacement of the user's file,
and the interactive review with its reader thread.

The repository is large, about two hundred thousand lines of Rust without tests.
Most of it is records with their codecs and validation, parsers of byte formats,
platform calls and text processing, all sequential. What is modelled is the
control that is spread over processes, threads, calls and crashes; what is not is
listed at the end with the reason.

## The system and its parts

| Part | State | Operations | What makes it hard | Here |
| --- | --- | --- | --- | --- |
| State store (`crates/model-store`) | manifests, installations, removal journal, qualifications, invalidations, activation decisions, active bindings | `put_*`, `prepare_`/`complete_artifact_removal`, `invalidate`, `activate`, `deactivate` | stale selections, retries, rows that explain one another | `ArtifactState`, `LifecycleProofs` |
| Artifact repository (`crates/app`) | canonical files, staging files, two lock files | `import`, `reconcile`, `remove`, `recover_removal`, runtime lease | processes, kills, errors, power loss, entry limits | `ArtifactLifecycle`, `LifecycleProofs` |
| Managed artifact sets (`app`, `model-store`) | set trees, staging trees, set rows and journal | `import_set`, `reconcile_set`, `remove_set`, `recover_set_removal`, set lease | publication by rename, deletion entry by entry | `ArtifactSetLifecycle`, `ArtifactSetProofs` |
| Schema migration (`app`, `model-store`) | write reservation, backup files, two locks | `migrate`, `inspect_schema` | errors, cancellation and power loss before and after the commit, other writers | `StoreMigration`, `StoreMigrationProofs` |
| Live qualification (`eval`, records of `model-store`, bundles of `app`) | checkpoints, attempt records, bundles, phase rows, verdict | activate, run, close, seal, judge, settle, publish, decide | two owners of one plan, ambiguous commits, nothing is resumed | `QualificationOperation`, `AttemptPlan`, `QualificationProofs` |
| Ollama session (`ollama`) | one connection, byte budget, preflight facts | open, preflight, complete, invalidate | facts that drift between requests, cancellation in flight | `OllamaSession`, `OllamaProofs` |
| Runtime isolation (`runtime-isolation`) | host, guardian, namespace init, target, two sockets | launch, connect, close, drop | any process may die first, deadlines, late answers | `IsolationLaunch`, `IsolationProofs` |
| In-place replacement (`cli`) | source, backup and staging file | `check` and `rewrite` with `--in-place` | a concurrent editor, a second command, kills, failing writes | `InPlaceReplacement`, `InPlaceProofs` |
| Interactive review (`cli`, catalogue of `app`) | pending operation, two channels, terminal modes, the folder | open, reload, navigate, quit; load, answer; panic hook | two threads, panics, a folder that changes | `ReviewSession`, `ReviewProofs` |
| Inventory, runtime admission, rewrite engine, text adapter, parsers, attestor, source builder, contracts, types | none across calls | listing, observing, rewriting, parsing, validating | data rather than control | not modelled |

How the parts interact. An operation of the repository takes the exclusive
repository lock (`.artifact-repository.lock`), then the lifecycle lock
(`.artifact-import.lock`), works on the files, and changes the rows by transactions
of the store. Leases hold the lifecycle lock shared. Qualification and activation
go to the store without either lock. A migration takes both locks and SQLite's
write reservation. A qualification operation takes no lock at all; its first
checkpoint decides who owns the plan.

## Modules

- **InstallationRegistry** is the abstract specification of installations: an
  artifact goes round *absent, installed, removing, absent*, and each turn has a
  new generation. Both the store and the set lifecycle refine it.
- **ArtifactState** is the state store. A variable is a table. Every writing
  method is one IMMEDIATE transaction and so one action; the operators ending in
  `Result` give the answer of a call, with the early returns in the order of the
  code. An installation row is its epoch, since everything else in it follows from
  the content-addressed identity.
- **ArtifactLifecycle** extends the store with processes, locks and a filesystem.
  `pc` is the next step of a process; each step is one effect that a crash or
  another process can separate from the next. `here` is which names exist, `disk`
  what a power loss may make of each, `content` and `flushed` describe the bytes.
  Faults are an error or cancellation (`Fail`, with the cleanup the code does),
  a killed process (`Kill`) and a power loss (`PowerLoss`).
- **ArtifactSetLifecycle** does the same for trees, with the set rows of the store
  in the module. `tree` is the set of entries of a root that exist; `disk` is the
  set of trees that a power loss may leave. Publication is one rename; deletion
  takes the entries in reverse order, the root last. Probes that test whether the
  filesystem can publish, and staging roots, are counted against the limits.
  `adopted` is history: the sets whose row was put over a root that the registering
  operation found there and did not publish.
- **StoreMigration** has the callers of `ArtifactRepository::migrate`, each with
  its steps from the locks over the reservation, the backup (created, copied,
  synchronised, read back), the schema steps and the commit to the confirmation;
  other commands that hold the locks shared or write to the database; and the
  inspection of `retonr doctor`, whose two reads take no lock. A backup file is its
  image, how much of it is written, and whether bytes and directory entry are on
  disk.
- **AttemptPlan** is the abstract specification of a qualification plan: attempts
  are claimed in order, sent at most once, settled at most once, nothing follows a
  failure, and a verdict needs them all.
- **QualificationOperation** has any number of operations prepared for one plan.
  `op[o]` is the memory of one (`ActiveGenerationQualificationOperation`); the
  other variables are durable rows, bundle directories and `sent`, the history of
  requests. Activation, each candidate with its closeout, the ledger, the target
  receipt sets, the judge runs, the settlements, both publications and the verdict
  are actions; commits may fail with or without their row and an operation may
  vanish anywhere. Finalizing a prepared operation before any traffic writes
  nothing, and is such an end.
- **OllamaSession** is the retained single-connection session with its scripts of
  requests, the one-shot preflight and the runtime probe. `facts` is what the
  server would answer now; it drifts. Every wait may end with an answer, an error,
  a timeout or a cancellation.
- **IsolationLaunch** has four processes (`host`, `guardian`, `init`, `target`) and
  the four message queues of their two sockets. `Kernel` delivers kills and death
  signals and empties the namespace after its init.
- **InPlaceReplacement** has commands that step through `resolve_destination`,
  the read and `commit` of `check/replace.rs`. `source`, `backup` and `staging`
  are the files at the three names, each an inode with bytes, mode and link count.
  A write can fail and leave part of its bytes (`WriteBackup`, `WriteStaging`); a
  command can be killed or meet an I/O error before any step (`Stop`); another
  program rewrites, replaces, removes, links or re-protects the source (`Edit`);
  the user removes what an ended command left (`Discard`). `installed`,
  `overtaken` and `discarded` are history, read by properties only.
- **ReviewSession** has the thread of the terminal loop (`ui`), the reader
  (`thread`) and the two channels between them (`worker`), each with the steps
  between which the other can act. `term` is the terminal: the modes that are on,
  those the guard will leave, those whose restoring call failed, and the lock of
  the render gate. A load lists the folder, reads the entries, selects one and
  reads it again, while `Edit` changes the folder. Failing calls, failing loads
  and panics are the actions of `Fault`. `panicAborts` is the build: the release
  profile aborts on a panic, others unwind.
- **LifecycleProofs** (of the state store and of the artifact repository),
  **ArtifactSetProofs**, **StoreMigrationProofs**, **QualificationProofs**,
  **OllamaProofs**, **IsolationProofs**, **InPlaceProofs** and **ReviewProofs** hold
  the theorems. Each states its inductive invariant first, then facts about the
  operators, then one lemma for each action, then the theorems.
- **MC...** modules give model values, one for each specification.

Operators named as mutants stand before the definition they differ from in one
respect. They state a plausible mistake and are not used by the specifications.

### Abstractions

- The managed root is changed by the repository alone. The checks that a path, a
  handle and a link count still belong together are kept where their outcome
  depends on the repository's own steps (an aliased file, a full directory) and
  left out where they detect a foreign change.
- A source that does not match its manifest, an I/O error and a cancellation are
  one action, `Fail`: each makes the operation return through the same cleanup.
- Committed transactions survive a power loss: the store leaves SQLite's
  `synchronous` at its default, FULL.
- A set operation takes both locks in one step, because nothing is read between
  them. The two lifecycles are not composed: that the other kind holds a lock is a
  `Fail` in either.
- A database, in StoreMigration, is its schema version and the number of
  transactions committed to it. That is enough to tell a lost write, a half
  migrated schema and a stale backup apart; what each schema step does to the
  tables is not modelled.
- In QualificationOperation the content of records and bundles is abstracted to
  their presence and outcome. Deadline, cancellation and drifted authority are one
  nondeterministic refusal wherever the code checks them.
- In OllamaSession a response is the fact it reports and a body size. HTTP syntax
  is left out; a malformed response is an error of its request.
- In IsolationLaunch time is a choice: any wait may reach its timeout. Mounts,
  capabilities and filters are one step (`reduced`), since the model has nothing to
  tell them apart; their order against the spawn and the handshake is kept.
- In-place replacement is modelled on Linux, the one platform where
  `Protection::capture` succeeds. Symbolic links are left out: they are refused
  where an aliased file is. A kill is modelled and a power loss is not, since
  `commit` does not synchronise the directory and no document says what survives.
- A review is of a folder and has no candidate folder; the candidate is discovered
  and read as the source is. A document that is in the folder is a supported one.
  Panes, scrolling and drawing change nothing but what is on the screen. A panic
  of the terminal thread itself is not modelled.

## What the runs check

| Run | Instance | Shows |
| --- | --- | --- |
| artifact_state | 2 artifacts, 2 manifests, 2 roles, 3 qualifications, 3 decisions, epochs to 2 | the store never reaches rows it would refuse (`RemovalStateSound`), active pointers stay valid (`ActiveBindingsSound`), the decision log explains them (`DecisionsExplainBindings`), the registry is refined (`ImplementsRegistry`) |
| artifact_lifecycle | 1 artifact, 2 processes, 3 faults, epochs to 2, fairness | installed and active bytes are exact and durable (`InstalledBytesDurable`), leases protect (`LeaseProtects`), completion means gone (`CompletionMeansGone`), only the journalled generation is unlinked (`UnlinkOnlyPrepared`), every journalled removal is completed (`RemovalCompletes`) |
| artifact_set | 1 set of 3 entries, 2 processes, 3 faults, 1 power loss, 2 entries in `sets/`, fairness | a partial tree only during a removal (`PartialOnlyWhileRemoving`), an exact tree behind each row, which a power loss can only take where the row was put over a root found there (`InstalledTreeExact`), leases (`SetLeaseProtects`), refinement of the registry (`SetImplementsRegistry`), completion unless a deletion stopped between two entries or `sets/` filled up after it (`WholeRemovalCompletes`) |
| artifact_set_resume | 1 set of 2 entries, 1 process, 1 fault, fairness | **violated** (`SetRemovalCompletes`): see the first disagreement |
| store_migration | 2 calls, current schema 2, 1 foreign write, 1 cancellation, 1 fault, an inspection, fairness | no schema change without a durable image of exactly what it replaced (`MigrationBackedUp`), a reported backup is kept (`ReportedBackupKept`), failed calls leave nothing but what a fault left (`UnreportedBackupsBounded`), no write is lost and no half schema is visible (`OnlyWholeMigrations`), what an inspection says is true or explained by a migration in between (`InspectionSound`), calls return and a legacy schema is migrated (`MigrationCompletes`) |
| qualification | 2 operations, 4 attempts, 2 repetitions | what an owner counts as settled is durable (`SettledDurably`), a completed record has its bundle (`CompletedHasBundle`), a verdict stands on its evidence (`VerdictStandsOnEvidence`), all operations together implement AttemptPlan (`ImplementsPlan`) |
| ollama_session | 1 model, 3 calls (a preflight and two completions, of which either may fail), 2 changes of facts, fairness | receipts name exact spans of responses that agree with the preflight (`ReceiptFactsMatchPreflight`), nothing escapes the observer or the byte budget and nothing is sent after a failure (`EveryResponseObserved`), every operation ends (`OperationEnds`) |
| isolation_launch | up to 2 inputs, 3 calls, fairness | the target starts confined and with its inputs (`TargetConfined`), closed means gone (`CloseMeansGone`), one request has one answer (`ChannelAnswersRequest`), the host returns although the helper hangs (`HostReturns`), no target is left behind by a helper that does not (`NoOrphanedTarget`) |
| in_place | 2 commands, 3 texts, 2 modes, 2 edits | the source is complete, bytes are never under another policy and the original is in the backup from the rename on (`OriginalRetained`), only validated bytes are replaced (`ReplacesValidatedBytes`), files of another command are left alone (`OwnFilesOnly`) |
| in_place_retry | 2 commands, 2 texts, 2 modes, 1 edit | **violated** (`DriftIsRetryable`): see the second disagreement |
| review_session | 2 documents, 2 texts, 2 operations, 1 edit, 1 fault, both builds | one load is under way, where the screen waits for it (`OneOperationInFlight`), the terminal is restored before the reader is joined and no frame follows the panic hook (`TerminalHandedBack`), what is shown is one document of its catalogue, and a reload keeps it (`ShownMatchesCatalogue`) |
| review_session_live | 1 document, 2 operations, 2 faults, fairness | a load is answered or the session ends (`LoadingEnds`); a session that is left ends (`SessionEnds`) |

Bounds. Two epochs are one reinstallation, which is what a stale selection needs
to meet; the store's `MaxEpoch` is also the boundary at which the epoch is
exhausted, so the limit itself is reached. Two processes are a remover and an
importer or a lease, and a third could only wait, since every change is made under
an exclusive lock. Three faults are a kill that leaves something behind, a power
loss that makes something else of it, and one more during recovery; in the set run
they stop a removal and leave two probes, which fill `sets/`. A tree of three entries
has a first, a middle and a last deletion.
Two migrating calls contend for the locks and follow one another; schema versions
0 to 3 around a current 2 are an uninitialised, a legacy, a current and a future
database; three directory entries, one of them foreign, leave room for a backup
that a fault left behind and the one of the retry, which fills the directory. Four
attempts are two of the target system and two of the baseline, so that target and baseline positions differ; two operations are
an owner and a rival, before, during and after. `SessionBytes` of 22 is enough
for two completions with small bodies, and larger ones run out of budget in the middle
of either. Three calls on a lease are a connect,
a second connect and a close.
Two operations of a review are the first load and a reload or a step to the other
document, and reach the end of the counter, which in the code is 2^64 - 1; one
edit is enough to change, remove or insert a document anywhere in a load. Two
in-place commands overlap at any of their steps, or follow one another; three
texts tell the original, the result and an edit apart. All faults are bounded by a
counter, as a system that never stops failing need not complete anything.

Deadlock is checked for the artifact runs. The others may really stop: commands,
sessions, operations and launches end.

Fairness. Each assumption is one the scheduling of the code justifies, and the
environment is never forced to help:

- artifact runs: an operation that has begun runs on until it returns (weak
  fairness of each process's steps), as the code has no wait inside an operation.
  Locks are tried and never queued for, so that a retry gets through is an
  assumption on the user (strong fairness of starting a recovery and an import and
  of taking the lifecycle lock), not a fact about the code. These runs have one
  artifact, because leases of other artifacts could overlap for ever;
- store_migration: a call goes on and callers retry. Other commands may keep locks
  and reservations for ever: that they end is an antecedent of the second half of
  `MigrationCompletes`, not an assumption of the specification;
- ollama_session: the client goes on and its waits have timeouts; the server may
  be silent for ever;
- isolation_launch: the kernel delivers signals and a call of the host goes on, as
  its waits have deadlines. Nothing is assumed of the helper in `HostReturns`; for
  `NoOrphanedTarget` its not hanging is an antecedent (`HelperRuns`);
- review: both threads are scheduled (weak fairness of `Ui` and `Reader`):
  `event::poll` returns after 50 ms, and a load is bounded in entries, depth and
  bytes. Nothing is assumed about keys, signals, edits or faults.

## Disagreements between documents and code

1. `docs/current-state.md:1021` says that exact prepared set removals resume
   through `recover-set-removal`. A tree whose deletion stopped between two entries
   is refused by the verification that recovery starts with
   (`artifact_set_removal.rs:235`), and by import and reconciliation as well;
   nothing in the program completes that removal.
2. `docs/interfaces.md:78` says source drift is retryable. Drift that is found by
   the second comparison, after the backup and the staging file were written
   (`check/replace.rs:176`), leaves both in place, and the retry is refused with
   `output_exists` until the user removes them. No text is lost by it.

Smaller ones that were met while modelling and have no run of their own:

- `docs/architecture.md:1101` says a prepared removal resumes wherever it stopped.
  If it stopped after the unlink and other artifacts have since filled the directory
  to its entry limit, recovery is refused with `StorageEntryLimitExceeded`
  (`artifact_storage/mutation.rs:208`) until one of them is removed. Run
  artifact_lifecycle leaves room, and there the property holds.
- `artifact_repository/inspect.rs:14` calls an incompatible schema "future, corrupt,
  or otherwise unusable". `inspect_connection` (`migration.rs:231`) reads version
  and shape without a transaction, so a migration that commits in between gives the
  same answer for a schema that is fine. `InspectionSound` states what does hold.
- `active/candidate_closeout.rs:70` says any failure of a closeout consumes the
  pending ordinal. If the failed record itself cannot be committed
  (`candidate_closeout.rs:246`), the owner is terminal and the ordinal stays
  pending. No later call can use it.
- `generation_evidence_repository/admission.rs:30` describes an orphan as a bundle
  without terminal metadata. Admission reads the rows first and the directories
  later (`active/admission.rs:27`), so an attempt that a rival completes in between
  is reported as an orphan too. The activation is refused either way.
- Documented nowhere: registering a set whose root is already there verifies it by
  reading and does not synchronise `sets/`. If the import that renamed it stopped
  before its own synchronisation, a power loss can take the tree of an installed
  set. `InstalledTreeExact` excepts exactly these sets, and only after a power loss.
- Documented nowhere: a probe that a killed import left in `sets/` is never cleared.
  Once such probes fill the directory, a removal whose tree is already gone cannot be
  recovered, as the lookup of the free name is refused. `WholeRemovalCompletes` names
  that case (`Crowded`), and the run reaches it.

## What is proved

Every safety property of a passing run is a theorem: invariants, action properties
and the three refinements. TLAPS checks them for every value of the constants that
satisfies the named assumptions, so for any number of processes, calls, documents,
messages, faults and retries, where a run has two or three. They are about `Spec`
(`StoreSpec` for the store), and so about each specification with fairness too.
TLC evaluates each assumption in a run whose module extends the one that states it,
and the inductive invariants were model-checked before they were proved.

Further theorems go beyond what the runs name. Their properties are defined in the
proof modules, next to the invariants they need, and were model-checked on the
instances of the runs before they were proved. Most answer one of three questions
that a reader of the code asks. Can a check that is repeated later fail because of
another actor, or only because of the environment? Does a result that was reported
stay true? Is what one component assumes of another what that one guarantees?

The assumptions say that bounds are natural numbers, that limits which are positive
in the code are positive, that markers such as `None` and `"writer"` are none of the
values they stand beside, that a session has at least one model and none twice, and
that the managed sets, the documents of a folder and the operations prepared for a
plan are finitely many. None restricts a size.

**The state store** (`LifecycleProofs`), for all sets of artifacts, manifests,
roles, qualifications and activation identities and every positive `MaxEpoch`:
`TypeCorrect`, `InvariantHolds`, `RemovalStateCorrect`, `ActiveBindingsCorrect`,
`DecisionsCorrect`, and `RegistryRefined` (the store implements
InstallationRegistry). The inductive invariant `StoreInv` is the types,
`RemovalStateSound`, `ActiveBindingsSound`, and `JournalEpochs`: the journal has an
epoch exactly when it has a phase. None is inductive alone. That an installation's
epoch is one above the journal's needs the journal's epoch to be a real one; that
bindings stay valid under `PrepareArtifactRemoval` needs its check of all bindings;
that they stay valid under `PutInstallation` and `CompleteArtifactRemoval` needs
the removal state. `DecisionsExplainBindings` is inductive relative to the types,
by cases on whether a new decision is the latest of its role.

**The artifact repository** (`LifecycleProofs`), for any number of artifacts,
processes, faults and storage entries: `InstalledDurable`, `LeasesProtect`,
`CompletedGone` and `UnlinkPrepared`, the four safety properties of the run
artifact_lifecycle. The invariant `LInv` is `StoreInv`, the types, that an
exclusive lifecycle lock excludes every other, that installed bytes are durable,
and `At(p)`: what a process has established when it is at a step (the bytes are
exact before the synchronisation and durable before the registration; the journal
holds its generation from the unlink to the completion; the name is gone before
the second synchronisation and cannot come back before the completion; a lease has
verified its bytes). Files and installation rows change only in steps of the
process that holds the lock exclusively, and then no one else has established
anything (`ExclusiveStep`); all other steps leave both alone (`QuietStep`).
Activations, which take no lock, are quiet in this sense.

`RepositoryRefinesStore` shows that the repository is a client of the store and
nothing more: `Spec => StoreSpec`. Each step of a process is a store call or leaves
the rows alone, and the keys that an operation has carried across its steps are
ones the store accepts there (from `LInv`). So `RepositoryKeepsStore`: every theorem
about the store holds of the composed system. `PublicationAtomic` says that a
canonical name never stands for partial or wrong bytes, on any disk that a power loss
may leave; `ChecksHold` that the checks past the point of decision never fail because
of another operation. Both need `PInv`, which adds the states of the staging file and
the free canonical name to what an import has established.

**In-place replacement** (`InPlaceProofs`), for any number of commands, texts,
modes and edits: `OriginalKept`, `ValidatedReplaced` and `OthersFilesKept`, the
properties of the run in_place. The commands share no lock; the argument is that
the backup works as one. It is created exclusively and stays until its command has
ended, so at most one command is past its creation (`Owned`), and the staging file
and the rename are that command's alone. The assumptions say that `None` is no
file, text, outcome or policy and that texts and modes are distinct from the
markers for empty and partial files.

`BackupExcludes` states that lock as a property. `CommandsSerialiseTheorem` is what
it buys: while no other program edits the file, each rename replaces exactly the bytes
that its command read, so that two commands on one file never lose a result.
`OutcomesTell`: "replaced" means that the rename was done, and the refusals of commit
mean that it was not; only usage and operational errors and kills leave it open.

**The qualification of a model** (`QualificationProofs`), for any number of
operations, attempts, target attempts and repetitions: `Invariance`,
`AttemptsSentOnce` (no attempt reaches the model twice and at most one operation ever
owns attempts), `CompletedBundles`, `VerdictEvidence`, `PlanRefinement` and
`SettledLedger`. The invariant `Inv` says what control implies of memory, what is
durable of the attempt an operation holds and of those before it, the order of rows
and of phases, and that there is one owner. Its heart: only an
operation that found no checkpoint can insert the first one, so the first
checkpoint decides the owner although nothing locks the repositories, and every
later row of an attempt is the owner's; an operation that owns nothing is
indifferent to all of them. The ledger needs one more invariant, that the outcomes
retained in memory are the durable records of the targets settled so far, counted
by `TargetCount`.

Two more theorems are about publication. `PublishesAloneTheorem`: nothing locks the
evidence repository, yet the rename of the probe and that of the bundle find the name
free, the probe that is removed is the operation's own, and the settlement finds the
bundle that was verified and no record of the attempt. The invariant `DInv`
(`ClosingInvariant`) ties each step of a closeout to the directory the operation's own
previous step left; it survives the steps of the others because a step changes only
the directory of the attempt its operation holds, and there is one owner.
`EvidenceForGoodTheorem`: no step takes back or overwrites a checkpoint, a record, a
bundle or a row of a phase.

**Managed artifact sets** (`ArtifactSetProofs`), for any number of sets, entries of
a tree, processes, faults and power losses: `PartialOnlyWhileRemovingTheorem`,
`InstalledTreeExactTheorem`, `SetLeaseProtectsTheorem` and `SetRegistryRefined`.
The invariant `SInv` has four parts besides the types. `Locks`: whoever is at a step
of an exclusive operation holds the lock, and then no one else holds any. `RowsSound`:
a prepared removal has revoked its installation. `DiskSound`: without a removal under
way a tree is whole or gone, and so is every tree that a power loss could leave; the
property says nothing of the latter, so `PowerLoss` keeps it from being inductive.
`Work(p)`: what a process has established at its step, above all that the
journal holds its generation throughout a deletion and that the disk has no other
tree than the empty one before the completion is recorded. `AInv` adds what power
losses leave of an installed set (`AdoptionInvariant`): the process that sealed a tree
has synchronised its name before it registers it (`Publication`), so a set outside
`adopted` has its whole tree on disk in every outcome, and nothing deletes from it
while it is installed (`Registered`).

`SetCompletedGone` and `SetDeletesJournalledTheorem` are the counterparts for sets of
`CompletedGone` and `UnlinkPrepared`. `SetChecksHoldTheorem` covers the repeated
checks; its invariant `CInv` adds to `SInv` what an operation found at its start and
that no installation has the generation of the removal before it.

**Schema migration** (`StoreMigrationProofs`), for any number of callers, schema
versions, directory entries, writes, cancellations and faults:
`MigrationBackedUpTheorem`, `ReportedBackupKeptTheorem`,
`UnreportedBackupsBoundedTheorem`, `InspectionSoundTheorem` and
`OnlyWholeMigrationsTheorem`. Two exclusions carry it. The repository lock lets one
call past its first steps, so no other changes the file it writes; SQLite's
reservation keeps the database as it was when the call inspected it, so the image in
the file is still what COMMIT replaces. The invariant `MInv` ties each phase of a
call to what it holds (`Guarded`), to the database (`Reserved`), to its file
(`BackedUp`) and to what it remembers (`Remembers`). `BackupsSound` adds that no call
will still remove the file that a replaced database is kept in, without which a
cleanup would break `MigrationBackedUp`; `CountSound` counts the file in the making,
of which there is one at most, apart from those that faults left.

`MigrationOutcomesTell`: what a call reports stays true for good, through later calls,
kills and power losses. `MigrationChecksHoldTheorem`: from the complete image on, no
check fails because of another call or connection.

**The Ollama session** (`OllamaProofs`), for any number of models, operations and
changes of facts and every byte budget: `ReceiptFactsMatchPreflightTheorem` and
`EveryResponseObservedTheorem`. There is one numbering of responses: what was sent,
drained and observed and what the transport counts agree with it (`Accounts`).
`Course` says where in its script an operation is, and so which responses are its
own; `Accepted` that those it went past agree with the facts of the preflight;
`Recorded` that these facts are responses of the preflight itself; `Contiguous`
that a span begins where the last one ended. Then a receipt, made from the
first and the last number of an operation, covers exactly the responses it checked
(`Evidence`). `Course` needs the `attempted` flag of a
session: without it a second preflight could begin behind the responses of the first.

`PreflightStandsTheorem` says what the facts themselves are, those a session compares
with and those its receipts carry: the answers of its one preflight, read before and
after the models were shown, with the digests that were bound.
`NothingAfterDropTheorem`: once a session has failed, was invalidated or has
finished, no call on it writes, observes or returns anything.

**Runtime isolation** (`IsolationProofs`), for any number of inputs and calls:
`TargetConfinedTheorem`, `CloseMeansGoneTheorem` and `ChannelAnswersRequestTheorem`.
Each socket carries one fixed conversation, and a queue is the part of it that was
said and not yet heard (`DownSound`, `InnerSound`, with the counts each process
keeps). So a helper that counts its inputs has received exactly those inputs.
`Stages` says what each process has done when another is in a phase, `UpSound` that
there is one answer at most and whose it is, and `Closing` that what a closing host
has seen to end cannot come back.

`EveryMessageExpectedTheorem` completes the picture: whoever reads from a socket finds
exactly the message it waits for, in every order of steps and deaths, so the error
branches for another message answer a foreign sender and never a race. It needs
`EInv`, the third conversation: what the init has answered is what the guardian has
not yet understood (`OuterSound`), and a capture lies in a socket only if it was asked
for (`CaptureSound`). `NoneComesBackTheorem` says that no process of a launch is
started twice, and with it `ClosedForGoodTheorem` that the report of `close` stays
true.

**Interactive review** (`ReviewProofs`), for any finite set of documents and any
number of texts, operations, edits and faults, in both builds:
`OneOperationInFlightTheorem`, `TerminalHandedBackTheorem` and
`ShownMatchesCatalogueTheorem`. `Flight` says that the operation the screen waits
for is in exactly one place: the request channel, the reader or the answer channel.
`Terminals` says which of guard and hook has yet to leave which mode, and who has the
render gate. `Catalogue` and `Reloading` follow a load from its request to what is
shown; that a reload shows the same document needs that selection by position finds
the document that was counted there, which is a lemma on ranks in a finite set of
integers.

`ChannelsNeverFullTheorem`: neither bounded channel is ever found full, also while
the session shuts down and the screen no longer looks, and no load that the screen
begins is refused; the branches of the code for it are unreachable.
`ExitTellsTheorem`: success means that the user quit, did not interrupt and has every
terminal mode back, and an error or an abort has a failed call or a panic behind it.
They need `OnePlace`, which is `Flight` without the screen, and `Reasons`: why a
reader may be gone, a mode stuck or a loop left.

Only model-checked is liveness: `RemovalCompletes`, `WholeRemovalCompletes`,
`MigrationCompletes`, `OperationEnds`, `HostReturns`, `NoOrphanedTarget`,
`LoadingEnds` and `SessionEnds`. Liveness under fairness and ENABLED are out of the
prover's reach. The two violated properties are of course not theorems.

## Not modelled

- **Composition of the two artifact lifecycles.** Single files and sets share the
  two lock files and nothing else: their rows, directories and limits are separate.
  A holder of the other kind appears as a refused lock.
- **Inventory and pending reports.** They read rows and names under the shared
  lock and change neither.
- **Runtime admission, managed judge and attestor.** One process reads kernel and
  runtime facts, compares them and goes on or stops. The session they send traffic
  through is in OllamaSession; what an operation does with a judge's answer is in
  QualificationOperation. The comparisons themselves are data.
- **The other evidence publishers.** They stage and rename a tree as
  QualificationOperation's bundle does and keep no further state.
- **Records, codecs, contracts and domain types** (`model`, `types`, most of
  `model-store`). Immutable values and their validation; selection and invalidation
  records of a qualification are written and not yet read back by anything.
- **Rewrite engine, lint and text adapter.** One sequential call over text. Their
  properties are about characters, numerals and offsets, which a model over a small
  alphabet would transliterate rather than abstract.
- **Package reconstruction and source builder.** Parsers and compilers of byte
  formats and a build tool that runs once and sequentially.
- **New output files and directory batches of the command line; build and
  bootstrap modes of the isolation helper; candidate folders and `--plain` of the
  review.** Shorter variants of what is modelled, without the second actor.
- **The pooled Ollama backend.** A sequence of independent requests.

## Next steps

1. A composition of the two artifact lifecycles over the lock files they share, to
   replace the refused lock by the operation that holds it.
2. Liveness in a prover that has ENABLED: from every state that the invariants
   allow, the steps a completion needs are enabled one after the other.
