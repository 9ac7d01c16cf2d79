--------------------------- MODULE ArtifactState ---------------------------
(***************************************************************************)
(* The SQLite artifact state store of crates/model-store: immutable        *)
(* manifests, installation rows with a generation (epoch), the removal     *)
(* journal, qualification records and their invalidations, activation      *)
(* decisions and the active binding of each role.                          *)
(*                                                                         *)
(* Every writing method of ArtifactStateStore runs in one IMMEDIATE        *)
(* transaction, so a method is one atomic action here.  A method that      *)
(* returns an error writes nothing.  Which result a call gives is an       *)
(* operator of its own (PutInstallationResult, PrepareResult, ...): the    *)
(* order of its conditions is the order of the early returns in the code.  *)
(*                                                                         *)
(* Data abstraction.  ArtifactId is the digest of the bytes                *)
(* (ArtifactManifest::validate), so one identity names one content.  An    *)
(* InstalledArtifact is determined by its manifest and the managed storage *)
(* key derived from the digest, so an installation row is its epoch alone. *)
(* A QualificationId is the digest of the whole record, so what a          *)
(* qualification says is a constant function of its identity.              *)
(***************************************************************************)
EXTENDS Naturals, Sequences

CONSTANTS
    Artifacts,          \* ArtifactId values
    Manifests,          \* manifest contents (metadata may differ for one id)
    NoManifest,         \* no manifest row
    Roles,              \* ArtifactRole values
    Qualifications,     \* QualificationId values
    QualifiedArtifact,  \* [Qualifications -> Artifacts], record.artifact_id
    AuthorizedRoles,    \* [Qualifications -> SUBSET Roles], record.authorizes
    NoBinding,          \* no active binding row
    ActivationIds,      \* caller-supplied idempotency identifiers
    MaxEpoch            \* largest epoch the store writes (i64::MAX)

ASSUME ManifestAssumption == NoManifest \notin Manifests

ASSUME QualificationAssumption ==
    /\ QualifiedArtifact \in [Qualifications -> Artifacts]
    /\ AuthorizedRoles \in [Qualifications -> SUBSET Roles]

\* ActiveArtifactBinding; the role is the key of the row.
Bindings == [artifact : Artifacts, qualification : Qualifications]

ASSUME BindingAssumption == NoBinding \notin Bindings

ASSUME EpochAssumption == MaxEpoch \in Nat /\ MaxEpoch >= 1

VARIABLES
    manifests,       \* artifact_manifests:  [Artifacts -> Manifests or NoManifest]
    installedEpoch,  \* installed_artifacts: [Artifacts -> epoch, 0 = no row]
    removalEpoch,    \* artifact_removals:   [Artifacts -> epoch, 0 = no row]
    removalPhase,    \*                      [Artifacts -> phase of that row]
    qualifications,  \* qualification_records: SUBSET Qualifications
    invalidated,     \* qualification_invalidations: SUBSET Qualifications
    activeBindings,  \* active_bindings:     [Roles -> Bindings or NoBinding]
    decisions        \* activation_decisions, in commit order

installVars == <<manifests, installedEpoch, removalEpoch, removalPhase>>
activationVars == <<qualifications, invalidated, activeBindings, decisions>>
storeVars == <<installVars, activationVars>>

\* ActivationDecision; a deactivation carries NoBinding for the identities.
Decisions ==
    [id : ActivationIds, role : Roles, binding : Bindings \cup {NoBinding}]

StoreTypeOK ==
    /\ manifests \in [Artifacts -> Manifests \cup {NoManifest}]
    /\ installedEpoch \in [Artifacts -> 0..MaxEpoch]
    /\ removalEpoch \in [Artifacts -> 0..MaxEpoch]
    /\ removalPhase \in [Artifacts -> {"none", "prepared", "completed"}]
    /\ qualifications \in SUBSET Qualifications
    /\ invalidated \in SUBSET Qualifications
    /\ activeBindings \in [Roles -> Bindings \cup {NoBinding}]
    /\ decisions \in Seq(Decisions)

StoreInit ==
    /\ manifests = [a \in Artifacts |-> NoManifest]
    /\ installedEpoch = [a \in Artifacts |-> 0]
    /\ removalEpoch = [a \in Artifacts |-> 0]
    /\ removalPhase = [a \in Artifacts |-> "none"]
    /\ qualifications = {}
    /\ invalidated = {}
    /\ activeBindings = [r \in Roles |-> NoBinding]
    /\ decisions = <<>>

-----------------------------------------------------------------------------
(* Reading the rows.                                                       *)

Installed(a) == installedEpoch[a] # 0

\* Mutant: a reinstallation takes the epoch of the generation it replaces.
NextEpochReused(a) == IF removalPhase[a] = "none" THEN 1 ELSE removalEpoch[a]

\* ArtifactInstallationEpoch::first, and next of the last removed epoch.
NextEpoch(a) == IF removalPhase[a] = "none" THEN 1 ELSE removalEpoch[a] + 1

\* validate_removal_state: the consistency check every transaction starts with.
ValidRemovalState(a) ==
    /\ Installed(a) \/ removalPhase[a] # "none" => manifests[a] # NoManifest
    /\ Installed(a) => /\ removalPhase[a] # "prepared"
                       /\ installedEpoch[a] = NextEpoch(a)

BoundRoles == {r \in Roles : activeBindings[r] # NoBinding}

\* rewrite_model::activate: the qualification is for this artifact and role,
\* and has not been invalidated.
Authorizes(q, a, r) ==
    /\ QualifiedArtifact[q] = a
    /\ q \notin invalidated
    /\ r \in AuthorizedRoles[q]

\* validate_binding, with the byte check of the caller succeeding.
ValidBinding(r) ==
    LET b == activeBindings[r] IN
    /\ ValidRemovalState(b.artifact)
    /\ Installed(b.artifact)
    /\ b.qualification \in qualifications
    /\ Authorizes(b.qualification, b.artifact, r)

ActiveArtifact(a) == \E r \in BoundRoles : activeBindings[r].artifact = a

\* validate_no_active_binding: it revalidates every binding, not only those
\* that name this artifact.
NoActiveBinding(a) ==
    \A r \in BoundRoles : ValidBinding(r) /\ activeBindings[r].artifact # a

-----------------------------------------------------------------------------
(* Manifests and installations.                                            *)

\* put_manifest: insert_immutable of a manifest without an installation.
PutManifest(a, m) ==
    /\ manifests[a] = NoManifest
    /\ manifests' = [manifests EXCEPT ![a] = m]
    /\ UNCHANGED <<installedEpoch, removalEpoch, removalPhase, activationVars>>

\* put_installation: its result.
PutInstallationResult(a, m) ==
    IF ~ValidRemovalState(a) THEN "CorruptRecord"
    ELSE IF removalPhase[a] = "prepared" THEN "RemovalPending"
    ELSE IF ~Installed(a) /\ ActiveArtifact(a) THEN "CorruptRecord"
    ELSE IF manifests[a] \notin {m, NoManifest} THEN "ImmutableConflict"
    ELSE IF Installed(a) THEN "AlreadyPresent"
    ELSE IF NextEpoch(a) > MaxEpoch THEN "InstallationEpochExhausted"
    ELSE "Inserted"

PutInstallation(a, m) ==
    /\ PutInstallationResult(a, m) = "Inserted"
    /\ manifests' = [manifests EXCEPT ![a] = m]
    /\ installedEpoch' = [installedEpoch EXCEPT ![a] = NextEpoch(a)]
    /\ UNCHANGED <<removalEpoch, removalPhase, activationVars>>

-----------------------------------------------------------------------------
(* The removal journal.  A selection is an artifact and an epoch.          *)

\* Mutant: the active bindings are not consulted.
PrepareIgnoresBindings(a, e) ==
    IF ~ValidRemovalState(a) THEN "CorruptRecord"
    ELSE IF removalPhase[a] # "none" /\ removalEpoch[a] = e
         THEN IF removalPhase[a] = "completed" THEN "AlreadyCompleted" ELSE "AlreadyPrepared"
    ELSE IF installedEpoch[a] # e THEN "StaleInstallation"
    ELSE "Prepared"

\* prepare_artifact_removal: its result.
PrepareResult(a, e) ==
    IF ~ValidRemovalState(a) THEN "CorruptRecord"
    ELSE IF removalPhase[a] # "none" /\ removalEpoch[a] = e
         THEN IF removalPhase[a] = "completed" THEN "AlreadyCompleted"
              ELSE IF ~NoActiveBinding(a) THEN "ActiveArtifact"
              ELSE "AlreadyPrepared"
    ELSE IF installedEpoch[a] # e THEN "StaleInstallation"
    ELSE IF ~NoActiveBinding(a) THEN "ActiveArtifact"
    ELSE "Prepared"

\* Mutant: the installation row stays.
PrepareKeepsInstallation(a, e) ==
    /\ PrepareResult(a, e) = "Prepared"
    /\ removalEpoch' = [removalEpoch EXCEPT ![a] = e]
    /\ removalPhase' = [removalPhase EXCEPT ![a] = "prepared"]
    /\ UNCHANGED <<manifests, installedEpoch, activationVars>>

\* prepare_artifact_removal: journal the selection and delete its
\* installation row in one transaction.
PrepareArtifactRemoval(a, e) ==
    /\ PrepareResult(a, e) = "Prepared"
    /\ removalEpoch' = [removalEpoch EXCEPT ![a] = e]
    /\ removalPhase' = [removalPhase EXCEPT ![a] = "prepared"]
    /\ installedEpoch' = [installedEpoch EXCEPT ![a] = 0]
    /\ UNCHANGED <<manifests, activationVars>>

\* complete_artifact_removal: its result.
CompleteResult(a, e) ==
    IF removalPhase[a] = "none" THEN "MissingRecord"
    ELSE IF ~ValidRemovalState(a) THEN "CorruptRecord"
    ELSE IF removalEpoch[a] # e THEN "StaleInstallation"
    ELSE IF removalPhase[a] = "completed" THEN "AlreadyCompleted"
    ELSE IF Installed(a) THEN "CorruptRecord"
    ELSE IF ~NoActiveBinding(a) THEN "ActiveArtifact"
    ELSE "Completed"

CompleteArtifactRemoval(a, e) ==
    /\ CompleteResult(a, e) = "Completed"
    /\ removalPhase' = [removalPhase EXCEPT ![a] = "completed"]
    /\ UNCHANGED <<manifests, installedEpoch, removalEpoch, activationVars>>

-----------------------------------------------------------------------------
(* Qualification evidence and role activation.                             *)

\* put_qualification: the manifest is read outside the insert's statement,
\* which is one step because manifest rows are never deleted.
PutQualification(q) ==
    /\ manifests[QualifiedArtifact[q]] # NoManifest
    /\ qualifications' = qualifications \cup {q}
    /\ UNCHANGED <<installVars, invalidated, activeBindings, decisions>>

\* Mutant: every binding of the qualified artifact is deleted.
InvalidateByArtifact(q) ==
    /\ q \in qualifications
    /\ invalidated' = invalidated \cup {q}
    /\ activeBindings' = [r \in Roles |->
           IF r \in BoundRoles /\ activeBindings[r].artifact = QualifiedArtifact[q]
           THEN NoBinding ELSE activeBindings[r]]
    /\ UNCHANGED <<installVars, qualifications, decisions>>

\* invalidate: append the invalidation and delete the bindings it voids.
Invalidate(q) ==
    /\ q \in qualifications
    /\ invalidated' = invalidated \cup {q}
    /\ activeBindings' = [r \in Roles |->
           IF r \in BoundRoles /\ activeBindings[r].qualification = q
           THEN NoBinding ELSE activeBindings[r]]
    /\ UNCHANGED <<installVars, qualifications, decisions>>

\* require_absent_activation: an activation identity is used once.
FreshActivation(id) == \A i \in DOMAIN decisions : decisions[i].id # id

\* activate: revalidate all durable evidence, append the decision and
\* replace the role's pointer.
Activate(id, r, a, q) ==
    /\ FreshActivation(id)
    /\ ValidRemovalState(a)
    /\ removalPhase[a] # "prepared"
    /\ Installed(a)
    /\ q \in qualifications
    /\ Authorizes(q, a, r)
    /\ LET b == [artifact |-> a, qualification |-> q] IN
       /\ decisions' = Append(decisions, [id |-> id, role |-> r, binding |-> b])
       /\ activeBindings' = [activeBindings EXCEPT ![r] = b]
    /\ UNCHANGED <<installVars, qualifications, invalidated>>

Deactivate(id, r) ==
    /\ FreshActivation(id)
    /\ r \in BoundRoles
    /\ decisions' = Append(decisions, [id |-> id, role |-> r, binding |-> NoBinding])
    /\ activeBindings' = [activeBindings EXCEPT ![r] = NoBinding]
    /\ UNCHANGED <<installVars, qualifications, invalidated>>

-----------------------------------------------------------------------------
(* Any caller may call any method with any arguments, a selection observed *)
(* long ago included.                                                      *)

Epochs == 1..MaxEpoch

InstallationStep ==
    \E a \in Artifacts :
        \/ \E m \in Manifests : PutManifest(a, m) \/ PutInstallation(a, m)
        \/ \E e \in Epochs : PrepareArtifactRemoval(a, e) \/ CompleteArtifactRemoval(a, e)

ActivationStep ==
    \/ \E q \in Qualifications : PutQualification(q) \/ Invalidate(q)
    \/ \E id \in ActivationIds, r \in Roles :
          \/ \E a \in Artifacts, q \in Qualifications : Activate(id, r, a, q)
          \/ Deactivate(id, r)

StoreNext == InstallationStep \/ ActivationStep

StoreSpec == StoreInit /\ [][StoreNext]_storeVars

-----------------------------------------------------------------------------
(* Properties.                                                             *)

\* No sequence of calls brings the store to rows that validate_removal_state
\* refuses: no method ever answers CorruptRecord for what the store itself
\* wrote, and the epoch of an installation is always one above the last one
\* removed (store/removal.rs:273).
RemovalStateSound == \A a \in Artifacts : ValidRemovalState(a)

\* recover_active_bindings never fails on what the store wrote: every active
\* pointer names an artifact that is still installed and a qualification that
\* still authorizes its role, whatever was removed, reinstalled or
\* invalidated since it was activated (store.rs:450).
ActiveBindingsSound == \A r \in BoundRoles : ValidBinding(r)

\* The decision a role obeys: its latest one in commit order.
IsLatestDecision(i, r) ==
    /\ decisions[i].role = r
    /\ \A j \in DOMAIN decisions : j > i => decisions[j].role # r

\* What is left of a decision once qualifications have been invalidated.
InForce(b) ==
    IF b # NoBinding /\ b.qualification \notin invalidated THEN b ELSE NoBinding

\* The append-only decision log and the invalidations explain the pointers:
\* a role is bound exactly to what its latest decision said, unless that
\* decision's qualification has been invalidated since; a role no decision
\* was ever taken for is unbound (store.rs:284-422).
DecisionsExplainBindings ==
    \A r \in Roles :
        /\ \A i \in DOMAIN decisions :
               IsLatestDecision(i, r) =>
                   activeBindings[r] = InForce(decisions[i].binding)
        /\ (\A i \in DOMAIN decisions : decisions[i].role # r) =>
               activeBindings[r] = NoBinding

\* Refinement: the rows of one artifact, read together, are an installation
\* registry whose generations never repeat.
GenerationOf(a) == IF Installed(a) THEN installedEpoch[a] ELSE removalEpoch[a]
StatusOf(a) ==
    IF Installed(a) THEN "installed"
    ELSE IF removalPhase[a] = "prepared" THEN "removing" ELSE "absent"

Registry == INSTANCE InstallationRegistry WITH
    generation <- [a \in Artifacts |-> GenerationOf(a)],
    status <- [a \in Artifacts |-> StatusOf(a)]

\* Every committed transaction of the store is a registry step or leaves the
\* registry alone: an artifact is installed, revoked and deleted in whole
\* turns, and a removal retried with an old epoch never touches the
\* reinstallation (removal.rs:58).
ImplementsRegistry == Registry!Spec
=============================================================================
