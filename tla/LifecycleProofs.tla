-------------------------- MODULE LifecycleProofs --------------------------
(***************************************************************************)
(* Theorems about the artifact state store and about ArtifactLifecycle,    *)
(* which drives it, for any number of artifacts, roles, qualifications,    *)
(* activation identities, processes and faults and any epoch limit.        *)
(*                                                                         *)
(* First the store.  RemovalStateSound and ActiveBindingsSound are         *)
(* inductive together with the type invariant; the refinement of           *)
(* InstallationRegistry needs one fact more, JournalEpochs: an artifact    *)
(* without a journal row has no removed epoch to count from.               *)
(*                                                                         *)
(* Then the lifecycle: installed bytes are durable, leases protect what    *)
(* they verified, a completed removal cannot come back, and only the       *)
(* journalled generation is unlinked.                                      *)
(*                                                                         *)
(* The argument rests on the lifecycle lock.  Files and installation rows  *)
(* change only in steps of the process that holds it exclusively, so what  *)
(* that process has established at one step is still true at the next, and *)
(* what a lease has verified stays true while the lock is shared.          *)
(***************************************************************************)
EXTENDS ArtifactLifecycle, TLAPS, SequenceTheorems

-----------------------------------------------------------------------------
(* The store: the inductive invariant.                                     *)

\* The removal row has an epoch exactly when it exists.
JournalEpochs ==
    \A a \in Artifacts : removalEpoch[a] = 0 <=> removalPhase[a] = "none"

StoreInv ==
    /\ StoreTypeOK
    /\ JournalEpochs
    /\ RemovalStateSound
    /\ ActiveBindingsSound

-----------------------------------------------------------------------------
(* The type invariant.                                                     *)

\* An empty store is well typed.
LEMMA InitTypeOK == StoreInit => StoreTypeOK
BY EpochAssumption DEF StoreInit, StoreTypeOK

\* Every transaction of the store keeps its rows well typed; in particular no
\* epoch above the limit is ever written (removal.rs:28).
LEMMA StepTypeOK == StoreTypeOK /\ [StoreNext]_storeVars => StoreTypeOK'
<1> SUFFICES ASSUME StoreTypeOK, [StoreNext]_storeVars
             PROVE  StoreTypeOK'
  OBVIOUS
<1> USE DEF StoreTypeOK
<1>1. ASSUME NEW a \in Artifacts, NEW m \in Manifests, PutManifest(a, m)
      PROVE  StoreTypeOK'
  BY <1>1 DEF PutManifest, activationVars
<1>2. ASSUME NEW a \in Artifacts, NEW m \in Manifests, PutInstallation(a, m)
      PROVE  StoreTypeOK'
  <2>1. NextEpoch(a) \in Nat /\ NextEpoch(a) <= MaxEpoch
    BY <1>2, EpochAssumption DEF PutInstallation, PutInstallationResult, NextEpoch
  <2> QED
    BY <1>2, <2>1, EpochAssumption DEF PutInstallation, activationVars
<1>3. ASSUME NEW a \in Artifacts, NEW e \in Epochs, PrepareArtifactRemoval(a, e)
      PROVE  StoreTypeOK'
  BY <1>3, EpochAssumption DEF PrepareArtifactRemoval, Epochs, activationVars
<1>4. ASSUME NEW a \in Artifacts, NEW e \in Epochs, CompleteArtifactRemoval(a, e)
      PROVE  StoreTypeOK'
  BY <1>4 DEF CompleteArtifactRemoval, activationVars
<1>5. ASSUME NEW q \in Qualifications, PutQualification(q)
      PROVE  StoreTypeOK'
  BY <1>5 DEF PutQualification, installVars
<1>6. ASSUME NEW q \in Qualifications, Invalidate(q)
      PROVE  StoreTypeOK'
  BY <1>6 DEF Invalidate, installVars
<1>7. ASSUME NEW id \in ActivationIds, NEW r \in Roles, NEW a \in Artifacts,
             NEW q \in Qualifications, Activate(id, r, a, q)
      PROVE  StoreTypeOK'
  BY <1>7 DEF Activate, installVars, Bindings, Decisions
<1>8. ASSUME NEW id \in ActivationIds, NEW r \in Roles, Deactivate(id, r)
      PROVE  StoreTypeOK'
  BY <1>8 DEF Deactivate, installVars, Decisions
<1>9. CASE UNCHANGED storeVars
  BY <1>9 DEF storeVars, installVars, activationVars
<1> QED
  BY <1>1, <1>2, <1>3, <1>4, <1>5, <1>6, <1>7, <1>8, <1>9
  DEF StoreNext, InstallationStep, ActivationStep

\* The rows of the store are always well typed.
THEOREM TypeCorrect == StoreSpec => []StoreTypeOK
BY InitTypeOK, StepTypeOK, PTL DEF StoreSpec

-----------------------------------------------------------------------------
(* The removal journal and the active bindings.                            *)

\* An empty store satisfies the inductive invariant.
LEMMA InitInv == StoreInit => StoreInv
<1> SUFFICES ASSUME StoreInit PROVE StoreInv
  OBVIOUS
<1>1. StoreTypeOK
  BY InitTypeOK
<1>2. JournalEpochs /\ RemovalStateSound
  BY DEF StoreInit, JournalEpochs, RemovalStateSound, ValidRemovalState, Installed
<1>3. ActiveBindingsSound
  BY DEF StoreInit, ActiveBindingsSound, BoundRoles
<1> QED
  BY <1>1, <1>2, <1>3 DEF StoreInv

\* Transactions that leave the installation rows alone preserve their shape.
LEMMA InstallRowsKept ==
    ASSUME JournalEpochs, RemovalStateSound, UNCHANGED installVars
    PROVE  JournalEpochs' /\ RemovalStateSound'
BY DEF JournalEpochs, RemovalStateSound, ValidRemovalState, Installed, NextEpoch,
       installVars

\* Transactions that neither uninstall an artifact nor touch the activation
\* tables keep every active binding valid, given valid installation rows.
LEMMA BindingsKept ==
    ASSUME StoreTypeOK, ActiveBindingsSound, RemovalStateSound',
           UNCHANGED activationVars,
           \A a \in Artifacts : ActiveArtifact(a) => (Installed(a) => Installed(a)')
    PROVE  ActiveBindingsSound'
<1> SUFFICES ASSUME NEW r \in Roles, activeBindings[r] # NoBinding
             PROVE  ValidBinding(r)'
  BY DEF ActiveBindingsSound, BoundRoles, activationVars
<1> DEFINE b == activeBindings[r]
<1>1. b \in Bindings /\ b.artifact \in Artifacts
  BY DEF StoreTypeOK, Bindings
<1>2. ValidBinding(r) /\ ActiveArtifact(b.artifact)
  BY DEF ActiveBindingsSound, BoundRoles, ActiveArtifact
<1>3. Installed(b.artifact)'
  BY <1>1, <1>2 DEF ValidBinding, activationVars
<1>4. ValidRemovalState(b.artifact)'
  BY <1>1 DEF RemovalStateSound, activationVars
<1> QED
  BY <1>2, <1>3, <1>4 DEF ValidBinding, Authorizes, activationVars

\* Every transaction preserves the inductive invariant.
LEMMA StepInv == StoreInv /\ [StoreNext]_storeVars => StoreInv'
<1> SUFFICES ASSUME StoreInv, [StoreNext]_storeVars
             PROVE  StoreInv'
  OBVIOUS
<1>0. StoreTypeOK /\ JournalEpochs /\ RemovalStateSound /\ ActiveBindingsSound
  BY DEF StoreInv
<1>t. StoreTypeOK'
  BY StepTypeOK DEF StoreInv
<1>1. ASSUME NEW a \in Artifacts, NEW m \in Manifests, PutManifest(a, m)
      PROVE  StoreInv'
  <2>1. JournalEpochs' /\ RemovalStateSound'
    BY <1>0, <1>1, ManifestAssumption
    DEF PutManifest, StoreTypeOK, JournalEpochs, RemovalStateSound,
        ValidRemovalState, Installed, NextEpoch
  <2>2. ActiveBindingsSound'
    BY <1>0, <1>1, <2>1, BindingsKept DEF PutManifest, Installed
  <2> QED
    BY <1>t, <2>1, <2>2 DEF StoreInv
<1>2. ASSUME NEW a \in Artifacts, NEW m \in Manifests, PutInstallation(a, m)
      PROVE  StoreInv'
  <2>1. removalPhase[a] # "prepared" /\ ~Installed(a) /\ NextEpoch(a) # 0
    BY <1>0, <1>2 DEF PutInstallation, PutInstallationResult, NextEpoch, StoreTypeOK
  <2>2. JournalEpochs' /\ RemovalStateSound'
    BY <1>0, <1>2, <2>1, ManifestAssumption
    DEF PutInstallation, StoreTypeOK, JournalEpochs, RemovalStateSound,
        ValidRemovalState, Installed, NextEpoch
  <2>3. \A c \in Artifacts : Installed(c) => Installed(c)'
    BY <1>0, <1>2, <2>1 DEF PutInstallation, Installed, StoreTypeOK
  <2>4. ActiveBindingsSound'
    BY <1>0, <1>2, <2>2, <2>3, BindingsKept DEF PutInstallation
  <2> QED
    BY <1>t, <2>2, <2>4 DEF StoreInv
<1>3. ASSUME NEW a \in Artifacts, NEW e \in Epochs, PrepareArtifactRemoval(a, e)
      PROVE  StoreInv'
  <2>1. installedEpoch[a] = e /\ e # 0 /\ NoActiveBinding(a)
    BY <1>3 DEF PrepareArtifactRemoval, PrepareResult, Epochs
  <2>2. JournalEpochs' /\ RemovalStateSound'
    BY <1>0, <1>3, <2>1
    DEF PrepareArtifactRemoval, StoreTypeOK, JournalEpochs, RemovalStateSound,
        ValidRemovalState, Installed, NextEpoch
  <2>3. ~ActiveArtifact(a)
    BY <2>1 DEF NoActiveBinding, ActiveArtifact
  <2>4. \A c \in Artifacts : ActiveArtifact(c) => (Installed(c) => Installed(c)')
    BY <1>0, <1>3, <2>3 DEF PrepareArtifactRemoval, Installed, StoreTypeOK
  <2>5. ActiveBindingsSound'
    BY <1>0, <1>3, <2>2, <2>4, BindingsKept DEF PrepareArtifactRemoval
  <2> QED
    BY <1>t, <2>2, <2>5 DEF StoreInv
<1>4. ASSUME NEW a \in Artifacts, NEW e \in Epochs, CompleteArtifactRemoval(a, e)
      PROVE  StoreInv'
  <2>1. removalPhase[a] # "none" /\ ~Installed(a)
    BY <1>4 DEF CompleteArtifactRemoval, CompleteResult
  <2>2. JournalEpochs' /\ RemovalStateSound'
    BY <1>0, <1>4, <2>1
    DEF CompleteArtifactRemoval, StoreTypeOK, JournalEpochs, RemovalStateSound,
        ValidRemovalState, Installed, NextEpoch
  <2>3. ActiveBindingsSound'
    BY <1>0, <1>4, <2>2, BindingsKept DEF CompleteArtifactRemoval, Installed
  <2> QED
    BY <1>t, <2>2, <2>3 DEF StoreInv
<1>5. ASSUME NEW q \in Qualifications, PutQualification(q)
      PROVE  StoreInv'
  <2>1. JournalEpochs' /\ RemovalStateSound'
    BY <1>0, <1>5, InstallRowsKept DEF PutQualification
  <2>2. ActiveBindingsSound'
    BY <1>0, <1>5
    DEF PutQualification, ActiveBindingsSound, BoundRoles, ValidBinding, Installed,
        ValidRemovalState, NextEpoch, Authorizes, installVars
  <2> QED
    BY <1>t, <2>1, <2>2 DEF StoreInv
<1>6. ASSUME NEW q \in Qualifications, Invalidate(q)
      PROVE  StoreInv'
  <2>1. JournalEpochs' /\ RemovalStateSound'
    BY <1>0, <1>6, InstallRowsKept DEF Invalidate
  <2>2. ASSUME NEW r \in Roles, activeBindings'[r] # NoBinding
        PROVE  /\ r \in BoundRoles
               /\ activeBindings'[r] = activeBindings[r]
               /\ activeBindings[r].qualification # q
    BY <1>6, <2>2 DEF Invalidate, BoundRoles
  <2>3. ActiveBindingsSound'
    BY <1>0, <1>6, <2>2, Zenon
    DEF Invalidate, ActiveBindingsSound, BoundRoles, ValidBinding, Installed,
        ValidRemovalState, NextEpoch, Authorizes, installVars
  <2> QED
    BY <1>t, <2>1, <2>3 DEF StoreInv
<1>7. ASSUME NEW id \in ActivationIds, NEW r \in Roles, NEW a \in Artifacts,
             NEW q \in Qualifications, Activate(id, r, a, q)
      PROVE  StoreInv'
  <2>1. JournalEpochs' /\ RemovalStateSound'
    BY <1>0, <1>7, InstallRowsKept DEF Activate
  <2>2. ASSUME NEW s \in Roles, activeBindings'[s] # NoBinding
        PROVE  ValidBinding(s)'
    <3>1. CASE s = r
      BY <1>0, <1>7, <3>1
      DEF Activate, StoreTypeOK, ValidBinding, Installed, ValidRemovalState,
          NextEpoch, Authorizes, installVars
    <3>2. CASE s # r
      BY <1>0, <1>7, <2>2, <3>2
      DEF Activate, StoreTypeOK, ActiveBindingsSound, BoundRoles, ValidBinding,
          Installed, ValidRemovalState, NextEpoch, Authorizes, installVars
    <3> QED
      BY <3>1, <3>2
  <2> QED
    BY <1>t, <2>1, <2>2 DEF StoreInv, ActiveBindingsSound, BoundRoles
<1>8. ASSUME NEW id \in ActivationIds, NEW r \in Roles, Deactivate(id, r)
      PROVE  StoreInv'
  <2>1. JournalEpochs' /\ RemovalStateSound'
    BY <1>0, <1>8, InstallRowsKept DEF Deactivate
  <2>2. ActiveBindingsSound'
    BY <1>0, <1>8, Zenon
    DEF Deactivate, StoreTypeOK, ActiveBindingsSound, BoundRoles, ValidBinding,
        Installed, ValidRemovalState, NextEpoch, Authorizes, installVars
  <2> QED
    BY <1>t, <2>1, <2>2 DEF StoreInv
<1>9. CASE UNCHANGED storeVars
  <2>1. JournalEpochs' /\ RemovalStateSound'
    BY <1>0, <1>9, InstallRowsKept DEF storeVars
  <2>2. ActiveBindingsSound'
    BY <1>0, <1>9, <2>1, BindingsKept DEF storeVars, installVars, Installed
  <2> QED
    BY <1>t, <2>1, <2>2 DEF StoreInv
<1> QED
  BY <1>1, <1>2, <1>3, <1>4, <1>5, <1>6, <1>7, <1>8, <1>9
  DEF StoreNext, InstallationStep, ActivationStep

\* The inductive invariant holds in every reachable state of the store.
THEOREM InvariantHolds == StoreSpec => []StoreInv
BY InitInv, StepInv, PTL DEF StoreSpec

\* Whatever the callers do, the store never reaches rows that its own
\* validate_removal_state would refuse.
THEOREM RemovalStateCorrect == StoreSpec => []RemovalStateSound
<1>1. StoreInv => RemovalStateSound
  BY DEF StoreInv
<1> QED
  BY <1>1, InvariantHolds, PTL

\* Whatever the callers do, recover_active_bindings succeeds: no binding
\* outlives the installation or the qualification it rests on.
THEOREM ActiveBindingsCorrect == StoreSpec => []ActiveBindingsSound
<1>1. StoreInv => ActiveBindingsSound
  BY DEF StoreInv
<1> QED
  BY <1>1, InvariantHolds, PTL

-----------------------------------------------------------------------------
(* The store implements the installation registry.                         *)

\* Transactions that keep the installation rows are registry stutters.
LEMMA RegistryKept ==
    ASSUME UNCHANGED <<installedEpoch, removalEpoch, removalPhase>>
    PROVE  UNCHANGED Registry!vars
BY DEF Registry!vars, GenerationOf, StatusOf, Installed

\* Each transaction is one registry step or a stutter.
LEMMA StepRefines ==
    StoreInv /\ [StoreNext]_storeVars => [Registry!Next]_(Registry!vars)
<1> SUFFICES ASSUME StoreInv, [StoreNext]_storeVars
             PROVE  Registry!Next \/ UNCHANGED Registry!vars
  OBVIOUS
<1>0. StoreTypeOK /\ JournalEpochs
  BY DEF StoreInv
<1>1. ASSUME NEW a \in Artifacts, NEW m \in Manifests, PutInstallation(a, m)
      PROVE  Registry!Next
  <2>1. /\ removalPhase[a] # "prepared" /\ ~Installed(a)
        /\ NextEpoch(a) = removalEpoch[a] + 1 /\ NextEpoch(a) <= MaxEpoch
    BY <1>0, <1>1, EpochAssumption
    DEF PutInstallation, PutInstallationResult, NextEpoch, StoreTypeOK, JournalEpochs
  <2>2. StatusOf(a) = "absent" /\ GenerationOf(a) = removalEpoch[a]
    BY <2>1 DEF StatusOf, GenerationOf
  <2>3. removalEpoch[a] < MaxEpoch
    BY <1>0, <2>1, EpochAssumption DEF StoreTypeOK
  <2>4. Installed(a)' /\ GenerationOf(a)' = removalEpoch[a] + 1
    BY <1>0, <1>1, <2>1 DEF PutInstallation, Installed, GenerationOf, StoreTypeOK
  <2>5. ASSUME NEW c \in Artifacts, c # a
        PROVE  GenerationOf(c)' = GenerationOf(c) /\ StatusOf(c)' = StatusOf(c)
    BY <1>0, <1>1, <2>5 DEF PutInstallation, Installed, GenerationOf, StatusOf, StoreTypeOK
  <2>6. Registry!Install(a)
    BY <2>2, <2>3, <2>4, <2>5, Zenon DEF Registry!Install, StatusOf
  <2> QED
    BY <2>6 DEF Registry!Next
<1>2. ASSUME NEW a \in Artifacts, NEW e \in Epochs, PrepareArtifactRemoval(a, e)
      PROVE  Registry!Next
  <2>1. installedEpoch[a] = e /\ e # 0
    BY <1>2 DEF PrepareArtifactRemoval, PrepareResult, Epochs
  <2>2. /\ StatusOf(a) = "installed" /\ StatusOf(a)' = "removing"
        /\ GenerationOf(a) = e /\ GenerationOf(a)' = e
    BY <1>0, <1>2, <2>1
    DEF PrepareArtifactRemoval, StatusOf, GenerationOf, Installed, StoreTypeOK
  <2>3. ASSUME NEW c \in Artifacts, c # a
        PROVE  GenerationOf(c)' = GenerationOf(c) /\ StatusOf(c)' = StatusOf(c)
    BY <1>0, <1>2, <2>3
    DEF PrepareArtifactRemoval, Installed, GenerationOf, StatusOf, StoreTypeOK
  <2>4. Registry!BeginRemoval(a)
    BY <2>2, <2>3, Zenon DEF Registry!BeginRemoval
  <2> QED
    BY <2>4 DEF Registry!Next
<1>3. ASSUME NEW a \in Artifacts, NEW e \in Epochs, CompleteArtifactRemoval(a, e)
      PROVE  Registry!Next
  <2>1. removalPhase[a] = "prepared" /\ ~Installed(a)
    BY <1>0, <1>3 DEF CompleteArtifactRemoval, CompleteResult, StoreTypeOK
  <2>2. /\ StatusOf(a) = "removing" /\ StatusOf(a)' = "absent"
        /\ GenerationOf(a)' = GenerationOf(a)
    BY <1>0, <1>3, <2>1
    DEF CompleteArtifactRemoval, StatusOf, GenerationOf, Installed, StoreTypeOK
  <2>3. ASSUME NEW c \in Artifacts, c # a
        PROVE  GenerationOf(c)' = GenerationOf(c) /\ StatusOf(c)' = StatusOf(c)
    BY <1>0, <1>3, <2>3
    DEF CompleteArtifactRemoval, Installed, GenerationOf, StatusOf, StoreTypeOK
  <2>4. Registry!FinishRemoval(a)
    BY <2>2, <2>3, Zenon DEF Registry!FinishRemoval
  <2> QED
    BY <2>4 DEF Registry!Next
<1>4. ASSUME NEW a \in Artifacts, NEW m \in Manifests, PutManifest(a, m)
      PROVE  UNCHANGED Registry!vars
  BY <1>4, RegistryKept DEF PutManifest
<1>5. CASE ActivationStep
  BY <1>5, RegistryKept, Zenon
  DEF ActivationStep, PutQualification, Invalidate, Activate, Deactivate, installVars
<1>6. CASE UNCHANGED storeVars
  BY <1>6, RegistryKept DEF storeVars, installVars
<1> QED
  BY <1>1, <1>2, <1>3, <1>4, <1>5, <1>6 DEF StoreNext, InstallationStep

\* The store implements the installation registry: generations only grow, by
\* one, and only after the previous removal has completed, so a removal
\* retried with an old epoch can never act on a reinstallation.
THEOREM RegistryRefined == StoreSpec => ImplementsRegistry
<1>1. StoreInit => Registry!Init
  BY DEF StoreInit, Registry!Init, GenerationOf, StatusOf, Installed
<1> QED
  BY <1>1, InvariantHolds, StepRefines, PTL
  DEF StoreSpec, ImplementsRegistry, Registry!Spec

-----------------------------------------------------------------------------
(* The decision log explains the active bindings.                          *)

\* Appending a decision for role r makes it the latest for r and leaves the
\* latest decision of every other role where it was.
LEMMA AppendDecision ==
    ASSUME StoreTypeOK, NEW r \in Roles, NEW d \in Decisions, d.role = r,
           decisions' = Append(decisions, d), UNCHANGED invalidated,
           activeBindings' = [activeBindings EXCEPT ![r] = d.binding],
           InForce(d.binding) = d.binding,
           DecisionsExplainBindings
    PROVE  DecisionsExplainBindings'
<1>0. /\ DOMAIN decisions = 1..Len(decisions) /\ Len(decisions) \in Nat
      /\ DOMAIN decisions' = 1..(Len(decisions) + 1)
      /\ \A i \in DOMAIN decisions : decisions'[i] = decisions[i]
      /\ decisions'[Len(decisions) + 1] = d
  BY DEF StoreTypeOK
<1>1. ASSUME NEW s \in Roles, NEW i \in DOMAIN decisions', IsLatestDecision(i, s)'
      PROVE  activeBindings'[s] = InForce(decisions[i].binding)'
  <2>1. CASE s = r
    <3>1. i = Len(decisions) + 1
      BY <1>0, <1>1, <2>1 DEF IsLatestDecision
    <3> QED
      BY <1>0, <2>1, <3>1 DEF InForce, StoreTypeOK
  <2>2. CASE s # r
    <3>1. i \in DOMAIN decisions /\ decisions'[i] = decisions[i]
      BY <1>0, <1>1, <2>2 DEF IsLatestDecision
    <3>2. IsLatestDecision(i, s)
      BY <1>0, <1>1, <3>1 DEF IsLatestDecision
    <3> QED
      BY <2>2, <3>1, <3>2 DEF DecisionsExplainBindings, InForce, StoreTypeOK
  <2> QED
    BY <2>1, <2>2
<1>2. ASSUME NEW s \in Roles, \A i \in DOMAIN decisions' : decisions'[i].role # s
      PROVE  activeBindings'[s] = NoBinding
  <2>1. s # r /\ \A i \in DOMAIN decisions : decisions[i].role # s
    BY <1>0, <1>2
  <2> QED
    BY <2>1 DEF DecisionsExplainBindings, StoreTypeOK
<1> QED
  BY <1>1, <1>2 DEF DecisionsExplainBindings

\* Every transaction keeps the decision log an explanation of the bindings.
LEMMA StepExplains ==
    StoreInv /\ DecisionsExplainBindings /\ [StoreNext]_storeVars
        => DecisionsExplainBindings'
<1> SUFFICES ASSUME StoreInv, DecisionsExplainBindings, [StoreNext]_storeVars
             PROVE  DecisionsExplainBindings'
  OBVIOUS
<1>0. StoreTypeOK
  BY DEF StoreInv
<1>1. ASSUME UNCHANGED <<decisions, activeBindings, invalidated>>
      PROVE  DecisionsExplainBindings'
  BY <1>1 DEF DecisionsExplainBindings, IsLatestDecision, InForce
<1>2. ASSUME NEW q \in Qualifications, Invalidate(q)
      PROVE  DecisionsExplainBindings'
  <2>1. ASSUME NEW r \in Roles, NEW i \in DOMAIN decisions, IsLatestDecision(i, r)
        PROVE  activeBindings'[r] = InForce(decisions[i].binding)'
    <3>1. activeBindings[r] = InForce(decisions[i].binding)
      BY <2>1 DEF DecisionsExplainBindings
    <3> QED
      BY <1>2, <3>1 DEF Invalidate, InForce, BoundRoles
  <2>2. ASSUME NEW r \in Roles, activeBindings[r] = NoBinding
        PROVE  activeBindings'[r] = NoBinding
    BY <1>2, <2>2 DEF Invalidate, BoundRoles
  <2> QED
    BY <1>2, <2>1, <2>2 DEF Invalidate, DecisionsExplainBindings, IsLatestDecision
<1>3. ASSUME NEW id \in ActivationIds, NEW r \in Roles, NEW a \in Artifacts,
             NEW q \in Qualifications, Activate(id, r, a, q)
      PROVE  DecisionsExplainBindings'
  <2> DEFINE b == [artifact |-> a, qualification |-> q]
             d == [id |-> id, role |-> r, binding |-> b]
  <2>1. b \in Bindings /\ b # NoBinding
    BY BindingAssumption DEF Bindings
  <2>2. d \in Decisions
    BY <2>1 DEF Decisions
  <2>3. InForce(b) = b
    BY <1>3, <2>1 DEF Activate, Authorizes, InForce
  <2>4. /\ decisions' = Append(decisions, d) /\ UNCHANGED invalidated
        /\ activeBindings' = [activeBindings EXCEPT ![r] = d.binding]
    BY <1>3 DEF Activate
  <2> HIDE DEF d
  <2>5. d.role = r /\ d.binding = b
    BY DEF d
  <2> QED
    BY <1>0, <2>2, <2>3, <2>4, <2>5, AppendDecision, Zenon
<1>4. ASSUME NEW id \in ActivationIds, NEW r \in Roles, Deactivate(id, r)
      PROVE  DecisionsExplainBindings'
  <2> DEFINE d == [id |-> id, role |-> r, binding |-> NoBinding]
  <2>1. d \in Decisions
    BY DEF Decisions
  <2>2. /\ decisions' = Append(decisions, d) /\ UNCHANGED invalidated
        /\ activeBindings' = [activeBindings EXCEPT ![r] = d.binding]
    BY <1>4 DEF Deactivate
  <2>3. InForce(NoBinding) = NoBinding
    BY DEF InForce
  <2> HIDE DEF d
  <2>4. d.role = r /\ d.binding = NoBinding
    BY DEF d
  <2> QED
    BY <1>0, <2>1, <2>2, <2>3, <2>4, AppendDecision, Zenon
<1>5. CASE InstallationStep
  BY <1>1, <1>5
  DEF InstallationStep, PutManifest, PutInstallation, PrepareArtifactRemoval,
      CompleteArtifactRemoval, activationVars
<1>6. ASSUME NEW q \in Qualifications, PutQualification(q)
      PROVE  DecisionsExplainBindings'
  BY <1>1, <1>6 DEF PutQualification
<1>7. CASE UNCHANGED storeVars
  BY <1>1, <1>7 DEF storeVars, activationVars
<1> QED
  BY <1>2, <1>3, <1>4, <1>5, <1>6, <1>7 DEF StoreNext, ActivationStep

\* In every reachable state a role is bound to what its latest decision said,
\* unless that decision's qualification has been invalidated.
THEOREM DecisionsCorrect == StoreSpec => []DecisionsExplainBindings
<1>1. StoreInit => DecisionsExplainBindings
  BY DEF StoreInit, DecisionsExplainBindings
<1> QED
  BY <1>1, InvariantHolds, StepExplains, PTL DEF StoreSpec

-----------------------------------------------------------------------------
(* The lifecycle: the inductive invariant.                                 *)

\* Steps under the exclusive lifecycle lock, and under a shared one.
Working == {"import.recover", "import.syncRecovered", "import.inspect", "import.copy",
            "import.flush", "import.link", "import.syncArtifacts", "import.cleanup",
            "import.syncStaging", "discard", "discard.sync",
            "verify", "verify.sync", "register", "remove.verify", "recover.verify",
            "prepare", "unlink", "unlink.sync", "complete"}
Leasing == {"lease.verify", "lease.confirm", "leased"}

\* Steps of the operations that register a manifest, and that remove an epoch.
Registering == {"import.open", "import.recover", "import.syncRecovered",
                "import.inspect", "import.copy", "import.flush", "import.link",
                "import.syncArtifacts", "import.cleanup", "import.syncStaging",
                "reconcile.open", "verify", "verify.sync", "register"}
Removing == {"remove.open", "remove.verify", "recover.open", "recover.verify",
             "prepare", "unlink", "unlink.sync", "complete"}

ProcTypes ==
    /\ pc \in [Procs -> Steps]
    /\ job \in [Procs -> Jobs \cup {NoJob}]
    /\ repoLock \in [Procs -> Modes]
    /\ lifeLock \in [Procs -> Modes]
    /\ faults \in 0..MaxFaults

FsTypes ==
    /\ here \in [Names -> BOOLEAN]
    /\ disk \in [Names -> SUBSET BOOLEAN]
    /\ content \in [Artifacts -> {"none", "partial", "exact"}]
    /\ flushed \in [Artifacts -> BOOLEAN]

OneExclusive ==
    \A p, q \in Procs : p # q /\ lifeLock[p] = "exclusive" => lifeLock[q] = "none"

\* The bytes are there, exact and flushed; only their name may be unsynchronised.
Exact(a) == here[Canonical(a)] /\ content[a] = "exact" /\ flushed[a]

Journalled(a, e) == removalPhase[a] = "prepared" /\ removalEpoch[a] = e

\* What a process has established when it is at its step.
At(p) ==
    /\ pc[p] # "idle" => job[p] \in Jobs
    /\ pc[p] \in Working => lifeLock[p] = "exclusive"
    /\ pc[p] \in Leasing => lifeLock[p] = "shared"
    /\ pc[p] \in Registering => job[p].manifest \in Manifests
    /\ pc[p] \in Removing => job[p].epoch \in Epochs
    /\ pc[p] = "verify.sync" => Exact(job[p].art)
    /\ pc[p] = "register" => Durable(job[p].art)
    /\ pc[p] \in {"unlink", "unlink.sync", "complete"} =>
          Journalled(job[p].art, job[p].epoch)
    /\ pc[p] = "unlink.sync" => ~here[Canonical(job[p].art)]
    /\ pc[p] = "complete" => disk[Canonical(job[p].art)] = {FALSE}
    /\ pc[p] \in {"lease.confirm", "leased"} => VerifyResult(job[p].art) = "verified"
    /\ pc[p] = "leased" => installedEpoch[job[p].art] = job[p].epoch

AllDurable == \A a \in Artifacts : Installed(a) => Durable(a)

LInv ==
    /\ StoreInv
    /\ ProcTypes
    /\ FsTypes
    /\ OneExclusive
    /\ \A p \in Procs : At(p)
    /\ AllDurable

-----------------------------------------------------------------------------
(* Names.                                                                  *)

\* Canonical and staging names are different names.
LEMMA NameFacts ==
    /\ \A a \in Artifacts : Canonical(a) \in Names /\ Staged(a) \in Names
    /\ \A a \in Artifacts : Canonical(a)[1] = "artifacts" /\ Staged(a)[1] = ".staging"
    /\ \A a, b \in Artifacts : Canonical(a) = Canonical(b) => a = b
  BY DEF Canonical, Staged, Names

\* Removing or adding staging names leaves the canonical ones alone.
LEMMA StagingNames ==
    ASSUME FsTypes, NEW ns \in SUBSET Names, \A n \in ns : n[1] = ".staging",
           NEW v \in BOOLEAN, SetNames(ns, v)
    PROVE  /\ here' \in [Names -> BOOLEAN] /\ disk' \in [Names -> SUBSET BOOLEAN]
           /\ \A b \in Artifacts : /\ here'[Canonical(b)] = here[Canonical(b)]
                                   /\ disk'[Canonical(b)] = disk[Canonical(b)]
  BY NameFacts DEF SetNames, FsTypes

\* Changing one canonical name leaves the others alone.
LEMMA CanonicalNames ==
    ASSUME FsTypes, NEW a \in Artifacts, NEW ns \in SUBSET {Canonical(a)},
           NEW v \in BOOLEAN, SetNames(ns, v)
    PROVE  /\ here' \in [Names -> BOOLEAN] /\ disk' \in [Names -> SUBSET BOOLEAN]
           /\ \A b \in Artifacts \ {a} : /\ here'[Canonical(b)] = here[Canonical(b)]
                                         /\ disk'[Canonical(b)] = disk[Canonical(b)]
           /\ here'[Canonical(a)] = IF ns = {} THEN here[Canonical(a)] ELSE v
<1>1. \A b \in Artifacts \ {a} : Canonical(b) \notin ns
  BY NameFacts
<1>2. Canonical(a) \in ns <=> ns # {}
  OBVIOUS
<1> QED
  BY <1>1, <1>2, NameFacts DEF SetNames, FsTypes

\* What a synchronisation of either directory does to the canonical names.
LEMMA Synchronised ==
    ASSUME FsTypes, here' = here
    PROVE  /\ SyncDirectory("artifacts") =>
                /\ disk' \in [Names -> SUBSET BOOLEAN]
                /\ \A b \in Artifacts : disk'[Canonical(b)] = {here[Canonical(b)]}
           /\ SyncDirectory(".staging") =>
                /\ disk' \in [Names -> SUBSET BOOLEAN]
                /\ \A b \in Artifacts : disk'[Canonical(b)] = disk[Canonical(b)]
  BY NameFacts DEF SyncDirectory, FsTypes

\* A verified artifact is under its canonical name with the exact bytes.
LEMMA VerifiedExact ==
    ASSUME NEW a \in Artifacts, VerifyResult(a) = "verified"
    PROVE  here[Canonical(a)] /\ content[a] = "exact"
  BY DEF VerifyResult, Lookup

-----------------------------------------------------------------------------
(* Steps of a process.                                                     *)

\* The other processes stay where they are.
Others(p) ==
    \A q \in Procs \ {p} :
        pc'[q] = pc[q] /\ job'[q] = job[q] /\ lifeLock'[q] = lifeLock[q]

\* A step that leaves files and installation rows alone concerns no one else.
LEMMA QuietAt ==
    ASSUME LInv, UNCHANGED <<installVars, fsVars>>, NEW q \in Procs,
           pc'[q] = pc[q], job'[q] = job[q], lifeLock'[q] = lifeLock[q]
    PROVE  At(q)'
<1>1. UNCHANGED <<installedEpoch, removalEpoch, removalPhase, here, disk, content, flushed>>
  BY DEF installVars, fsVars
<1>2. At(q)
  BY DEF LInv
<1> QED
  BY <1>1, <1>2, ZenonT(60) DEF At, Exact, Durable, Journalled, VerifyResult, Lookup, StorageEntries

\* Such a step keeps the invariant if it does so for the process that takes it.
LEMMA QuietStep ==
    ASSUME LInv, UNCHANGED <<installVars, fsVars>>, NEW p \in Procs, Others(p),
           StoreInv', ProcTypes', OneExclusive', At(p)'
    PROVE  LInv'
<1>1. UNCHANGED <<installedEpoch, here, disk, content, flushed>>
  BY DEF installVars, fsVars
<1>2. FsTypes' /\ AllDurable'
  BY <1>1, Zenon DEF LInv, FsTypes, AllDurable, Installed, Durable
<1>3. \A q \in Procs : At(q)'
  BY QuietAt DEF Others
<1> QED
  BY <1>2, <1>3 DEF LInv

\* A step under the exclusive lock may change anything: the others have
\* established nothing.
LEMMA ExclusiveStep ==
    ASSUME LInv, NEW p \in Procs, pc[p] \in Working, Others(p),
           lifeLock'[p] \in {"exclusive", "none"},
           StoreInv', ProcTypes', FsTypes', At(p)', AllDurable'
    PROVE  LInv'
<1>1. lifeLock[p] = "exclusive" /\ \A q \in Procs \ {p} : lifeLock[q] = "none"
  BY Zenon DEF LInv, At, OneExclusive
<1>2. OneExclusive'
  BY <1>1 DEF Others, OneExclusive
<1>3. ASSUME NEW q \in Procs \ {p} PROVE At(q)'
  <2>1. At(q) /\ pc'[q] = pc[q] /\ job'[q] = job[q]
    BY DEF LInv, Others
  <2>2. pc[q] \notin Working \cup Leasing
    BY <1>1, <2>1, Zenon DEF At
  <2> QED
    BY <2>1, <2>2, Zenon DEF At, Working, Leasing
<1> QED
  BY <1>2, <1>3 DEF LInv

\* The guards of an operation are dropped and nothing of it remains.
Returned(p) ==
    /\ pc' = [pc EXCEPT ![p] = "idle"]
    /\ job' = [job EXCEPT ![p] = NoJob]
    /\ repoLock' = [repoLock EXCEPT ![p] = "none"]
    /\ lifeLock' = [lifeLock EXCEPT ![p] = "none"]

\* An operation that has returned has nothing to keep.
LEMMA ReturnFacts ==
    ASSUME LInv, NEW p \in Procs, Returned(p), faults' \in 0..MaxFaults
    PROVE  /\ Others(p) /\ ProcTypes' /\ OneExclusive' /\ At(p)'
           /\ lifeLock'[p] = "none"
<1>1. pc'[p] = "idle" /\ lifeLock'[p] = "none" /\ Others(p)
  BY DEF LInv, ProcTypes, Returned, Others
<1>2. ProcTypes'
  BY DEF LInv, ProcTypes, Returned, Modes, Steps
<1>3. OneExclusive'
  BY <1>1 DEF LInv, OneExclusive, Others
<1>4. At(p)'
  BY <1>1 DEF At, Working, Leasing, Registering, Removing
<1> QED
  BY <1>1, <1>2, <1>3, <1>4

\* Steps that leave the store alone keep its invariant.
LEMMA StoreStays == LInv /\ UNCHANGED storeVars => StoreInv'
  BY StepInv DEF LInv

\* An operation may return anywhere.
LEMMA ReturnStep ==
    ASSUME LInv, NEW p \in Procs, Returned(p), faults' \in 0..MaxFaults,
           UNCHANGED <<storeVars, fsVars>>
    PROVE  LInv'
<1>1. StoreInv' /\ UNCHANGED installVars
  BY StoreStays DEF storeVars
<1> QED
  BY <1>1, ReturnFacts, QuietStep

\* Kills, and errors where nothing is staged, are such returns; an error where
\* something is staged goes to its cleanup under the same lock.
LEMMA FaultStep ==
    ASSUME LInv, NEW p \in Procs, Fail(p) \/ Kill(p)
    PROVE  LInv'
<1>1. faults' \in 0..MaxFaults
  BY LimitAssumption DEF Fail, Kill, Fault, LInv, ProcTypes
<1>2. UNCHANGED storeVars /\ UNCHANGED fsVars
  BY DEF Fail, Kill
<1>3. CASE Returned(p)
  BY <1>1, <1>2, <1>3, ReturnStep
<1>4. CASE /\ pc[p] \in StagingSteps
           /\ pc' = [pc EXCEPT ![p] = "discard"] /\ UNCHANGED <<job, repoLock, lifeLock>>
  <2>1. ProcTypes' /\ Others(p) /\ OneExclusive' /\ pc'[p] = "discard"
    BY <1>1, <1>4 DEF LInv, ProcTypes, Others, OneExclusive, Steps
  <2>2. job[p] \in Jobs /\ lifeLock[p] = "exclusive"
    BY <1>4, Zenon DEF LInv, At, StagingSteps, Working
  <2>3. At(p)'
    BY <1>4, <2>1, <2>2, Zenon DEF At, Working, Leasing, Registering, Removing
  <2> QED
    BY <1>2, <2>1, <2>3, StoreStays, QuietStep DEF storeVars
<1> QED
  BY <1>3, <1>4 DEF Fail, Kill, Returned

\* The start of an operation with the repository lock.
LEMMA BeginKeeps ==
    ASSUME LInv, NEW p \in Procs,
           NEW step \in {"import.open", "reconcile.open", "remove.open", "recover.open"},
           NEW j \in Jobs, Begin(p, step, j),
           step \in Registering => j.manifest \in Manifests,
           step \in Removing => j.epoch \in Epochs
    PROVE  LInv'
<1>1. /\ pc' = [pc EXCEPT ![p] = step] /\ job' = [job EXCEPT ![p] = j]
      /\ repoLock' = [repoLock EXCEPT ![p] = "exclusive"]
      /\ UNCHANGED <<lifeLock, faults>> /\ UNCHANGED storeVars /\ UNCHANGED fsVars
  BY DEF Begin
<1>2. ProcTypes' /\ Others(p) /\ OneExclusive' /\ pc'[p] = step /\ job'[p] = j
  BY <1>1 DEF LInv, ProcTypes, Others, OneExclusive, Steps, Modes
<1>3. At(p)'
  BY <1>2, Zenon DEF At, Working, Leasing
<1> QED
  BY <1>1, <1>2, <1>3, StoreStays, QuietStep DEF storeVars

\* Keys that exist name an epoch.
LEMMA KnownEpoch ==
    ASSUME LInv, NEW a \in Artifacts, NEW e \in KnownEpochs(a)
    PROVE  e \in Epochs /\ e \in 0..MaxEpoch
<1>1. GenerationOf(a) \in 0..MaxEpoch
  BY DEF LInv, StoreInv, StoreTypeOK, GenerationOf
<1> QED
  BY <1>1, EpochAssumption DEF KnownEpochs, Epochs

\* Every operation that begins, a lease with its shared lock included.
LEMMA BeginKeepsAll ==
    ASSUME LInv, NEW p \in Procs, BeginStep(p)
    PROVE  LInv'
<1>1. ASSUME NEW a \in Artifacts, NEW m \in Manifests,
             ImportBegin(p, a, m) \/ ReconcileBegin(p, a, m)
      PROVE  LInv'
  <2> DEFINE j == [art |-> a, manifest |-> m, epoch |-> 0, bytes |-> FALSE]
  <2>1. j \in Jobs /\ j.manifest \in Manifests
    BY EpochAssumption DEF Jobs
  <2> QED
    BY <1>1, <2>1, BeginKeeps DEF ImportBegin, ReconcileBegin, Removing
<1>2. ASSUME NEW a \in Artifacts, NEW e \in KnownEpochs(a),
             RemoveBegin(p, a, e) \/ RecoverBegin(p, a, e)
      PROVE  LInv'
  <2> DEFINE j == [art |-> a, manifest |-> NoManifest, epoch |-> e, bytes |-> TRUE]
  <2>1. j \in Jobs /\ j.epoch \in Epochs
    BY KnownEpoch DEF Jobs
  <2> QED
    BY <1>2, <2>1, BeginKeeps DEF RemoveBegin, RecoverBegin, Registering
<1>3. ASSUME NEW a \in Artifacts, NEW e \in KnownEpochs(a), LeaseBegin(p, a, e)
      PROVE  LInv'
  <2> DEFINE j == [art |-> a, manifest |-> NoManifest, epoch |-> e, bytes |-> TRUE]
  <2>1. j \in Jobs
    BY KnownEpoch DEF Jobs
  <2>2. /\ pc' = [pc EXCEPT ![p] = "lease.verify"] /\ job' = [job EXCEPT ![p] = j]
        /\ lifeLock' = [lifeLock EXCEPT ![p] = "shared"] /\ CanShare(lifeLock, p)
        /\ UNCHANGED <<repoLock, faults>> /\ UNCHANGED storeVars /\ UNCHANGED fsVars
    BY <1>3 DEF LeaseBegin
  <2> HIDE DEF j
  <2>3. /\ ProcTypes' /\ Others(p) /\ pc'[p] = "lease.verify" /\ job'[p] = j
        /\ lifeLock'[p] = "shared"
    BY <2>1, <2>2 DEF LInv, ProcTypes, Others, Steps, Modes
  <2>4. OneExclusive'
    BY <2>2, <2>3 DEF LInv, OneExclusive, CanShare, Others
  <2>5. At(p)'
    BY <2>1, <2>3, Zenon DEF At, Working, Registering, Removing
  <2> QED
    BY <2>2, <2>3, <2>4, <2>5, StoreStays, QuietStep DEF storeVars
<1> QED
  BY <1>1, <1>2, <1>3 DEF BeginStep

\* The exclusive lock is taken when no one else has any.
LEMMA TakeKeeps ==
    ASSUME LInv, NEW p \in Procs, NEW step \in Working, TakeLifecycle(p, step),
           UNCHANGED <<storeVars, fsVars>>, pc[p] # "idle",
           step \in {"import.inspect", "import.recover", "verify", "remove.verify",
                     "recover.verify"},
           step \in Registering => pc[p] \in Registering,
           step \in Removing => pc[p] \in Removing
    PROVE  LInv'
<1>1. /\ pc' = [pc EXCEPT ![p] = step] /\ lifeLock' = [lifeLock EXCEPT ![p] = "exclusive"]
      /\ CanLock(lifeLock, p) /\ UNCHANGED <<job, repoLock, faults>>
  BY DEF TakeLifecycle
<1>2. /\ ProcTypes' /\ Others(p) /\ pc'[p] = step /\ lifeLock'[p] = "exclusive"
  BY <1>1 DEF LInv, ProcTypes, Others, Steps, Modes
<1>3. OneExclusive'
  <2>1. \A q \in Procs \ {p} : lifeLock'[q] = "none"
    BY <1>1, <1>2, Zenon DEF CanLock, Others
  <2>2. ASSUME NEW a \in Procs, NEW b \in Procs, a # b, lifeLock'[a] = "exclusive"
        PROVE  lifeLock'[b] = "none"
    <3>1. b = p => a \in Procs \ {p}
      BY <2>2, Zenon
    <3>2. "exclusive" # "none"
      OBVIOUS
    <3>3. b # p
      BY <2>1, <2>2, <3>1, <3>2, Zenon
    <3> QED
      BY <2>1, <3>3, Zenon
  <2> QED
    BY <2>2, Zenon DEF OneExclusive
<1>4. At(p)'
  <2>1. At(p)
    BY DEF LInv
  <2> QED
    BY <1>1, <1>2, <2>1, Zenon DEF At, Leasing
<1> QED
  BY <1>2, <1>3, <1>4, StoreStays, QuietStep, Zenon DEF storeVars

\* A returning operation, by Return.
LEMMA ReturnKeeps ==
    ASSUME LInv, NEW p \in Procs, Return(p), UNCHANGED <<storeVars, fsVars>>
    PROVE  LInv'
<1>1. Returned(p) /\ faults' \in 0..MaxFaults
  BY DEF Return, Returned, LInv, ProcTypes
<1> QED
  BY <1>1, ReturnStep

\* The steps that open an operation.
LEMMA OpenStep ==
    ASSUME LInv, NEW p \in Procs,
           \/ OpenBusy(p) \/ ImportOpen(p) \/ ReconcileOpen(p) \/ RemoveOpen(p)
           \/ RecoverOpen(p)
    PROVE  LInv'
<1>1. UNCHANGED <<storeVars, fsVars>>
  BY Zenon DEF OpenBusy, ImportOpen, ReconcileOpen, RemoveOpen, RecoverOpen
<1>2. CASE Return(p)
  BY <1>1, <1>2, ReturnKeeps
<1>3. ASSUME pc[p] = "import.open",
             TakeLifecycle(p, "import.inspect") \/ TakeLifecycle(p, "import.recover")
      PROVE  LInv'
  BY <1>1, <1>3, TakeKeeps DEF Working, Registering, Removing
<1>4. ASSUME pc[p] = "reconcile.open", TakeLifecycle(p, "verify") PROVE LInv'
  BY <1>1, <1>4, TakeKeeps DEF Working, Registering, Removing
<1>5. ASSUME pc[p] = "remove.open", TakeLifecycle(p, "remove.verify") PROVE LInv'
  BY <1>1, <1>5, TakeKeeps DEF Working, Registering, Removing
<1>6. ASSUME pc[p] = "recover.open", TakeLifecycle(p, "recover.verify") PROVE LInv'
  BY <1>1, <1>6, TakeKeeps DEF Working, Registering, Removing
<1> QED
  BY <1>2, <1>3, <1>4, <1>5, <1>6, Zenon
     DEF OpenBusy, ImportOpen, ReconcileOpen, RemoveOpen, RecoverOpen

\* A lease verifies, confirms and is released under its shared lock.
LEMMA LeaseKeeps ==
    ASSUME LInv, NEW p \in Procs, LeaseStep(p)
    PROVE  LInv'
<1>1. UNCHANGED storeVars /\ UNCHANGED fsVars
  BY DEF LeaseStep, LeaseVerify, LeaseConfirm, LeaseRelease
<1>2. CASE Return(p)
  BY <1>1, <1>2, ReturnKeeps
<1>3. ASSUME NEW step \in {"lease.confirm", "leased"}, Goto(p, step), pc[p] \in Leasing,
             VerifyResult(job[p].art) = "verified",
             step = "leased" => installedEpoch[job[p].art] = job[p].epoch
      PROVE  LInv'
  <2>1. /\ pc' = [pc EXCEPT ![p] = step]
        /\ UNCHANGED <<job, repoLock, lifeLock, faults>>
    BY <1>3 DEF Goto
  <2>2. ProcTypes' /\ Others(p) /\ OneExclusive' /\ pc'[p] = step
    BY <1>3, <2>1, Zenon DEF LInv, ProcTypes, Others, OneExclusive, Steps
  <2>3. job[p] \in Jobs /\ lifeLock[p] = "shared"
    BY <1>3, Zenon DEF LInv, At, Leasing
  <2>4. UNCHANGED <<installedEpoch, here, content>>
    BY <1>1 DEF storeVars, installVars, fsVars
  <2>5. VerifyResult(job[p].art)' = "verified"
    BY <1>3, <2>1, <2>4, Zenon DEF VerifyResult, Lookup, StorageEntries
  <2>6. At(p)'
    BY <1>3, <2>1, <2>2, <2>3, <2>4, <2>5, Zenon DEF At, Working, Registering, Removing
  <2> QED
    BY <1>1, <2>2, <2>6, StoreStays, QuietStep DEF storeVars
<1>4. CASE LeaseVerify(p)
  BY <1>2, <1>3, <1>4, Zenon DEF LeaseVerify, Leasing
<1>5. CASE LeaseConfirm(p)
  <2>1. VerifyResult(job[p].art) = "verified"
    BY <1>5, Zenon DEF LInv, At, LeaseConfirm
  <2> QED
    BY <1>3, <1>5, <2>1, Zenon DEF LeaseConfirm, Leasing
<1>6. CASE LeaseRelease(p)
  BY <1>2, <1>6 DEF LeaseRelease
<1> QED
  BY <1>4, <1>5, <1>6 DEF LeaseStep

-----------------------------------------------------------------------------
(* Steps under the exclusive lock.                                         *)

\* A step to the next one of the same operation, with the rows unchanged.
LEMMA Advance ==
    ASSUME LInv, NEW p \in Procs, pc[p] \in Working, NEW step \in Working, Goto(p, step),
           UNCHANGED storeVars, FsTypes',
           \A b \in Artifacts : Durable(b) => Durable(b)',
           step \in Registering => pc[p] \in Registering,
           step \in Removing => pc[p] \in Removing,
           step = "verify.sync" => Exact(job[p].art)',
           step = "register" => Durable(job[p].art)',
           step \in {"unlink", "unlink.sync", "complete"} =>
               Journalled(job[p].art, job[p].epoch),
           step = "unlink.sync" => ~here'[Canonical(job[p].art)],
           step = "complete" => disk'[Canonical(job[p].art)] = {FALSE}
    PROVE  LInv'
<1>1. pc' = [pc EXCEPT ![p] = step] /\ UNCHANGED <<job, repoLock, lifeLock, faults>>
  BY Zenon DEF Goto
<1>2. At(p) /\ lifeLock[p] = "exclusive" /\ job[p] \in Jobs
  BY Zenon DEF LInv, At, Working
<1>3. ProcTypes' /\ Others(p) /\ pc'[p] = step
  BY <1>1, Zenon DEF LInv, ProcTypes, Others, Steps, Working
<1>4. UNCHANGED <<installedEpoch, removalEpoch, removalPhase>>
  BY Zenon DEF storeVars, installVars
<1>5. AllDurable'
  BY <1>4, Zenon DEF LInv, AllDurable, Installed
<1>6. At(p)'
  BY <1>1, <1>2, <1>3, <1>4, Zenon DEF At, Journalled, Leasing, Working
<1> QED
  BY <1>1, <1>2, <1>3, <1>5, <1>6, StoreStays, ExclusiveStep, Zenon

\* A return under the exclusive lock.
LEMMA ExclusiveReturn ==
    ASSUME LInv, NEW p \in Procs, pc[p] \in Working, Return(p), StoreInv', FsTypes',
           AllDurable'
    PROVE  LInv'
<1>1. Returned(p) /\ faults' \in 0..MaxFaults
  BY DEF Return, Returned, LInv, ProcTypes
<1> QED
  BY <1>1, ReturnFacts, ExclusiveStep, Zenon

\* A change of staging names or a synchronisation of .staging/ is of no
\* consequence for what is durable.
LEMMA StagingKeeps ==
    ASSUME LInv, UNCHANGED <<content, flushed>>,
           \/ \E ns \in SUBSET Names, v \in BOOLEAN :
                 SetNames(ns, v) /\ \A n \in ns : n[1] = ".staging"
           \/ here' = here /\ SyncDirectory(".staging")
    PROVE  FsTypes' /\ \A b \in Artifacts : Durable(b) => Durable(b)'
<1>1. /\ here' \in [Names -> BOOLEAN] /\ disk' \in [Names -> SUBSET BOOLEAN]
      /\ \A b \in Artifacts : /\ here'[Canonical(b)] = here[Canonical(b)]
                              /\ disk'[Canonical(b)] = disk[Canonical(b)]
  <2>1. CASE here' = here /\ SyncDirectory(".staging")
    BY <2>1, Synchronised DEF LInv, FsTypes
  <2>2. ASSUME NEW ns \in SUBSET Names, NEW v \in BOOLEAN, SetNames(ns, v),
               \A n \in ns : n[1] = ".staging"
        PROVE  /\ here' \in [Names -> BOOLEAN] /\ disk' \in [Names -> SUBSET BOOLEAN]
               /\ \A b \in Artifacts : /\ here'[Canonical(b)] = here[Canonical(b)]
                                       /\ disk'[Canonical(b)] = disk[Canonical(b)]
    BY <2>2, StagingNames, Zenon DEF LInv
  <2> QED
    BY <2>1, <2>2, Zenon
<1> QED
  BY <1>1, Zenon DEF LInv, FsTypes, Durable

\* Synchronising artifacts/ makes what is there durable.
LEMMA ArtifactsSynced ==
    ASSUME LInv, UNCHANGED <<here, content, flushed>>, SyncDirectory("artifacts")
    PROVE  /\ FsTypes'
           /\ \A b \in Artifacts : Durable(b) => Durable(b)'
           /\ \A b \in Artifacts : Exact(b) => Durable(b)'
           /\ \A b \in Artifacts : disk'[Canonical(b)] = {here[Canonical(b)]}
  BY Synchronised, Zenon DEF LInv, FsTypes, Durable, Exact

\* The steps of an import that concern staging names or data alone.
LEMMA StagingStep ==
    ASSUME LInv, NEW p \in Procs,
           \/ ImportRecover(p) \/ ImportRecoverSync(p) \/ ImportCopy(p)
           \/ ImportFlush(p) \/ ImportCleanup(p) \/ ImportSyncStaging(p)
           \/ Discard(p) \/ DiscardSync(p)
    PROVE  LInv'
<1> USE DEF Working, Registering, Removing
<1>1. UNCHANGED storeVars
  BY Zenon DEF ImportRecover, ImportRecoverSync, ImportCopy, ImportFlush, ImportCleanup,
         ImportSyncStaging, Discard, DiscardSync
<1>2. CASE ImportRecover(p)
  <2>1. PICK n \in StagingEntries :
          /\ SetNames({n}, FALSE)
          /\ Goto(p, "import.syncRecovered") \/ Goto(p, "import.recover")
    BY <1>2, Zenon DEF ImportRecover
  <2>2. {n} \in SUBSET Names /\ \A k \in {n} : k[1] = ".staging"
    BY Zenon DEF StagingEntries
  <2>3. FsTypes' /\ \A b \in Artifacts : Durable(b) => Durable(b)'
    BY <1>2, <2>1, <2>2, StagingKeeps, Zenon DEF ImportRecover
  <2> QED
    BY <1>1, <1>2, <2>1, <2>3, Advance, Zenon DEF ImportRecover
<1>3. CASE ImportRecoverSync(p)
  <2>1. FsTypes' /\ \A b \in Artifacts : Durable(b) => Durable(b)'
    BY <1>3, StagingKeeps DEF ImportRecoverSync
  <2> QED
    BY <1>1, <1>3, <2>1, Advance, Zenon DEF ImportRecoverSync
<1>4. CASE ImportSyncStaging(p)
  <2>1. FsTypes' /\ \A b \in Artifacts : Durable(b) => Durable(b)'
    BY <1>4, StagingKeeps DEF ImportSyncStaging
  <2> QED
    BY <1>1, <1>4, <2>1, Advance, Zenon DEF ImportSyncStaging
<1>5. CASE DiscardSync(p)
  <2>1. FsTypes' /\ \A b \in Artifacts : Durable(b) => Durable(b)'
    BY <1>5, StagingKeeps DEF DiscardSync
  <2>2. AllDurable'
    BY <1>1, <2>1 DEF LInv, AllDurable, Installed, storeVars, installVars
  <2> QED
    BY <1>1, <1>5, <2>1, <2>2, StoreStays, ExclusiveReturn DEF DiscardSync
<1>a. pc[p] \in Working => job[p].art \in Artifacts
  BY Zenon DEF LInv, At, Jobs
<1>6. CASE ImportCleanup(p) \/ Discard(p)
  <2> DEFINE ns == {Staged(job[p].art)}
  <2>1. ns \in SUBSET Names /\ \A n \in ns : n[1] = ".staging"
    BY <1>6, <1>a, NameFacts, Zenon DEF ImportCleanup, Discard
  <2>2. SetNames(ns, FALSE) /\ UNCHANGED <<content, flushed>>
    BY <1>6, Zenon DEF ImportCleanup, Discard
  <2> HIDE DEF ns
  <2>3. FsTypes' /\ \A b \in Artifacts : Durable(b) => Durable(b)'
    BY <2>1, <2>2, StagingKeeps, Zenon
  <2>4. \/ pc[p] = "import.cleanup" /\ Goto(p, "import.syncStaging")
        \/ pc[p] = "discard" /\ Goto(p, "discard.sync")
    BY <1>6, Zenon DEF ImportCleanup, Discard
  <2> QED
    BY <1>1, <2>3, <2>4, Advance, Zenon
<1>7. CASE ImportCopy(p) \/ ImportFlush(p)
  <2>1. /\ content' = [content EXCEPT ![job[p].art] = "exact"] \/ content' = content
        /\ flushed' = [flushed EXCEPT ![job[p].art] = TRUE] \/ flushed' = flushed
        /\ UNCHANGED <<here, disk>>
    BY <1>7, Zenon DEF ImportCopy, ImportFlush
  <2>2. FsTypes' /\ \A b \in Artifacts : Durable(b) => Durable(b)'
    BY <2>1, Zenon DEF LInv, FsTypes, Durable
  <2>3. \/ pc[p] = "import.copy" /\ Goto(p, "import.flush")
        \/ pc[p] = "import.flush" /\ Goto(p, "import.link")
    BY <1>7, Zenon DEF ImportCopy, ImportFlush
  <2> QED
    BY <1>1, <2>2, <2>3, Advance, Zenon
<1> QED
  BY <1>2, <1>3, <1>4, <1>5, <1>6, <1>7

\* An import inspects, links and synchronises.
LEMMA PublishStep ==
    ASSUME LInv, NEW p \in Procs,
           ImportInspect(p) \/ ImportLink(p) \/ ImportSyncArtifacts(p)
    PROVE  LInv'
<1> USE DEF Working, Registering, Removing
<1> DEFINE a == job[p].art
<1>1. UNCHANGED storeVars
  BY Zenon DEF ImportInspect, ImportLink, ImportSyncArtifacts
<1>a. pc[p] \in Working => a \in Artifacts
  BY Zenon DEF LInv, At, Jobs
<1>2. CASE ImportInspect(p)
  <2>1. CASE Return(p) /\ UNCHANGED fsVars
    BY <1>1, <2>1, ReturnKeeps
  <2>2. CASE Goto(p, "verify") /\ UNCHANGED fsVars
    <3>1. FsTypes' /\ \A b \in Artifacts : Durable(b) => Durable(b)'
      BY <2>2, Zenon DEF LInv, FsTypes, Durable, fsVars
    <3> QED
      BY <1>1, <1>2, <2>2, <3>1, Advance, Zenon DEF ImportInspect
  <2>3. CASE /\ Lookup(a) = "missing"
             /\ SetNames({Staged(a)}, TRUE)
             /\ content' = [content EXCEPT ![a] = "partial"]
             /\ flushed' = [flushed EXCEPT ![a] = FALSE]
             /\ Goto(p, "import.copy")
    <3>1. a \in Artifacts /\ ~here[Canonical(a)]
      BY <1>2, <1>a, <2>3, Zenon DEF ImportInspect, Lookup
    <3>2. {Staged(a)} \in SUBSET Names /\ \A n \in {Staged(a)} : n[1] = ".staging"
      BY <3>1, NameFacts
    <3>3. /\ here' \in [Names -> BOOLEAN] /\ disk' \in [Names -> SUBSET BOOLEAN]
          /\ \A b \in Artifacts : /\ here'[Canonical(b)] = here[Canonical(b)]
                                  /\ disk'[Canonical(b)] = disk[Canonical(b)]
      BY <2>3, <3>2, StagingNames, Zenon DEF LInv
    <3>4. FsTypes' /\ \A b \in Artifacts : Durable(b) => Durable(b)'
      BY <2>3, <3>1, <3>3, Zenon DEF LInv, FsTypes, Durable
    <3> QED
      BY <1>1, <1>2, <2>3, <3>4, Advance, Zenon DEF ImportInspect
  <2> QED
    BY <1>2, <2>1, <2>2, <2>3, Zenon DEF ImportInspect
<1>3. CASE ImportLink(p)
  <2>1. /\ pc[p] = "import.link" /\ ~here[Canonical(a)] /\ SetNames({Canonical(a)}, TRUE)
        /\ Goto(p, "import.syncArtifacts") /\ UNCHANGED <<content, flushed>>
    BY <1>3, Zenon DEF ImportLink
  <2>2. a \in Artifacts
    BY <1>a, <2>1, Zenon
  <2>3. /\ here' \in [Names -> BOOLEAN] /\ disk' \in [Names -> SUBSET BOOLEAN]
        /\ \A b \in Artifacts \ {a} : /\ here'[Canonical(b)] = here[Canonical(b)]
                                      /\ disk'[Canonical(b)] = disk[Canonical(b)]
    BY <2>1, <2>2, CanonicalNames, Zenon DEF LInv
  <2>4. FsTypes' /\ \A b \in Artifacts : Durable(b) => Durable(b)'
    BY <2>1, <2>2, <2>3, Zenon DEF LInv, FsTypes, Durable
  <2> QED
    BY <1>1, <2>1, <2>4, Advance, Zenon
<1>4. CASE ImportSyncArtifacts(p)
  <2>1. FsTypes' /\ \A b \in Artifacts : Durable(b) => Durable(b)'
    BY <1>4, ArtifactsSynced, Zenon DEF ImportSyncArtifacts
  <2> QED
    BY <1>1, <1>4, <2>1, Advance, Zenon DEF ImportSyncArtifacts
<1> QED
  BY <1>2, <1>3, <1>4

\* Verification, synchronisation and the installation row.
LEMMA RegisterKeeps ==
    ASSUME LInv, NEW p \in Procs, Verify(p) \/ VerifySync(p) \/ Register(p)
    PROVE  LInv'
<1> USE DEF Working, Registering, Removing
<1> DEFINE a == job[p].art
<1>a. pc[p] \in Working => a \in Artifacts
  BY Zenon DEF LInv, At, Jobs
<1>1. CASE Verify(p)
  <2>1. pc[p] = "verify" /\ UNCHANGED storeVars /\ UNCHANGED <<here, disk, content>>
    BY <1>1, Zenon DEF Verify
  <2>2. CASE /\ VerifyResult(a) = "verified"
             /\ flushed' = [flushed EXCEPT ![a] = TRUE]
             /\ Goto(p, "verify.sync")
    <3>1. a \in Artifacts /\ here[Canonical(a)] /\ content[a] = "exact"
      BY <1>a, <2>1, <2>2, VerifiedExact, Zenon
    <3>2. FsTypes' /\ \A b \in Artifacts : Durable(b) => Durable(b)'
      BY <2>1, <2>2, Zenon DEF LInv, FsTypes, Durable
    <3>3. Exact(a)' /\ job' = job
      BY <2>1, <2>2, <3>1 DEF LInv, FsTypes, Exact, Goto
    <3> QED
      BY <2>1, <2>2, <3>2, <3>3, Advance, Zenon
  <2>3. CASE Return(p) /\ UNCHANGED flushed
    BY <2>1, <2>3, ReturnKeeps DEF fsVars
  <2> QED
    BY <1>1, <2>2, <2>3, Zenon DEF Verify
<1>2. CASE VerifySync(p)
  <2>1. /\ pc[p] = "verify.sync" /\ SyncDirectory("artifacts") /\ Goto(p, "register")
        /\ UNCHANGED storeVars /\ UNCHANGED <<here, content, flushed>> /\ job' = job
    BY <1>2 DEF VerifySync, Goto
  <2>2. a \in Artifacts /\ Exact(a)
    BY <1>a, <2>1, Zenon DEF LInv, At
  <2>3. /\ FsTypes' /\ \A b \in Artifacts : Durable(b) => Durable(b)'
        /\ \A b \in Artifacts : Exact(b) => Durable(b)'
    BY <2>1, ArtifactsSynced, Zenon
  <2>4. Durable(a)'
    <3> DEFINE c == job[p].art
    <3>1. \A b \in Artifacts : b = c => Durable(b)'
      BY <2>2, <2>3
    <3> QED
      BY <2>1, <2>2, <3>1, Zenon DEF Durable
  <2> QED
    BY <2>1, <2>3, <2>4, Advance, Zenon
<1>3. CASE Register(p)
  <2> DEFINE m == job[p].manifest
  <2>1. pc[p] = "register" /\ Return(p) /\ UNCHANGED fsVars
    BY <1>3, Zenon DEF Register
  <2>2. a \in Artifacts /\ m \in Manifests /\ Durable(a)
    BY <1>a, <2>1, Zenon DEF LInv, At
  <2>3. FsTypes' /\ \A b \in Artifacts : Durable(b) => Durable(b)'
    BY <2>1, Zenon DEF LInv, FsTypes, Durable, fsVars
  <2>4. CASE PutInstallation(a, m)
    <3>1. StoreNext
      BY <2>2, <2>4 DEF StoreNext, InstallationStep
    <3>2. StoreInv'
      BY <3>1, StepInv DEF LInv
    <3>3. \A b \in Artifacts \ {a} : installedEpoch'[b] = installedEpoch[b]
      BY <2>2, <2>4, Zenon DEF PutInstallation, LInv, StoreInv, StoreTypeOK
    <3>4. \A b \in Artifacts : Installed(b)' => Durable(b)
      BY <2>2, <3>3, Zenon DEF LInv, AllDurable, Installed
    <3>5. AllDurable'
      BY <2>3, <3>4 DEF AllDurable
    <3> QED
      BY <2>1, <2>3, <3>2, <3>5, ExclusiveReturn
  <2>5. CASE UNCHANGED storeVars
    BY <2>1, <2>5, ReturnKeeps
  <2> QED
    BY <1>3, <2>4, <2>5 DEF Register
<1> QED
  BY <1>1, <1>2, <1>3

\* A removal or its recovery up to the journal.
LEMMA RemovalVerifies ==
    ASSUME LInv, NEW p \in Procs, RemoveVerify(p) \/ RecoverVerify(p)
    PROVE  LInv'
<1> USE DEF Working, Registering, Removing
<1>1. /\ pc[p] \in {"remove.verify", "recover.verify"} /\ UNCHANGED storeVars
      /\ UNCHANGED <<here, content, flushed>>
  BY DEF RemoveVerify, RecoverVerify
<1>2. CASE SyncDirectory("artifacts") /\ Goto(p, "prepare")
  <2>1. FsTypes' /\ \A b \in Artifacts : Durable(b) => Durable(b)'
    BY <1>1, <1>2, ArtifactsSynced, Zenon
  <2> QED
    BY <1>1, <1>2, <2>1, Advance, Zenon
<1>3. CASE Return(p) /\ UNCHANGED disk
  BY <1>1, <1>3, ReturnKeeps DEF fsVars
<1>4. CASE /\ pc' = [pc EXCEPT ![p] = "prepare"]
           /\ job' = [job EXCEPT ![p].bytes = FALSE]
           /\ UNCHANGED <<disk, repoLock, lifeLock, faults>>
  <2> DEFINE j == [job[p] EXCEPT !.bytes = FALSE]
  <2>1. job[p] \in Jobs /\ lifeLock[p] = "exclusive" /\ job[p].epoch \in Epochs
    BY <1>1, Zenon DEF LInv, At
  <2>2. j \in Jobs /\ j.epoch = job[p].epoch
    BY <2>1, Zenon DEF Jobs
  <2>3. job' = [job EXCEPT ![p] = j]
    BY <1>4
  <2> HIDE DEF j
  <2>4. ProcTypes' /\ Others(p) /\ OneExclusive' /\ pc'[p] = "prepare" /\ job'[p] = j
    BY <1>4, <2>2, <2>3, Zenon DEF LInv, ProcTypes, Others, OneExclusive, Steps
  <2>5. At(p)'
    BY <1>4, <2>1, <2>2, <2>4, Zenon DEF At, Leasing
  <2> QED
    BY <1>1, <1>4, <2>4, <2>5, StoreStays, QuietStep DEF storeVars, fsVars
<1> QED
  BY <1>2, <1>3, <1>4 DEF RemoveVerify, RecoverVerify

\* The transaction that revokes the installation.
LEMMA PrepareKeeps ==
    ASSUME LInv, NEW p \in Procs, Prepare(p)
    PROVE  LInv'
<1> USE DEF Working, Registering, Removing
<1> DEFINE a == job[p].art
           e == job[p].epoch
<1>1. /\ pc[p] = "prepare" /\ UNCHANGED fsVars
      /\ job[p] \in Jobs /\ a \in Artifacts /\ e \in Epochs
      /\ lifeLock[p] = "exclusive"
  BY Zenon DEF Prepare, LInv, At, Jobs
<1>2. FsTypes' /\ \A b \in Artifacts : Durable(b) => Durable(b)'
  BY <1>1, Zenon DEF LInv, FsTypes, Durable, fsVars
<1>3. CASE PrepareArtifactRemoval(a, e) /\ Goto(p, "unlink")
  <2>1. StoreInv'
    <3>1. StoreNext
      BY <1>1, <1>3, Zenon DEF StoreNext, InstallationStep
    <3> QED
      BY <3>1, StepInv DEF LInv
  <2>2. /\ removalPhase' = [removalPhase EXCEPT ![a] = "prepared"]
        /\ removalEpoch' = [removalEpoch EXCEPT ![a] = e]
        /\ installedEpoch' = [installedEpoch EXCEPT ![a] = 0]
    BY <1>3 DEF PrepareArtifactRemoval
  <2>3. removalPhase'[a] = "prepared" /\ removalEpoch'[a] = e
    BY <1>1, <2>2, Zenon DEF LInv, StoreInv, StoreTypeOK
  <2>4. AllDurable'
    <3>1. \A b \in Artifacts : Installed(b)' => Installed(b)
      BY <1>1, <2>2, Zenon DEF LInv, StoreInv, StoreTypeOK, Installed
    <3> QED
      BY <1>2, <3>1 DEF LInv, AllDurable
  <2>5. pc' = [pc EXCEPT ![p] = "unlink"] /\ UNCHANGED <<job, repoLock, lifeLock, faults>>
    BY <1>3 DEF Goto
  <2>6. ProcTypes' /\ Others(p) /\ pc'[p] = "unlink"
    BY <2>5 DEF LInv, ProcTypes, Others, Steps
  <2>7. At(p)'
    BY <1>1, <2>3, <2>5, <2>6, Zenon DEF At, Journalled, Leasing
  <2> QED
    BY <1>1, <1>2, <2>1, <2>4, <2>5, <2>6, <2>7, ExclusiveStep, Zenon
<1>4. CASE /\ PrepareResult(a, e) = "AlreadyPrepared" /\ Goto(p, "unlink")
           /\ UNCHANGED storeVars
  <2>1. Journalled(a, e)
    BY <1>1, <1>4, Zenon DEF PrepareResult, Journalled, LInv, StoreInv, StoreTypeOK
  <2> QED
    BY <1>1, <1>2, <1>4, <2>1, Advance, Zenon
<1>5. CASE Return(p) /\ UNCHANGED storeVars
  BY <1>1, <1>5, ReturnKeeps
<1> QED
  BY <1>3, <1>4, <1>5, Zenon DEF Prepare

\* From the journal to its completion.
LEMMA FinishKeeps ==
    ASSUME LInv, NEW p \in Procs, Unlink(p) \/ UnlinkSync(p) \/ Complete(p)
    PROVE  LInv'
<1> USE DEF Working, Registering, Removing
<1> DEFINE a == job[p].art
           e == job[p].epoch
<1>1. /\ pc[p] \in {"unlink", "unlink.sync", "complete"}
      /\ a \in Artifacts /\ e \in Epochs /\ Journalled(a, e)
  BY Zenon DEF Unlink, UnlinkSync, Complete, LInv, At, Jobs
<1>2. ~Installed(a)
  BY <1>1, Zenon DEF LInv, StoreInv, RemovalStateSound, ValidRemovalState, Journalled
<1>3. CASE Unlink(p)
  <2> DEFINE ns == {Canonical(a)} \cap {n \in Names : here[n]}
  <2>1. /\ pc[p] = "unlink" /\ SetNames(ns, FALSE) /\ Goto(p, "unlink.sync")
        /\ UNCHANGED storeVars /\ UNCHANGED <<content, flushed>>
    BY <1>3, Zenon DEF Unlink
  <2>2. ns \in SUBSET {Canonical(a)} /\ (ns = {} => ~here[Canonical(a)])
    BY <1>1, NameFacts, Zenon
  <2> HIDE DEF ns
  <2>3. /\ here' \in [Names -> BOOLEAN] /\ disk' \in [Names -> SUBSET BOOLEAN]
        /\ \A b \in Artifacts \ {a} : /\ here'[Canonical(b)] = here[Canonical(b)]
                                      /\ disk'[Canonical(b)] = disk[Canonical(b)]
        /\ here'[Canonical(a)] = IF ns = {} THEN here[Canonical(a)] ELSE FALSE
    BY <1>1, <2>1, <2>2, CanonicalNames, Zenon DEF LInv
  <2>4. ~here'[Canonical(a)]
    BY <2>2, <2>3, Zenon
  <2>5. FsTypes'
    BY <2>1, <2>3, Zenon DEF LInv, FsTypes
  <2>6. \A b \in Artifacts : Installed(b) => Durable(b)'
    BY <1>2, <2>1, <2>3, Zenon DEF LInv, AllDurable, Durable
  <2>7. AllDurable'
    BY <2>1, <2>6 DEF AllDurable, Installed, storeVars, installVars
  <2>8. /\ pc' = [pc EXCEPT ![p] = "unlink.sync"]
        /\ UNCHANGED <<job, repoLock, lifeLock, faults>>
        /\ UNCHANGED <<removalPhase, removalEpoch>>
    BY <2>1 DEF Goto, storeVars, installVars
  <2>9. ProcTypes' /\ Others(p) /\ pc'[p] = "unlink.sync"
    BY <2>8 DEF LInv, ProcTypes, Others, Steps
  <2>10. job[p] \in Jobs /\ lifeLock[p] = "exclusive"
    BY <1>1, Zenon DEF LInv, At
  <2>11. At(p)'
    BY <1>1, <2>4, <2>8, <2>9, <2>10, Zenon DEF At, Journalled, Leasing
  <2> QED
    BY <2>1, <2>5, <2>7, <2>8, <2>9, <2>10, <2>11, StoreStays, ExclusiveStep, Zenon
<1>4. CASE UnlinkSync(p)
  <2>1. /\ pc[p] = "unlink.sync" /\ SyncDirectory("artifacts") /\ Goto(p, "complete")
        /\ UNCHANGED storeVars /\ UNCHANGED <<here, content, flushed>>
    BY <1>4 DEF UnlinkSync
  <2>2. here[Canonical(a)] = FALSE
    <3>1. ~here[Canonical(a)]
      BY <2>1, Zenon DEF LInv, At
    <3>2. here[Canonical(a)] \in BOOLEAN
      BY <1>1, NameFacts, Zenon DEF LInv, FsTypes
    <3> QED
      BY <3>1, <3>2
  <2>3. /\ FsTypes' /\ \A b \in Artifacts : Durable(b) => Durable(b)'
        /\ disk'[Canonical(a)] = {FALSE}
    BY <1>1, <2>1, <2>2, ArtifactsSynced, Zenon
  <2> QED
    BY <1>1, <2>1, <2>3, Advance, Zenon
<1>5. CASE Complete(p)
  <2>1. CompleteArtifactRemoval(a, e) /\ Return(p) /\ UNCHANGED fsVars
    BY <1>5, Zenon DEF Complete
  <2>2. StoreInv'
    <3>1. StoreNext
      BY <1>1, <2>1, Zenon DEF StoreNext, InstallationStep
    <3> QED
      BY <3>1, StepInv DEF LInv
  <2>3. FsTypes' /\ AllDurable'
    BY <2>1, Zenon DEF LInv, FsTypes, AllDurable, Installed, Durable, fsVars,
                CompleteArtifactRemoval
  <2> QED
    BY <1>1, <2>1, <2>2, <2>3, ExclusiveReturn, Zenon
<1> QED
  BY <1>3, <1>4, <1>5

\* A power loss leaves what was durable and no operation.
LEMMA PowerLossKeeps == LInv /\ PowerLoss => LInv'
<1> SUFFICES ASSUME LInv, PowerLoss PROVE LInv'
  OBVIOUS
<1>1. PICK h \in [Names -> BOOLEAN] :
        /\ \A n \in Names : h[n] \in disk[n]
        /\ here' = h /\ disk' = [n \in Names |-> {h[n]}]
  BY Zenon DEF PowerLoss
<1>2. PICK torn \in SUBSET {a \in Artifacts : ~flushed[a]} :
        content' = [a \in Artifacts |-> IF a \in torn THEN "partial" ELSE content[a]]
  BY Zenon DEF PowerLoss
<1>3. /\ flushed' = [a \in Artifacts |-> TRUE] /\ UNCHANGED storeVars
      /\ pc' = [p \in Procs |-> "idle"] /\ job' = [p \in Procs |-> NoJob]
      /\ repoLock' = [p \in Procs |-> "none"] /\ lifeLock' = [p \in Procs |-> "none"]
      /\ faults' \in 0..MaxFaults
  <2>1. /\ flushed' = [a \in Artifacts |-> TRUE] /\ UNCHANGED storeVars
        /\ pc' = [p \in Procs |-> "idle"] /\ job' = [p \in Procs |-> NoJob]
        /\ repoLock' = [p \in Procs |-> "none"] /\ lifeLock' = [p \in Procs |-> "none"]
    BY Zenon DEF PowerLoss
  <2>2. faults < MaxFaults /\ faults' = faults + 1
    BY Zenon DEF PowerLoss, Fault
  <2>3. faults \in 0..MaxFaults
    BY Zenon DEF LInv, ProcTypes
  <2>4. faults' \in 0..MaxFaults
    BY <2>2, <2>3, LimitAssumption
  <2> QED
    BY <2>1, <2>4, Zenon
<1>4. FsTypes'
  BY <1>1, <1>2, <1>3 DEF LInv, FsTypes
<1>5. ASSUME NEW b \in Artifacts, Durable(b) PROVE Durable(b)'
  BY <1>1, <1>2, <1>3, <1>5, NameFacts, Zenon DEF Durable
<1>6. AllDurable'
  BY <1>3, <1>5 DEF LInv, AllDurable, Installed, storeVars, installVars
<1>7. ProcTypes' /\ OneExclusive'
  BY <1>3 DEF ProcTypes, OneExclusive, Steps, Modes
<1>8. \A p \in Procs : At(p)'
  BY <1>3, Zenon DEF At, Working, Leasing, Registering, Removing
<1> QED
  BY <1>3, <1>4, <1>6, <1>7, <1>8, StoreStays DEF LInv

\* Qualifications and activations leave installation rows and files alone.
LEMMA StoreCallKeeps == LInv /\ StoreCall => LInv'
<1> SUFFICES ASSUME LInv, StoreCall PROVE LInv'
  OBVIOUS
<1>1. UNCHANGED <<fsVars, procVars, faults>> /\ ActivationStep
  BY DEF StoreCall
<1>2. UNCHANGED installVars
  BY <1>1, Zenon DEF ActivationStep, PutQualification, Invalidate, Activate, Deactivate
<1>3. StoreInv'
  BY <1>1, StepInv DEF LInv, StoreNext
<1>4. UNCHANGED <<installedEpoch, here, disk, content, flushed,
                  pc, job, repoLock, lifeLock, faults>>
  BY <1>1, <1>2 DEF installVars, fsVars, procVars
<1>5. ProcTypes' /\ FsTypes' /\ OneExclusive' /\ AllDurable'
  BY <1>4, Zenon DEF LInv, ProcTypes, FsTypes, OneExclusive, AllDurable, Installed, Durable
<1>6. \A q \in Procs : At(q)'
  BY <1>1, <1>2, <1>4, QuietAt, Zenon
<1> QED
  BY <1>3, <1>5, <1>6 DEF LInv

-----------------------------------------------------------------------------
(* The invariant holds.                                                    *)

\* An empty store over an empty repository satisfies it.
LEMMA InitLInv == Init => LInv
<1> SUFFICES ASSUME Init PROVE LInv
  OBVIOUS
<1>1. StoreInv
  BY InitInv DEF Init
<1>2. ProcTypes /\ FsTypes /\ OneExclusive
  BY LimitAssumption DEF Init, ProcTypes, FsTypes, OneExclusive, Steps, Modes
<1>3. \A p \in Procs : At(p)
  BY Zenon DEF Init, At, Working, Leasing, Registering, Removing
<1>4. AllDurable
  BY DEF Init, StoreInit, AllDurable, Installed
<1> QED
  BY <1>1, <1>2, <1>3, <1>4 DEF LInv

\* Every step keeps it.
LEMMA NextLInv == LInv /\ [Next]_vars => LInv'
<1> SUFFICES ASSUME LInv, [Next]_vars PROVE LInv'
  OBVIOUS
<1>1. ASSUME NEW p \in Procs, Continue(p) PROVE LInv'
  BY <1>1, OpenStep, StagingStep, PublishStep, RegisterKeeps, RemovalVerifies,
     PrepareKeeps, FinishKeeps, LeaseKeeps, Zenon
     DEF Continue, ImportStep, RegisterStep, RemovalStep
<1>2. CASE UNCHANGED vars
  <2>1. UNCHANGED <<storeVars, installVars, fsVars, procVars, faults>>
    BY <1>2 DEF vars, storeVars
  <2>2. UNCHANGED <<installedEpoch, here, disk, content, flushed,
                    pc, job, repoLock, lifeLock, faults>>
    BY <2>1 DEF installVars, fsVars, procVars
  <2>3. ProcTypes' /\ FsTypes' /\ OneExclusive' /\ AllDurable'
    BY <2>2, Zenon DEF LInv, ProcTypes, FsTypes, OneExclusive, AllDurable, Installed, Durable
  <2>4. \A q \in Procs : At(q)'
    BY <2>1, <2>2, QuietAt, Zenon
  <2> QED
    BY <2>1, <2>3, <2>4, StoreStays DEF LInv
<1> QED
  BY <1>1, <1>2, BeginKeepsAll, FaultStep, PowerLossKeeps, StoreCallKeeps DEF Next

\* The invariant of the repository holds in every reachable state.
THEOREM LifecycleInvariant == Spec => []LInv
  BY InitLInv, NextLInv, PTL DEF Spec

\* For any number of artifacts, processes and faults: an installation row and
\* an active role stand on bytes that survive a power loss
\* (artifact_import.rs:217, artifact_removal.rs:184).
THEOREM InstalledDurable == Spec => []InstalledBytesDurable
<1>1. ASSUME LInv PROVE InstalledBytesDurable
  <2>1. TypeOK
    BY <1>1 DEF LInv, StoreInv, ProcTypes, FsTypes, TypeOK
  <2>2. ASSUME NEW r \in BoundRoles PROVE Durable(activeBindings[r].artifact)
    <3>1. activeBindings[r] \in Bindings
      BY <1>1 DEF LInv, StoreInv, StoreTypeOK, BoundRoles
    <3>2. activeBindings[r].artifact \in Artifacts
      BY <3>1 DEF Bindings
    <3>3. Installed(activeBindings[r].artifact)
      BY <1>1 DEF LInv, StoreInv, ActiveBindingsSound, ValidBinding
    <3> QED
      BY <1>1, <3>2, <3>3 DEF LInv, AllDurable
  <2> QED
    BY <1>1, <2>1, <2>2 DEF InstalledBytesDurable, LInv, AllDurable
<1> QED
  BY <1>1, LifecycleInvariant, PTL

\* A lease keeps its generation installed and its bytes in place
\* (runtime_artifact_lease.rs:42).
THEOREM LeasesProtect == Spec => []LeaseProtects
<1>1. LInv => LeaseProtects
  BY Zenon DEF LInv, At, LeaseProtects
<1> QED
  BY <1>1, LifecycleInvariant, PTL

-----------------------------------------------------------------------------
(* What steps may do.                                                      *)

\* A journal row goes from prepared to completed only in Complete.
LEMMA CompletionStep ==
    ASSUME LInv, [Next]_vars, NEW a \in Artifacts,
           removalPhase[a] = "prepared", removalPhase'[a] = "completed"
    PROVE  \E p \in Procs : pc[p] = "complete" /\ job[p].art = a
<1>1. ~UNCHANGED storeVars
  BY DEF storeVars, installVars
<1>2. ~UNCHANGED vars /\ ~PowerLoss
  BY <1>1, Zenon DEF vars, PowerLoss
<1>3. ~StoreCall
  <2>1. StoreCall => UNCHANGED installVars
    BY Zenon DEF StoreCall, ActivationStep, PutQualification, Invalidate, Activate, Deactivate
  <2> QED
    BY <2>1 DEF installVars
<1>4. PICK p \in Procs : BeginStep(p) \/ Continue(p) \/ Fail(p) \/ Kill(p)
  BY <1>2, <1>3, Zenon DEF Next
<1>5. ~BeginStep(p) /\ ~Fail(p) /\ ~Kill(p) /\ ~LeaseStep(p) /\ ~OpenBusy(p)
  BY <1>1, Zenon DEF BeginStep, Begin, ImportBegin, ReconcileBegin, RemoveBegin, RecoverBegin,
              LeaseBegin, Fail, Kill, LeaseStep, LeaseVerify, LeaseConfirm, LeaseRelease,
              OpenBusy
<1>6. ~ImportStep(p)
  BY <1>1, Zenon DEF ImportStep, ImportOpen, ImportRecover, ImportRecoverSync, ImportInspect,
              ImportCopy, ImportFlush, ImportLink, ImportSyncArtifacts, ImportCleanup,
              ImportSyncStaging, Discard, DiscardSync
<1>7. ~RegisterStep(p)
  <2>1. ~ReconcileOpen(p) /\ ~Verify(p) /\ ~VerifySync(p)
    BY <1>1, Zenon DEF ReconcileOpen, Verify, VerifySync
  <2>2. ~Register(p)
    BY <1>1, Zenon DEF Register, PutInstallation
  <2> QED
    BY <2>1, <2>2, Zenon DEF RegisterStep
<1>8. Prepare(p) \/ Complete(p)
  <2>1. ~RemoveOpen(p) /\ ~RemoveVerify(p) /\ ~RecoverOpen(p) /\ ~RecoverVerify(p)
        /\ ~Unlink(p) /\ ~UnlinkSync(p)
    BY <1>1, Zenon DEF RemoveOpen, RemoveVerify, RecoverOpen, RecoverVerify, Unlink, UnlinkSync
  <2> QED
    BY <1>4, <1>5, <1>6, <1>7, <2>1, Zenon DEF Continue, RemovalStep
<1>9. ~Prepare(p)
  <2>1. ASSUME Prepare(p)
        PROVE  removalPhase' = [removalPhase EXCEPT ![job[p].art] = "prepared"]
    BY <1>1, <2>1, Zenon DEF Prepare, PrepareArtifactRemoval
  <2>2. Prepare(p) => removalPhase'[a] # "completed"
    BY <2>1, Zenon DEF LInv, StoreInv, StoreTypeOK
  <2> QED
    BY <2>2, Zenon
<1>10. pc[p] = "complete"
       /\ removalPhase' = [removalPhase EXCEPT ![job[p].art] = "completed"]
  BY <1>8, <1>9, Zenon DEF Complete, CompleteArtifactRemoval
<1>11. job[p].art = a
  BY <1>10, Zenon DEF LInv, StoreInv, StoreTypeOK
<1> QED
  BY <1>10, <1>11

\* A removal is completed only when no power loss can bring the name back
\* (removal.rs:68, artifact_removal.rs:244).
THEOREM CompletedGone == Spec => CompletionMeansGone
<1>1. ASSUME LInv, [Next]_vars, NEW a \in Artifacts,
             removalPhase[a] = "prepared", removalPhase'[a] = "completed"
      PROVE  disk[Canonical(a)] = {FALSE}
  <2>1. PICK p \in Procs : pc[p] = "complete" /\ job[p].art = a
    BY <1>1, CompletionStep, Zenon
  <2>2. At(p)
    BY <1>1, Zenon DEF LInv
  <2> QED
    BY <2>1, <2>2, Zenon DEF At
<1>2. LInv /\ [Next]_vars =>
        [\A a \in Artifacts :
           removalPhase[a] = "prepared" /\ removalPhase'[a] = "completed"
              => disk[Canonical(a)] = {FALSE}]_vars
  BY <1>1, Zenon
<1> QED
  BY <1>2, LifecycleInvariant, PTL DEF Spec, CompletionMeansGone

\* Canonical bytes go only in Unlink, or with the power.
LEMMA UnlinkStep ==
    ASSUME LInv, [Next]_vars, faults' = faults, NEW a \in Artifacts,
           here[Canonical(a)], ~here'[Canonical(a)]
    PROVE  \E p \in Procs : pc[p] = "unlink" /\ job[p].art = a
<1>1. here' # here /\ ~UNCHANGED fsVars
  BY DEF fsVars
<1>2. ~Fault
  <2>1. faults \in 0..MaxFaults
    BY DEF LInv, ProcTypes
  <2>2. faults \in Nat
    BY <2>1, LimitAssumption
  <2> QED
    BY <2>2 DEF Fault
<1>3. ~UNCHANGED vars /\ ~PowerLoss /\ ~StoreCall
  BY <1>1, <1>2, Zenon DEF vars, PowerLoss, StoreCall
<1>4. PICK p \in Procs : BeginStep(p) \/ Continue(p) \/ Fail(p) \/ Kill(p)
  BY <1>3, Zenon DEF Next
<1>5. ~BeginStep(p) /\ ~Fail(p) /\ ~Kill(p) /\ ~LeaseStep(p) /\ ~OpenBusy(p)
  BY <1>1, <1>2, Zenon
     DEF BeginStep, Begin, ImportBegin, ReconcileBegin, RemoveBegin, RecoverBegin,
         LeaseBegin, Fail, Kill, LeaseStep, LeaseVerify, LeaseConfirm, LeaseRelease,
         OpenBusy
<1>a. pc[p] \in Working => job[p].art \in Artifacts
  BY Zenon DEF LInv, At, Jobs, Working
<1>6. ASSUME NEW ns \in SUBSET Names, \A n \in ns : n[1] = ".staging", NEW v \in BOOLEAN
      PROVE  ~SetNames(ns, v)
  BY <1>6, StagingNames, Zenon DEF LInv
<1>7. ~ImportStep(p)
  <2>1. /\ ~ImportOpen(p) /\ ~ImportRecoverSync(p) /\ ~ImportCopy(p) /\ ~ImportFlush(p)
        /\ ~ImportSyncArtifacts(p) /\ ~ImportSyncStaging(p) /\ ~DiscardSync(p)
    BY <1>1, Zenon DEF ImportOpen, ImportRecoverSync, ImportCopy, ImportFlush,
                ImportSyncArtifacts, ImportSyncStaging, DiscardSync
  <2>2. ~ImportRecover(p)
    BY <1>6, Zenon DEF ImportRecover, StagingEntries
  <2>3. \A b \in Artifacts, v \in BOOLEAN : ~SetNames({Staged(b)}, v)
    BY <1>6, NameFacts, Zenon
  <2>4. ~ImportInspect(p)
    BY <1>1, <1>a, <2>3, Zenon DEF ImportInspect, Working
  <2>5. ~ImportCleanup(p) /\ ~Discard(p)
    BY <1>a, <2>3, Zenon DEF ImportCleanup, Discard, Working
  <2>6. ~ImportLink(p)
    <3>1. ASSUME ImportLink(p) PROVE FALSE
      <4>1. job[p].art \in Artifacts /\ SetNames({Canonical(job[p].art)}, TRUE)
        BY <1>a, <3>1, Zenon DEF ImportLink, Working
      <4> QED
        BY <4>1, NameFacts, Zenon DEF SetNames
    <3> QED
      BY <3>1, Zenon
  <2> QED
    BY <2>1, <2>2, <2>4, <2>5, <2>6, Zenon DEF ImportStep
<1>8. ~RegisterStep(p)
  BY <1>1, Zenon DEF RegisterStep, ReconcileOpen, Verify, VerifySync, Register
<1>9. Unlink(p)
  <2>1. /\ ~RemoveOpen(p) /\ ~RemoveVerify(p) /\ ~RecoverOpen(p) /\ ~RecoverVerify(p)
        /\ ~Prepare(p) /\ ~UnlinkSync(p) /\ ~Complete(p)
    BY <1>1 DEF RemoveOpen, RemoveVerify, RecoverOpen, RecoverVerify, Prepare,
                UnlinkSync, Complete
  <2> QED
    BY <1>4, <1>5, <1>7, <1>8, <2>1, Zenon DEF Continue, RemovalStep
<1>10. job[p].art = a
  <2>1. job[p].art \in Artifacts
    BY <1>9, <1>a, Zenon DEF Unlink, Working
  <2>2. PICK ns \in SUBSET {Canonical(job[p].art)} : SetNames(ns, FALSE)
    BY <1>9, Zenon DEF Unlink
  <2>3. \A b \in Artifacts \ {job[p].art} : here'[Canonical(b)] = here[Canonical(b)]
    BY <2>1, <2>2, CanonicalNames, Zenon DEF LInv
  <2> QED
    BY <2>3
<1> QED
  BY <1>9, <1>10, Zenon DEF Unlink

\* Only the journalled generation is unlinked, by the process that journalled
\* it or recovers it (removal.rs:58, artifact_removal.rs:244).
THEOREM UnlinkPrepared == Spec => UnlinkOnlyPrepared
<1>1. ASSUME LInv, [Next]_vars, NEW p \in Procs, NEW a \in Artifacts,
             pc[p] = "unlink", here[Canonical(a)], ~here'[Canonical(a)], faults' = faults
      PROVE  /\ removalPhase[a] = "prepared"
             /\ removalEpoch[a] = job[p].epoch
             /\ a = job[p].art
  <2>1. PICK q \in Procs : pc[q] = "unlink" /\ job[q].art = a
    BY <1>1, UnlinkStep, Zenon
  <2>2. lifeLock[p] = "exclusive" /\ lifeLock[q] = "exclusive"
    BY <1>1, <2>1, Zenon DEF LInv, At, Working
  <2>3. q = p
    BY <1>1, <2>2, Zenon DEF LInv, OneExclusive
  <2> QED
    BY <1>1, <2>1, <2>3, Zenon DEF LInv, At, Journalled
<1>2. LInv /\ [Next]_vars =>
        [\A p \in Procs, a \in Artifacts :
           pc[p] = "unlink" /\ here[Canonical(a)] /\ ~here'[Canonical(a)] /\ faults' = faults
              => /\ removalPhase[a] = "prepared"
                 /\ removalEpoch[a] = job[p].epoch
                 /\ a = job[p].art]_vars
  BY <1>1, Zenon
<1> QED
  BY <1>2, LifecycleInvariant, PTL DEF Spec, UnlinkOnlyPrepared

-----------------------------------------------------------------------------
(* The repository is a client of the store.                                *)

\* A step of the repository is a transaction of the store or leaves its rows
\* alone: no file operation, fault or lock changes a row.
LEMMA RepositoryStep == LInv /\ [Next]_vars => [StoreNext]_storeVars
<1> SUFFICES ASSUME LInv, [Next]_vars, ~UNCHANGED storeVars PROVE StoreNext
  BY Zenon
<1>1. ~UNCHANGED vars /\ ~PowerLoss
  BY Zenon DEF vars, PowerLoss
<1>2. CASE StoreCall
  BY <1>2, Zenon DEF StoreCall, StoreNext
<1>3. ASSUME NEW p \in Procs, BeginStep(p) \/ Continue(p) \/ Fail(p) \/ Kill(p)
      PROVE  StoreNext
  <2>1. ~BeginStep(p) /\ ~Fail(p) /\ ~Kill(p) /\ ~LeaseStep(p) /\ ~OpenBusy(p)
    BY Zenon DEF BeginStep, Begin, ImportBegin, ReconcileBegin, RemoveBegin, RecoverBegin,
                 LeaseBegin, Fail, Kill, LeaseStep, LeaseVerify, LeaseConfirm, LeaseRelease,
                 OpenBusy
  <2>2. ~ImportStep(p)
    BY Zenon DEF ImportStep, ImportOpen, ImportRecover, ImportRecoverSync, ImportInspect,
                 ImportCopy, ImportFlush, ImportLink, ImportSyncArtifacts, ImportCleanup,
                 ImportSyncStaging, Discard, DiscardSync
  <2>3. CASE RegisterStep(p)
    <3>1. Register(p)
      BY <2>3, Zenon DEF RegisterStep, ReconcileOpen, Verify, VerifySync
    <3>2. job[p].art \in Artifacts /\ job[p].manifest \in Manifests
      BY <3>1, Zenon DEF Register, LInv, At, Working, Registering, Jobs
    <3>3. PutInstallation(job[p].art, job[p].manifest)
      BY <3>1, Zenon DEF Register
    <3> QED
      BY <3>2, <3>3, Zenon DEF StoreNext, InstallationStep
  <2>4. CASE RemovalStep(p)
    <3>1. Prepare(p) \/ Complete(p)
      BY <2>4, Zenon DEF RemovalStep, RemoveOpen, RemoveVerify, RecoverOpen, RecoverVerify,
                         Unlink, UnlinkSync
    <3>2. job[p].art \in Artifacts /\ job[p].epoch \in Epochs
      BY <3>1, Zenon DEF Prepare, Complete, LInv, At, Removing, Jobs
    <3>3. \/ PrepareArtifactRemoval(job[p].art, job[p].epoch)
          \/ CompleteArtifactRemoval(job[p].art, job[p].epoch)
      BY <3>1, Zenon DEF Prepare, Complete
    <3> QED
      BY <3>2, <3>3, Zenon DEF StoreNext, InstallationStep
  <2> QED
    BY <1>3, <2>1, <2>2, <2>3, <2>4, Zenon DEF Continue
<1> QED
  BY <1>1, <1>2, <1>3, Zenon DEF Next

\* The repository with its files, locks, crashes and concurrent processes is a
\* client of the state store and nothing more: every behaviour of it, seen
\* through the rows, is one of the store's specification, so the keys and
\* manifests its operations carry across their steps are always ones the store
\* accepts (artifact_removal.rs:184, artifact_reconciliation.rs:128).
THEOREM RepositoryRefinesStore == Spec => StoreSpec
<1>1. Init => StoreInit
  BY DEF Init
<1> QED
  BY <1>1, LifecycleInvariant, RepositoryStep, PTL DEF Spec, StoreSpec

\* So all that is proved of the store alone holds of the rows in the composed
\* system too: valid removal rows, pointers that a restart recovers, a decision
\* log that explains them, and generations that never repeat
\* (store/removal.rs:273, store.rs:450).
THEOREM RepositoryKeepsStore ==
    Spec => /\ [](RemovalStateSound /\ ActiveBindingsSound /\ DecisionsExplainBindings)
            /\ ImplementsRegistry
  BY RepositoryRefinesStore, RemovalStateCorrect, ActiveBindingsCorrect, DecisionsCorrect,
     RegistryRefined, PTL

-----------------------------------------------------------------------------
(* Publication is all or nothing.                                          *)

\* A canonical name that is visible, or that a power loss may bring back,
\* stands for exact bytes that are on disk; a name that is gone for no pending
\* removal cannot come back.
Published(a) ==
    /\ here[Canonical(a)] \/ TRUE \in disk[Canonical(a)] =>
          content[a] = "exact" /\ flushed[a]
    /\ removalPhase[a] # "prepared" /\ ~here[Canonical(a)] => disk[Canonical(a)] = {FALSE}

\* What the operation of a process has found and may still rely on.
Ready(p) ==
    /\ pc[p] \in {"remove.open", "remove.verify", "recover.open", "recover.verify"} =>
          job[p].bytes
    /\ pc[p] = "import.recover" => StagingEntries # {}
    /\ pc[p] \in {"import.copy", "import.flush"} => Lookup(job[p].art) = "missing"
    /\ pc[p] \in {"import.flush", "import.link"} => content[job[p].art] = "exact"
    /\ pc[p] = "import.link" => flushed[job[p].art] /\ ~here[Canonical(job[p].art)]
    /\ pc[p] \in {"prepare", "unlink"} =>
          /\ job[p].bytes <=> here[Canonical(job[p].art)]
          /\ job[p].bytes => ~here[Staged(job[p].art)]
    /\ pc[p] \in {"lease.verify", "lease.confirm"} =>
          installedEpoch[job[p].art] = job[p].epoch

PInv == LInv /\ (\A a \in Artifacts : Published(a)) /\ (\A p \in Procs : Ready(p))

\* A step that leaves files and installation rows alone concerns no one else.
LEMMA QuietReady ==
    ASSUME PInv, UNCHANGED <<installVars, fsVars>>
    PROVE  /\ \A a \in Artifacts : Published(a)'
           /\ \A q \in Procs : pc'[q] = pc[q] /\ job'[q] = job[q] => Ready(q)'
<1>1. UNCHANGED <<installedEpoch, removalPhase, here, disk, content, flushed>>
  BY DEF installVars, fsVars
<1>2. \A a \in Artifacts : Published(a)'
  BY <1>1, Zenon DEF PInv, Published
<1>3. ASSUME NEW q \in Procs, pc'[q] = pc[q], job'[q] = job[q] PROVE Ready(q)'
  <2>1. Ready(q)
    BY DEF PInv
  <2> QED
    BY <1>1, <1>3, <2>1, ZenonT(60) DEF Ready, Lookup, StorageEntries, StagingEntries
<1> QED
  BY <1>2, <1>3, Zenon

\* Under the exclusive lock the others have found nothing yet.
LEMMA ReadyOthers ==
    ASSUME PInv, NEW p \in Procs, pc[p] \in Working, Others(p)
    PROVE  \A q \in Procs \ {p} : Ready(q)'
<1>1. ASSUME NEW q \in Procs \ {p} PROVE Ready(q)'
  <2>1. lifeLock[p] = "exclusive" /\ lifeLock[q] = "none"
    BY Zenon DEF PInv, LInv, At, OneExclusive
  <2>2. pc[q] \notin Working \cup Leasing
    BY <2>1, Zenon DEF PInv, LInv, At
  <2>3. Ready(q) /\ pc'[q] = pc[q] /\ job'[q] = job[q]
    BY DEF PInv, Others
  <2> QED
    BY <2>2, <2>3, Zenon DEF Ready, Working, Leasing
<1> QED
  BY <1>1

\* Goto moves the process on, keeps its job and leaves the others alone.
LEMMA Moved ==
    ASSUME LInv, NEW p \in Procs, NEW step, Goto(p, step)
    PROVE  pc'[p] = step /\ job'[p] = job[p] /\ Others(p)
  BY Zenon DEF LInv, ProcTypes, Goto, Others

\* Nothing is relied on at a step outside these.
LEMMA NothingNeeded ==
    ASSUME NEW p \in Procs,
           pc'[p] \notin {"remove.open", "remove.verify", "recover.open", "recover.verify",
                          "import.recover", "import.copy", "import.flush", "import.link",
                          "prepare", "unlink", "lease.verify", "lease.confirm"}
    PROVE  Ready(p)'
  BY Zenon DEF Ready

\* The operations that begin.
LEMMA BeginReady ==
    ASSUME PInv, NEW p \in Procs, BeginStep(p)
    PROVE  (\A a \in Artifacts : Published(a)') /\ (\A q \in Procs : Ready(q)')
<1>0. LInv /\ UNCHANGED <<installVars, fsVars>>
  <2>1. LInv /\ UNCHANGED storeVars /\ UNCHANGED fsVars
    BY Zenon DEF PInv, BeginStep, ImportBegin, ReconcileBegin, RemoveBegin, RecoverBegin, Begin,
                 LeaseBegin
  <2> QED
    BY <2>1 DEF storeVars
<1>1. CASE \E step \in {"import.open", "reconcile.open"}, j \in Jobs : Begin(p, step, j)
  <2>1. /\ pc'[p] \in {"import.open", "reconcile.open"}
        /\ \A q \in Procs \ {p} : pc'[q] = pc[q] /\ job'[q] = job[q]
    BY <1>0, <1>1, Zenon DEF Begin, LInv, ProcTypes
  <2>2. Ready(p)'
    BY <2>1, NothingNeeded, Zenon
  <2> QED
    BY <1>0, <2>1, <2>2, QuietReady, Zenon
<1>2. CASE \E step \in {"remove.open", "recover.open"}, j \in Jobs : Begin(p, step, j) /\ j.bytes
  <2>1. /\ pc'[p] \in {"remove.open", "recover.open"} /\ job'[p].bytes
        /\ \A q \in Procs \ {p} : pc'[q] = pc[q] /\ job'[q] = job[q]
    BY <1>0, <1>2, Zenon DEF Begin, LInv, ProcTypes
  <2>2. Ready(p)'
    BY <2>1, Zenon DEF Ready
  <2> QED
    BY <1>0, <2>1, <2>2, QuietReady, Zenon
<1>3. ASSUME NEW a \in Artifacts, NEW e \in KnownEpochs(a), LeaseBegin(p, a, e)
      PROVE  (\A b \in Artifacts : Published(b)') /\ (\A q \in Procs : Ready(q)')
  <2> DEFINE j == [art |-> a, manifest |-> NoManifest, epoch |-> e, bytes |-> TRUE]
  <2>1. j.art = a /\ j.epoch = e
    OBVIOUS
  <2>2. /\ pc' = [pc EXCEPT ![p] = "lease.verify"] /\ job' = [job EXCEPT ![p] = j]
        /\ installedEpoch[a] = e /\ installedEpoch' = installedEpoch
    BY <1>0, <1>3, Zenon DEF LeaseBegin, installVars
  <2> HIDE DEF j
  <2>3. /\ pc'[p] = "lease.verify" /\ job'[p] = j
        /\ \A q \in Procs \ {p} : pc'[q] = pc[q] /\ job'[q] = job[q]
    BY <1>0, <2>2, Zenon DEF LInv, ProcTypes
  <2>4. Ready(p)'
    BY <2>1, <2>2, <2>3, Zenon DEF Ready
  <2> QED
    BY <1>0, <2>3, <2>4, QuietReady, Zenon
<1>4. ASSUME NEW a \in Artifacts, NEW m \in Manifests,
             ImportBegin(p, a, m) \/ ReconcileBegin(p, a, m)
      PROVE  \E step \in {"import.open", "reconcile.open"}, j \in Jobs : Begin(p, step, j)
  <2> DEFINE j == [art |-> a, manifest |-> m, epoch |-> 0, bytes |-> FALSE]
  <2>1. j \in Jobs
    BY EpochAssumption DEF Jobs
  <2> QED
    BY <1>4, <2>1, Zenon DEF ImportBegin, ReconcileBegin
<1>5. ASSUME NEW a \in Artifacts, NEW e \in KnownEpochs(a),
             RemoveBegin(p, a, e) \/ RecoverBegin(p, a, e)
      PROVE  \E step \in {"remove.open", "recover.open"}, j \in Jobs : Begin(p, step, j) /\ j.bytes
  <2> DEFINE j == [art |-> a, manifest |-> NoManifest, epoch |-> e, bytes |-> TRUE]
  <2>1. e \in 0..MaxEpoch
    BY <1>0, KnownEpoch, Zenon
  <2>2. j \in Jobs /\ j.bytes
    BY <2>1 DEF Jobs
  <2> QED
    BY <1>5, <2>2, Zenon DEF RemoveBegin, RecoverBegin
<1> QED
  BY <1>1, <1>2, <1>3, <1>4, <1>5, Zenon DEF BeginStep

\* Returns, kills and errors.
LEMMA ReturnReady ==
    ASSUME PInv, NEW p \in Procs, Returned(p), UNCHANGED <<installVars, fsVars>>
    PROVE  (\A a \in Artifacts : Published(a)') /\ (\A q \in Procs : Ready(q)')
<1>1. pc'[p] = "idle" /\ \A q \in Procs \ {p} : pc'[q] = pc[q] /\ job'[q] = job[q]
  BY Zenon DEF PInv, LInv, ProcTypes, Returned
<1>2. Ready(p)'
  BY <1>1, NothingNeeded, Zenon
<1> QED
  BY <1>1, <1>2, QuietReady, Zenon

\* A step that changes neither files nor installation rows has to account for
\* its own process alone.
LEMMA StepReady ==
    ASSUME PInv, NEW p \in Procs, UNCHANGED <<installVars, fsVars>>,
           \A q \in Procs \ {p} : pc'[q] = pc[q] /\ job'[q] = job[q], Ready(p)'
    PROVE  (\A a \in Artifacts : Published(a)') /\ (\A q \in Procs : Ready(q)')
  BY QuietReady, Zenon

\* An error or a kill leaves at most the cleanup of a staging file to do.
LEMMA FaultReady ==
    ASSUME PInv, NEW p \in Procs, Fail(p) \/ Kill(p)
    PROVE  (\A a \in Artifacts : Published(a)') /\ (\A q \in Procs : Ready(q)')
<1>1. UNCHANGED <<installVars, fsVars>>
  <2>1. UNCHANGED storeVars /\ UNCHANGED fsVars
    BY DEF Fail, Kill
  <2> QED
    BY <2>1 DEF storeVars
<1>2. CASE Returned(p)
  BY <1>1, <1>2, ReturnReady
<1>3. CASE pc' = [pc EXCEPT ![p] = "discard"] /\ UNCHANGED <<job, repoLock, lifeLock>>
  <2>1. pc'[p] = "discard" /\ \A q \in Procs \ {p} : pc'[q] = pc[q] /\ job'[q] = job[q]
    BY <1>3, Zenon DEF PInv, LInv, ProcTypes
  <2> QED
    BY <1>1, <2>1, NothingNeeded, StepReady, Zenon
<1> QED
  BY <1>2, <1>3 DEF Fail, Kill, Returned

\* Taking the lifecycle lock, or not, and the steps of a lease.
LEMMA OpenReady ==
    ASSUME PInv, NEW p \in Procs,
           \/ OpenBusy(p) \/ ImportOpen(p) \/ ReconcileOpen(p) \/ RemoveOpen(p) \/ RecoverOpen(p)
           \/ LeaseStep(p)
    PROVE  (\A a \in Artifacts : Published(a)') /\ (\A q \in Procs : Ready(q)')
<1>1. UNCHANGED <<installVars, fsVars>>
  <2>1. UNCHANGED storeVars /\ UNCHANGED fsVars
    BY Zenon DEF OpenBusy, ImportOpen, ReconcileOpen, RemoveOpen, RecoverOpen, LeaseStep,
                 LeaseVerify, LeaseConfirm, LeaseRelease
  <2> QED
    BY <2>1 DEF storeVars
<1>2. Ready(p) /\ LInv
  BY DEF PInv
<1>3. CASE Return(p)
  BY <1>1, <1>3, ReturnReady, Zenon DEF Return, Returned
<1>4. ASSUME NEW step, TakeLifecycle(p, step) \/ Goto(p, step)
      PROVE  /\ pc'[p] = step /\ job'[p] = job[p]
             /\ \A q \in Procs \ {p} : pc'[q] = pc[q] /\ job'[q] = job[q]
  BY <1>2, <1>4, Zenon DEF TakeLifecycle, Goto, LInv, ProcTypes
<1>5. CASE /\ pc[p] = "import.open"
           /\ TakeLifecycle(p, IF StagingEntries = {} THEN "import.inspect" ELSE "import.recover")
  <2>1. /\ pc'[p] = IF StagingEntries = {} THEN "import.inspect" ELSE "import.recover"
        /\ \A q \in Procs \ {p} : pc'[q] = pc[q] /\ job'[q] = job[q]
    BY <1>4, <1>5, Zenon
  <2>2. CASE StagingEntries = {}
    <3>1. Ready(p)'
      BY <2>1, <2>2, NothingNeeded
    <3> QED
      BY <1>1, <2>1, <3>1, StepReady, Zenon
  <2>3. CASE StagingEntries # {}
    <3>1. here' = here
      BY <1>1 DEF fsVars
    <3>2. StagingEntries' # {}
      BY <2>3, <3>1, Zenon DEF StagingEntries
    <3>3. pc'[p] = "import.recover"
      BY <2>1, <2>3, Zenon
    <3>4. Ready(p)'
      BY <3>2, <3>3, Zenon DEF Ready
    <3> QED
      BY <1>1, <2>1, <3>4, StepReady, Zenon
  <2> QED
    BY <2>2, <2>3, Zenon
<1>6. CASE TakeLifecycle(p, "verify") \/ Goto(p, "leased")
  <2>1. /\ pc'[p] \in {"verify", "leased"}
        /\ \A q \in Procs \ {p} : pc'[q] = pc[q] /\ job'[q] = job[q]
    BY <1>4, <1>6, Zenon
  <2>2. Ready(p)'
    BY <2>1, NothingNeeded, Zenon
  <2> QED
    BY <1>1, <2>1, <2>2, StepReady, Zenon
<1>7. CASE \/ pc[p] = "remove.open" /\ TakeLifecycle(p, "remove.verify")
           \/ pc[p] = "recover.open" /\ TakeLifecycle(p, "recover.verify")
  <2>1. pc'[p] \in {"remove.verify", "recover.verify"} /\ job'[p] = job[p] /\ job[p].bytes
    BY <1>2, <1>4, <1>7, Zenon DEF Ready
  <2>2. Ready(p)'
    BY <2>1, Zenon DEF Ready
  <2> QED
    BY <1>1, <1>4, <1>7, <2>2, StepReady, Zenon
<1>8. CASE pc[p] = "lease.verify" /\ Goto(p, "lease.confirm")
  <2>1. installedEpoch' = installedEpoch
    BY <1>1 DEF installVars
  <2>2. /\ pc'[p] = "lease.confirm" /\ job'[p] = job[p]
        /\ \A q \in Procs \ {p} : pc'[q] = pc[q] /\ job'[q] = job[q]
    BY <1>4, <1>8, Zenon
  <2>3. installedEpoch[job[p].art] = job[p].epoch
    BY <1>2, <1>8, Zenon DEF Ready
  <2>4. Ready(p)'
    BY <2>1, <2>2, <2>3, Zenon DEF Ready
  <2> QED
    BY <1>1, <2>2, <2>4, StepReady, Zenon
<1> QED
  BY <1>3, <1>5, <1>6, <1>7, <1>8, Zenon
     DEF OpenBusy, ImportOpen, ReconcileOpen, RemoveOpen, RecoverOpen, LeaseStep,
         LeaseVerify, LeaseConfirm, LeaseRelease

\* Staging names and data that leave the canonical names as they are.
LEMMA CanonicalKept ==
    ASSUME PInv, UNCHANGED removalPhase,
           \A b \in Artifacts : /\ here'[Canonical(b)] = here[Canonical(b)]
                                /\ disk'[Canonical(b)] = disk[Canonical(b)],
           \A b \in Artifacts :
               /\ content[b] = "exact" /\ flushed[b]
               /\ here[Canonical(b)] \/ TRUE \in disk[Canonical(b)]
               => content'[b] = "exact" /\ flushed'[b]
    PROVE  \A b \in Artifacts : Published(b)'
  BY Zenon DEF PInv, Published

\* Changes of staging names.
LEMMA StagingCanonical ==
    ASSUME PInv,
           \/ \E ns \in SUBSET Names, v \in BOOLEAN :
                 SetNames(ns, v) /\ \A n \in ns : n[1] = ".staging"
           \/ here' = here /\ SyncDirectory(".staging")
    PROVE  \A b \in Artifacts : /\ here'[Canonical(b)] = here[Canonical(b)]
                                /\ disk'[Canonical(b)] = disk[Canonical(b)]
<1>1. FsTypes
  BY DEF PInv, LInv
<1>2. CASE here' = here /\ SyncDirectory(".staging")
  BY <1>1, <1>2, Synchronised, Zenon
<1>3. ASSUME NEW ns \in SUBSET Names, NEW v \in BOOLEAN, SetNames(ns, v),
             \A n \in ns : n[1] = ".staging"
      PROVE  \A b \in Artifacts : /\ here'[Canonical(b)] = here[Canonical(b)]
                                  /\ disk'[Canonical(b)] = disk[Canonical(b)]
  BY <1>1, <1>3, StagingNames, Zenon
<1> QED
  BY <1>2, <1>3, Zenon

\* So has a step under the exclusive lock, whatever it does to the files.
LEMMA AdvanceReady ==
    ASSUME PInv, NEW p \in Procs, pc[p] \in Working, Others(p),
           \A b \in Artifacts : Published(b)', Ready(p)'
    PROVE  (\A b \in Artifacts : Published(b)') /\ (\A q \in Procs : Ready(q)')
  BY ReadyOthers, Zenon

\* What remains to be removed from .staging/.
LEMMA RecoverReady ==
    ASSUME PInv, NEW p \in Procs, ImportRecover(p)
    PROVE  (\A b \in Artifacts : Published(b)') /\ (\A q \in Procs : Ready(q)')
<1>0. LInv
  BY DEF PInv
<1>1. PICK n \in StagingEntries :
        /\ SetNames({n}, FALSE)
        /\ Goto(p, IF StagingEntries = {n} THEN "import.syncRecovered" ELSE "import.recover")
  BY Zenon DEF ImportRecover
<1>2. /\ pc[p] \in Working /\ UNCHANGED <<content, flushed>> /\ UNCHANGED removalPhase
  BY DEF ImportRecover, Working, storeVars, installVars
<1>3. {n} \in SUBSET Names /\ \A k \in {n} : k[1] = ".staging"
  BY Zenon DEF StagingEntries
<1>4. \A b \in Artifacts : /\ here'[Canonical(b)] = here[Canonical(b)]
                           /\ disk'[Canonical(b)] = disk[Canonical(b)]
  BY <1>1, <1>3, StagingCanonical, Zenon
<1>5. \A b \in Artifacts : Published(b)'
  BY <1>2, <1>4, CanonicalKept, Zenon
<1>6. /\ pc'[p] = IF StagingEntries = {n} THEN "import.syncRecovered" ELSE "import.recover"
      /\ Others(p)
  BY <1>0, <1>1, Moved, Zenon
<1>7. Ready(p)'
  <2>1. CASE StagingEntries = {n}
    BY <1>6, <2>1, NothingNeeded
  <2>2. CASE StagingEntries # {n}
    <3>1. PICK k \in StagingEntries : k # n
      BY <2>2
    <3>2. k \in Names /\ k[1] = ".staging" /\ here[k]
      BY <3>1, Zenon DEF StagingEntries
    <3>3. here'[k]
      BY <1>1, <3>1, <3>2, Zenon DEF SetNames
    <3>4. StagingEntries' # {}
      BY <3>2, <3>3, Zenon DEF StagingEntries
    <3>5. pc'[p] = "import.recover"
      BY <1>6, <2>2, Zenon
    <3> QED
      BY <3>4, <3>5, Zenon DEF Ready
  <2> QED
    BY <2>1, <2>2, Zenon
<1> QED
  BY <1>2, <1>5, <1>6, <1>7, AdvanceReady, Zenon

\* The other steps that concern staging names alone.
LEMMA StagingReady ==
    ASSUME PInv, NEW p \in Procs,
           \/ ImportRecoverSync(p) \/ ImportCleanup(p) \/ ImportSyncStaging(p)
           \/ Discard(p) \/ DiscardSync(p)
    PROVE  (\A b \in Artifacts : Published(b)') /\ (\A q \in Procs : Ready(q)')
<1>0. LInv
  BY DEF PInv
<1>1. /\ pc[p] \in Working /\ UNCHANGED <<content, flushed>> /\ UNCHANGED storeVars
  BY Zenon DEF ImportRecoverSync, ImportCleanup, ImportSyncStaging, Discard, DiscardSync, Working
<1>2. UNCHANGED removalPhase
  BY <1>1 DEF storeVars, installVars
<1>3. job[p].art \in Artifacts
  BY <1>0, <1>1, Zenon DEF LInv, At, Jobs, Working
<1>4. \/ SetNames({Staged(job[p].art)}, FALSE)
      \/ here' = here /\ SyncDirectory(".staging")
  BY Zenon DEF ImportRecoverSync, ImportCleanup, ImportSyncStaging, Discard, DiscardSync
<1>5. \A b \in Artifacts : /\ here'[Canonical(b)] = here[Canonical(b)]
                           /\ disk'[Canonical(b)] = disk[Canonical(b)]
  <2>1. {Staged(job[p].art)} \in SUBSET Names /\ \A n \in {Staged(job[p].art)} : n[1] = ".staging"
    BY <1>3, NameFacts, Zenon
  <2> QED
    BY <1>4, <2>1, StagingCanonical, Zenon
<1>6. \A b \in Artifacts : Published(b)'
  BY <1>1, <1>2, <1>5, CanonicalKept, Zenon
<1>7. /\ pc'[p] \in {"import.inspect", "import.syncStaging", "verify", "discard.sync", "idle"}
      /\ Others(p)
  <2>1. CASE \E step \in {"import.inspect", "import.syncStaging", "verify", "discard.sync"} :
               Goto(p, step)
    BY <1>0, <2>1, Moved, Zenon
  <2>2. CASE Return(p)
    BY <1>0, <2>2, Zenon DEF Return, LInv, ProcTypes, Others
  <2> QED
    BY <2>1, <2>2, Zenon
       DEF ImportRecoverSync, ImportCleanup, ImportSyncStaging, Discard, DiscardSync
<1>8. Ready(p)'
  BY <1>7, NothingNeeded, Zenon
<1> QED
  BY <1>1, <1>6, <1>7, <1>8, AdvanceReady, Zenon

\* The data of an import goes where no canonical name can show it.
LEMMA InspectReady ==
    ASSUME PInv, NEW p \in Procs, ImportInspect(p)
    PROVE  (\A b \in Artifacts : Published(b)') /\ (\A q \in Procs : Ready(q)')
<1> DEFINE a == job[p].art
<1>0. LInv /\ pc[p] \in Working /\ UNCHANGED storeVars
  BY Zenon DEF PInv, ImportInspect, Working
<1>1. a \in Artifacts /\ UNCHANGED installVars /\ UNCHANGED removalPhase
  <2>1. a \in Artifacts
    BY <1>0, Zenon DEF LInv, At, Jobs, Working
  <2> QED
    BY <1>0, <2>1 DEF storeVars, installVars
<1>2. CASE Return(p) /\ UNCHANGED fsVars
  BY <1>1, <1>2, ReturnReady, Zenon DEF Return, Returned
<1>3. CASE Goto(p, "verify") /\ UNCHANGED fsVars
  <2>1. pc'[p] = "verify" /\ \A q \in Procs \ {p} : pc'[q] = pc[q] /\ job'[q] = job[q]
    BY <1>0, <1>3, Moved, Zenon DEF Others
  <2>2. Ready(p)'
    BY <2>1, NothingNeeded, Zenon
  <2> QED
    BY <1>1, <1>3, <2>1, <2>2, StepReady, Zenon
<1>4. CASE /\ ~RemovalPending(a) /\ Lookup(a) = "missing"
           /\ SetNames({Staged(a)}, TRUE)
           /\ content' = [content EXCEPT ![a] = "partial"]
           /\ flushed' = [flushed EXCEPT ![a] = FALSE]
           /\ Goto(p, "import.copy")
  <2>1. ~here[Canonical(a)]
    BY <1>4, Zenon DEF Lookup
  <2>2. ~Installed(a)
    BY <1>0, <1>1, <2>1, Zenon DEF LInv, AllDurable, Durable
  <2>3. disk[Canonical(a)] = {FALSE}
    BY <1>1, <1>4, <2>1, <2>2, Zenon DEF RemovalPending, PInv, Published
  <2>4. TRUE \notin disk[Canonical(a)]
    BY <2>3
  <2>5. {Staged(a)} \in SUBSET Names /\ \A n \in {Staged(a)} : n[1] = ".staging"
    BY <1>1, NameFacts, Zenon
  <2>6. \A b \in Artifacts : /\ here'[Canonical(b)] = here[Canonical(b)]
                             /\ disk'[Canonical(b)] = disk[Canonical(b)]
    BY <1>4, <2>5, StagingCanonical, Zenon
  <2>7. \A b \in Artifacts \ {a} : content'[b] = content[b] /\ flushed'[b] = flushed[b]
    BY <1>0, <1>1, <1>4, Zenon DEF LInv, FsTypes
  <2>8. \A b \in Artifacts : Published(b)'
    BY <1>1, <2>1, <2>4, <2>6, <2>7, CanonicalKept, Zenon
  <2>9. pc'[p] = "import.copy" /\ job'[p] = job[p] /\ Others(p)
    BY <1>0, <1>4, Moved, Zenon
  <2>10. Lookup(a)' = Lookup(a)
    <3>1. StorageEntries' = StorageEntries
      BY <2>6, Zenon DEF StorageEntries
    <3>2. here'[Canonical(a)] = here[Canonical(a)]
      BY <1>1, <2>6, Zenon
    <3> QED
      BY <2>9, <3>1, <3>2, Zenon DEF Lookup
  <2>11. Ready(p)'
    BY <1>4, <2>9, <2>10, Zenon DEF Ready
  <2> QED
    BY <1>0, <2>8, <2>9, <2>11, AdvanceReady, Zenon
<1> QED
  BY <1>2, <1>3, <1>4, Zenon DEF ImportInspect

\* Copying and flushing prepare exactly what the link publishes.
LEMMA CopyReady ==
    ASSUME PInv, NEW p \in Procs, ImportCopy(p) \/ ImportFlush(p)
    PROVE  (\A b \in Artifacts : Published(b)') /\ (\A q \in Procs : Ready(q)')
<1> DEFINE a == job[p].art
<1>0. /\ LInv /\ pc[p] \in Working /\ UNCHANGED storeVars /\ UNCHANGED <<here, disk>>
      /\ Ready(p)
  BY Zenon DEF PInv, ImportCopy, ImportFlush, Working
<1>1. a \in Artifacts /\ UNCHANGED removalPhase
  <2>1. a \in Artifacts
    BY <1>0, Zenon DEF LInv, At, Jobs, Working
  <2> QED
    BY <1>0, <2>1 DEF storeVars, installVars
<1>2. \A b \in Artifacts :
        /\ content[b] = "exact" => content'[b] = "exact"
        /\ flushed[b] => flushed'[b]
  BY <1>0, <1>1, Zenon DEF ImportCopy, ImportFlush, LInv, FsTypes
<1>3. \A b \in Artifacts : Published(b)'
  BY <1>0, <1>1, <1>2, CanonicalKept, Zenon
<1>4. Lookup(a) = "missing" /\ ~here[Canonical(a)]
  BY <1>0, Zenon DEF Ready, ImportCopy, ImportFlush, Lookup
<1>5. CASE ImportCopy(p)
  <2>1. pc'[p] = "import.flush" /\ job'[p] = job[p] /\ Others(p)
    BY <1>0, <1>5, Moved, Zenon DEF ImportCopy
  <2>2. content'[a] = "exact"
    BY <1>0, <1>1, <1>5, Zenon DEF ImportCopy, LInv, FsTypes
  <2>3. Lookup(a)' = "missing"
    BY <1>0, <1>4, <2>1, Zenon DEF Lookup, StorageEntries
  <2>4. Ready(p)'
    BY <2>1, <2>2, <2>3, Zenon DEF Ready
  <2> QED
    BY <1>0, <1>3, <2>1, <2>4, AdvanceReady, Zenon
<1>6. CASE ImportFlush(p)
  <2>1. pc'[p] = "import.link" /\ job'[p] = job[p] /\ Others(p)
    BY <1>0, <1>6, Moved, Zenon DEF ImportFlush
  <2>2. content'[a] = "exact"
    BY <1>0, <1>1, <1>2, <1>6, Zenon DEF ImportFlush, Ready
  <2>3. flushed'[a]
    BY <1>0, <1>1, <1>6, Zenon DEF ImportFlush, LInv, FsTypes
  <2>4. Ready(p)'
    BY <1>0, <1>4, <2>1, <2>2, <2>3, Zenon DEF Ready
  <2> QED
    BY <1>0, <1>3, <2>1, <2>4, AdvanceReady, Zenon
<1> QED
  BY <1>5, <1>6

\* The link, and the unlink of what is journalled.
LEMMA LinkReady ==
    ASSUME PInv, NEW p \in Procs, ImportLink(p) \/ Unlink(p)
    PROVE  (\A b \in Artifacts : Published(b)') /\ (\A q \in Procs : Ready(q)')
<1> DEFINE a == job[p].art
<1>0. /\ LInv /\ pc[p] \in Working /\ UNCHANGED storeVars /\ UNCHANGED <<content, flushed>>
      /\ Ready(p) /\ FsTypes
  BY Zenon DEF PInv, LInv, ImportLink, Unlink, Working
<1>1. a \in Artifacts /\ UNCHANGED removalPhase
  <2>1. a \in Artifacts
    BY <1>0, Zenon DEF LInv, At, Jobs, Working
  <2> QED
    BY <1>0, <2>1 DEF storeVars, installVars
<1>2. PICK ns \in SUBSET {Canonical(a)}, v \in BOOLEAN : SetNames(ns, v)
  BY Zenon DEF ImportLink, Unlink
<1>3. \A b \in Artifacts \ {a} : /\ here'[Canonical(b)] = here[Canonical(b)]
                                 /\ disk'[Canonical(b)] = disk[Canonical(b)]
  <2>1. ASSUME NEW b \in Artifacts \ {a}
        PROVE  here'[Canonical(b)] = here[Canonical(b)] /\ disk'[Canonical(b)] = disk[Canonical(b)]
    <3>1. Canonical(b) \in Names /\ Canonical(b) \notin ns
      BY <1>1, <1>2, NameFacts, Zenon
    <3> QED
      BY <1>2, <3>1, Zenon DEF SetNames
  <2> QED
    BY <2>1, Zenon
<1>4. \A b \in Artifacts \ {a} : Published(b)'
  BY <1>0, <1>1, <1>3, Zenon DEF PInv, Published
<1>5. pc'[p] \in {"import.syncArtifacts", "unlink.sync"} /\ job'[p] = job[p] /\ Others(p)
  <2>1. \E step \in {"import.syncArtifacts", "unlink.sync"} : Goto(p, step)
    BY Zenon DEF ImportLink, Unlink
  <2> QED
    BY <1>0, <2>1, Moved, Zenon
<1>6. ASSUME NEW b \in Artifacts, b = a PROVE Published(b)'
  <2>1. CASE ImportLink(p)
    <3>1. content[b] = "exact" /\ flushed[b]
      BY <1>0, <1>6, <2>1, Zenon DEF ImportLink, Ready
    <3>2. here'[Canonical(b)]
      BY <1>1, <1>6, <2>1, NameFacts, Zenon DEF ImportLink, SetNames
    <3> QED
      BY <1>0, <3>1, <3>2, Zenon DEF Published
  <2>2. CASE Unlink(p)
    <3>1. removalPhase[b] = "prepared"
      BY <1>0, <1>6, <2>2, Zenon DEF LInv, At, Unlink, Journalled
    <3>2. SetNames({Canonical(b)} \cap {n \in Names : here[n]}, FALSE)
      BY <1>6, <2>2, Zenon DEF Unlink
    <3>3. disk'[Canonical(b)] \in {disk[Canonical(b)], disk[Canonical(b)] \cup {FALSE}}
      BY <1>6, <3>2, NameFacts, Zenon DEF SetNames
    <3>4. TRUE \in disk'[Canonical(b)] => TRUE \in disk[Canonical(b)]
      BY <3>3, Zenon
    <3>5. ~here'[Canonical(b)]
      BY <1>6, <3>2, NameFacts, Zenon DEF SetNames
    <3> QED
      BY <1>0, <1>1, <3>1, <3>4, <3>5, Zenon DEF PInv, Published
  <2> QED
    BY <2>1, <2>2
<1>7. \A b \in Artifacts : Published(b)'
  BY <1>4, <1>6, Zenon
<1>8. Ready(p)'
  BY <1>5, NothingNeeded, Zenon
<1> QED
  BY <1>0, <1>5, <1>7, <1>8, AdvanceReady, Zenon

\* Synchronising artifacts/ fixes what is visible.
LEMMA SyncedPublished ==
    ASSUME PInv, UNCHANGED removalPhase, UNCHANGED <<here, content, flushed>>,
           SyncDirectory("artifacts")
    PROVE  \A b \in Artifacts : Published(b)'
<1>1. FsTypes
  BY DEF PInv, LInv
<1>2. ASSUME NEW b \in Artifacts PROVE Published(b)'
  <2>1. disk'[Canonical(b)] = {here[Canonical(b)]}
    BY <1>1, Synchronised, Zenon
  <2>2. here[Canonical(b)] \in BOOLEAN
    BY <1>1, NameFacts, Zenon DEF FsTypes
  <2>3. CASE here[Canonical(b)] = TRUE
    BY <2>3, Zenon DEF PInv, Published
  <2>4. CASE here[Canonical(b)] = FALSE
    <3>1. disk'[Canonical(b)] = {FALSE}
      BY <2>1, <2>4, Zenon
    <3>2. TRUE \notin {FALSE}
      OBVIOUS
    <3> QED
      BY <2>4, <3>1, <3>2, Zenon DEF Published
  <2> QED
    BY <2>2, <2>3, <2>4, Zenon
<1> QED
  BY <1>2, Zenon

\* Steps that synchronise artifacts/ on their way to a step that relies on
\* nothing, and the verification before registration.
LEMMA SyncReady ==
    ASSUME PInv, NEW p \in Procs,
           ImportSyncArtifacts(p) \/ VerifySync(p) \/ UnlinkSync(p) \/ Verify(p)
    PROVE  (\A b \in Artifacts : Published(b)') /\ (\A q \in Procs : Ready(q)')
<1>0. LInv /\ pc[p] \in Working /\ UNCHANGED storeVars
  BY Zenon DEF PInv, ImportSyncArtifacts, VerifySync, UnlinkSync, Verify, Working
<1>1. UNCHANGED removalPhase
  BY <1>0 DEF storeVars, installVars
<1>2. \A b \in Artifacts : Published(b)'
  <2>1. CASE UNCHANGED <<here, content, flushed>> /\ SyncDirectory("artifacts")
    BY <1>1, <2>1, SyncedPublished, Zenon
  <2>2. CASE Verify(p)
    <3>1. /\ UNCHANGED <<here, disk, content>>
          /\ flushed' = [flushed EXCEPT ![job[p].art] = TRUE] \/ flushed' = flushed
      BY <2>2, Zenon DEF Verify
    <3>2. \A b \in Artifacts : flushed[b] => flushed'[b]
      BY <1>0, <3>1, Zenon DEF LInv, FsTypes
    <3> QED
      BY <1>1, <3>1, <3>2, CanonicalKept, Zenon
  <2> QED
    BY <2>1, <2>2, Zenon DEF ImportSyncArtifacts, VerifySync, UnlinkSync
<1>3. pc'[p] \in {"import.cleanup", "register", "complete", "verify.sync", "idle"} /\ Others(p)
  <2>1. CASE \E step \in {"import.cleanup", "register", "complete", "verify.sync"} : Goto(p, step)
    BY <1>0, <2>1, Moved, Zenon
  <2>2. CASE Return(p)
    BY <1>0, <2>2, Zenon DEF Return, LInv, ProcTypes, Others
  <2> QED
    BY <2>1, <2>2, Zenon DEF ImportSyncArtifacts, VerifySync, UnlinkSync, Verify
<1>4. Ready(p)'
  BY <1>3, NothingNeeded, Zenon
<1> QED
  BY <1>0, <1>2, <1>3, <1>4, AdvanceReady, Zenon

\* A removal enters its transaction knowing whether the bytes are there.
LEMMA RemovalReady ==
    ASSUME PInv, NEW p \in Procs, RemoveVerify(p) \/ RecoverVerify(p)
    PROVE  (\A b \in Artifacts : Published(b)') /\ (\A q \in Procs : Ready(q)')
<1> DEFINE a == job[p].art
<1>0. /\ LInv /\ pc[p] \in Working /\ UNCHANGED storeVars /\ UNCHANGED <<here, content, flushed>>
      /\ pc[p] \in {"remove.verify", "recover.verify"} /\ Ready(p)
  BY Zenon DEF PInv, RemoveVerify, RecoverVerify, Working
<1>1. UNCHANGED removalPhase /\ UNCHANGED installVars
  BY <1>0 DEF storeVars, installVars
<1>2. CASE VerifyResult(a) = "verified" /\ SyncDirectory("artifacts") /\ Goto(p, "prepare")
  <2>1. \A b \in Artifacts : Published(b)'
    BY <1>0, <1>1, <1>2, SyncedPublished, Zenon
  <2>2. here[Canonical(a)] /\ ~here[Staged(a)] /\ job[p].bytes
    BY <1>0, <1>2, Zenon DEF VerifyResult, Lookup, Ready
  <2>3. pc'[p] = "prepare" /\ job'[p] = job[p] /\ Others(p)
    BY <1>0, <1>2, Moved, Zenon
  <2>4. Ready(p)'
    BY <1>0, <2>2, <2>3, Zenon DEF Ready
  <2> QED
    BY <1>0, <2>1, <2>3, <2>4, AdvanceReady, Zenon
<1>3. CASE Return(p) /\ UNCHANGED disk
  BY <1>0, <1>1, <1>3, ReturnReady, Zenon DEF Return, Returned, fsVars
<1>4. CASE /\ VerifyResult(a) = "missing"
           /\ pc' = [pc EXCEPT ![p] = "prepare"]
           /\ job' = [job EXCEPT ![p].bytes = FALSE]
           /\ UNCHANGED disk
  <2> DEFINE j == [job[p] EXCEPT !.bytes = FALSE]
  <2>1. job[p] \in Jobs
    BY <1>0, Zenon DEF LInv, At
  <2>2. j.art = a /\ j.bytes = FALSE
    BY <2>1 DEF Jobs
  <2>3. job' = [job EXCEPT ![p] = j]
    BY <1>4
  <2> HIDE DEF j
  <2>4. /\ pc'[p] = "prepare" /\ job'[p] = j
        /\ \A q \in Procs \ {p} : pc'[q] = pc[q] /\ job'[q] = job[q]
    BY <1>0, <1>4, <2>3, Zenon DEF LInv, ProcTypes
  <2>5. ~here[Canonical(a)]
    BY <1>4, Zenon DEF VerifyResult, Lookup
  <2>6. ~j.bytes
    BY <2>2
  <2>7. Ready(p)'
    BY <1>0, <2>2, <2>4, <2>5, <2>6, Zenon DEF Ready
  <2> QED
    BY <1>0, <1>1, <1>4, <2>4, <2>7, StepReady, Zenon DEF fsVars
<1> QED
  BY <1>2, <1>3, <1>4, Zenon DEF RemoveVerify, RecoverVerify

\* The transactions on the installation rows.
LEMMA TransactionReady ==
    ASSUME PInv, NEW p \in Procs, Register(p) \/ Prepare(p) \/ Complete(p)
    PROVE  (\A b \in Artifacts : Published(b)') /\ (\A q \in Procs : Ready(q)')
<1> DEFINE a == job[p].art
<1>0. /\ LInv /\ pc[p] \in Working /\ UNCHANGED <<here, disk, content, flushed>> /\ Ready(p)
      /\ removalPhase \in [Artifacts -> {"none", "prepared", "completed"}]
  <2>1. pc[p] \in Working /\ UNCHANGED fsVars /\ LInv /\ Ready(p)
    BY Zenon DEF PInv, Register, Prepare, Complete, Working
  <2> QED
    BY <2>1 DEF fsVars, LInv, StoreInv, StoreTypeOK
<1>1. a \in Artifacts
  BY <1>0, Zenon DEF LInv, At, Jobs, Working
<1>2. \/ UNCHANGED removalPhase
      \/ removalPhase' = [removalPhase EXCEPT ![a] = "prepared"]
      \/ pc[p] = "complete" /\ removalPhase' = [removalPhase EXCEPT ![a] = "completed"]
  <2>1. UNCHANGED storeVars => UNCHANGED removalPhase
    BY DEF storeVars, installVars
  <2> QED
    BY <2>1, Zenon DEF Register, PutInstallation, Prepare, PrepareArtifactRemoval, Complete,
                       CompleteArtifactRemoval
<1>3. \A b \in Artifacts : Published(b)'
  <2>1. CASE UNCHANGED removalPhase
    BY <1>0, <2>1, Zenon DEF PInv, Published
  <2>2. CASE removalPhase' = [removalPhase EXCEPT ![a] = "prepared"]
    <3>1. \A b \in Artifacts : removalPhase'[b] # "prepared" => removalPhase[b] # "prepared"
      BY <1>0, <2>2, Zenon
    <3> QED
      BY <1>0, <3>1, Zenon DEF PInv, Published
  <2>3. CASE pc[p] = "complete" /\ removalPhase' = [removalPhase EXCEPT ![a] = "completed"]
    <3>1. disk[Canonical(a)] = {FALSE}
      BY <1>0, <2>3, Zenon DEF LInv, At
    <3>2. \A b \in Artifacts \ {a} : removalPhase'[b] = removalPhase[b]
      BY <1>0, <2>3, Zenon
    <3> QED
      BY <1>0, <3>1, <3>2, Zenon DEF PInv, Published
  <2> QED
    BY <1>2, <2>1, <2>2, <2>3, Zenon
<1>4. CASE Return(p)
  <2>1. pc'[p] = "idle" /\ Others(p)
    BY <1>0, <1>4, Zenon DEF Return, LInv, ProcTypes, Others
  <2>2. Ready(p)'
    BY <2>1, NothingNeeded, Zenon
  <2> QED
    BY <1>0, <1>3, <2>1, <2>2, AdvanceReady, Zenon
<1>5. CASE pc[p] = "prepare" /\ Goto(p, "unlink")
  <2>1. pc'[p] = "unlink" /\ job'[p] = job[p] /\ Others(p)
    BY <1>0, <1>5, Moved, Zenon
  <2>2. Ready(p)'
    BY <1>0, <1>5, <2>1, Zenon DEF Ready
  <2> QED
    BY <1>0, <1>3, <2>1, <2>2, AdvanceReady, Zenon
<1> QED
  BY <1>4, <1>5, Zenon DEF Register, Prepare, Complete

\* A power loss brings back only names of bytes that it cannot tear.
LEMMA PowerLossReady ==
    ASSUME PInv, PowerLoss
    PROVE  (\A b \in Artifacts : Published(b)') /\ (\A q \in Procs : Ready(q)')
<1>1. PICK h \in [Names -> BOOLEAN] :
        /\ \A n \in Names : h[n] \in disk[n]
        /\ here' = h /\ disk' = [n \in Names |-> {h[n]}]
  BY Zenon DEF PowerLoss
<1>2. PICK torn \in SUBSET {a \in Artifacts : ~flushed[a]} :
        content' = [a \in Artifacts |-> IF a \in torn THEN "partial" ELSE content[a]]
  BY Zenon DEF PowerLoss
<1>3. /\ flushed' = [a \in Artifacts |-> TRUE] /\ pc' = [p \in Procs |-> "idle"]
  BY Zenon DEF PowerLoss
<1>4. ASSUME NEW b \in Artifacts PROVE Published(b)'
  <2>1. /\ Canonical(b) \in Names /\ here'[Canonical(b)] = h[Canonical(b)]
        /\ disk'[Canonical(b)] = {h[Canonical(b)]} /\ h[Canonical(b)] \in disk[Canonical(b)]
        /\ h[Canonical(b)] \in BOOLEAN
    BY <1>1, NameFacts, Zenon
  <2>2. CASE h[Canonical(b)] = TRUE
    <3>1. content[b] = "exact" /\ flushed[b]
      BY <2>1, <2>2, Zenon DEF PInv, Published
    <3>2. content'[b] = "exact" /\ flushed'[b]
      BY <1>2, <1>3, <3>1, Zenon
    <3> QED
      BY <2>1, <2>2, <3>2, Zenon DEF Published
  <2>3. CASE h[Canonical(b)] = FALSE
    <3>1. disk'[Canonical(b)] = {FALSE} /\ ~here'[Canonical(b)]
      BY <2>1, <2>3, Zenon
    <3>2. TRUE \notin {FALSE}
      OBVIOUS
    <3> QED
      BY <3>1, <3>2, Zenon DEF Published
  <2> QED
    BY <2>1, <2>2, <2>3, Zenon
<1>5. \A q \in Procs : Ready(q)'
  BY <1>3, NothingNeeded, Zenon
<1> QED
  BY <1>4, <1>5, Zenon

\* The invariant of publication holds at the start and is kept.
LEMMA InitPInv == Init => PInv
<1> SUFFICES ASSUME Init PROVE PInv
  OBVIOUS
<1>1. LInv
  BY InitLInv
<1>2. ASSUME NEW b \in Artifacts PROVE Published(b)
  <2>1. ~here[Canonical(b)] /\ disk[Canonical(b)] = {FALSE}
    BY NameFacts, Zenon DEF Init
  <2>2. TRUE \notin {FALSE}
    OBVIOUS
  <2> QED
    BY <2>1, <2>2, Zenon DEF Published
<1>3. \A q \in Procs : Ready(q)
  BY Zenon DEF Init, Ready
<1> QED
  BY <1>1, <1>2, <1>3, Zenon DEF PInv

\* Every step keeps it.
LEMMA NextPInv == PInv /\ [Next]_vars => PInv'
<1> SUFFICES ASSUME PInv, [Next]_vars
             PROVE  (\A b \in Artifacts : Published(b)') /\ (\A q \in Procs : Ready(q)')
  BY NextLInv, Zenon DEF PInv
<1>1. ASSUME NEW p \in Procs, Continue(p)
      PROVE  (\A b \in Artifacts : Published(b)') /\ (\A q \in Procs : Ready(q)')
  BY <1>1, OpenReady, RecoverReady, StagingReady, InspectReady, CopyReady, LinkReady, SyncReady,
     RemovalReady, TransactionReady, Zenon
     DEF Continue, ImportStep, RegisterStep, RemovalStep
<1>2. CASE UNCHANGED vars
  <2>1. UNCHANGED <<installVars, fsVars, pc, job>>
    BY <1>2 DEF vars, storeVars, procVars
  <2> QED
    BY <2>1, QuietReady, Zenon
<1>3. CASE StoreCall
  <2>1. UNCHANGED <<fsVars, procVars, faults>> /\ ActivationStep
    BY <1>3, Zenon DEF StoreCall
  <2>2. UNCHANGED installVars
    BY <2>1, Zenon DEF ActivationStep, PutQualification, Invalidate, Activate, Deactivate
  <2>3. UNCHANGED <<installVars, fsVars, pc, job>>
    BY <2>1, <2>2 DEF procVars
  <2> QED
    BY <2>3, QuietReady, Zenon
<1> QED
  BY <1>1, <1>2, <1>3, BeginReady, FaultReady, PowerLossReady, Zenon DEF Next

\* A canonical name never stands for other bytes than its digest's, whatever
\* failed, was killed or lost power: not among what processes see, and not
\* among what a power loss may leave.  So no verification finds a mismatch in
\* what the repository itself wrote, and a pending removal is never refused
\* for the bytes it has to remove (artifact_import.rs:238, verification.rs:98).
CanonicalBytesExact ==
    \A a \in Artifacts :
        /\ here[Canonical(a)] \/ TRUE \in disk[Canonical(a)] =>
              content[a] = "exact" /\ flushed[a]
        /\ VerifyResult(a) # "mismatch"

\* The checks an operation repeats once it is past its point of decision hold
\* whenever they are reached: nothing is published in between, what a removal
\* found to unlink is still what is there, the journal accepts the completion,
\* and the generation of a lease is still installed.  The error branches of
\* these checks answer I/O errors and files changed from outside, never another
\* operation of the repository (artifact_import.rs:238, mutation.rs:297,
\* artifact_removal.rs:244, runtime_artifact_lease.rs:42).
LaterChecksHold ==
    \A p \in Procs :
        LET a == job[p].art IN
        /\ pc[p] = "import.recover" => StagingEntries # {}
        /\ pc[p] = "import.flush" => Lookup(a) = "missing"
        /\ pc[p] = "import.link" => ~here[Canonical(a)]
        /\ pc[p] = "unlink" =>
              job[p].bytes = here[Canonical(a)] /\ (job[p].bytes => ~here[Staged(a)])
        /\ pc[p] = "complete" => CompleteResult(a, job[p].epoch) = "Completed"
        /\ pc[p] = "lease.confirm" => installedEpoch[a] = job[p].epoch

\* The invariant of publication holds in every reachable state.
THEOREM PublicationInvariant == Spec => []PInv
  BY InitPInv, NextPInv, PTL DEF Spec

\* For any number of artifacts, processes and faults, a canonical name is
\* published with its exact bytes or not at all (artifact_import.rs:238).
THEOREM PublicationAtomic == Spec => []CanonicalBytesExact
<1>1. PInv => CanonicalBytesExact
  <2> SUFFICES ASSUME PInv, NEW a \in Artifacts
               PROVE  /\ here[Canonical(a)] \/ TRUE \in disk[Canonical(a)] =>
                            content[a] = "exact" /\ flushed[a]
                      /\ VerifyResult(a) # "mismatch"
    BY Zenon DEF CanonicalBytesExact
  <2>1. Published(a)
    BY Zenon DEF PInv
  <2>2. here[Canonical(a)] => content[a] = "exact"
    BY <2>1, Zenon DEF Published
  <2>3. /\ Lookup(a) \in {"limit", "present", "missing"}
        /\ Lookup(a) = "present" => here[Canonical(a)]
    BY Zenon DEF Lookup
  <2>4. VerifyResult(a) # "mismatch"
    BY <2>2, <2>3 DEF VerifyResult
  <2> QED
    BY <2>1, <2>4, Zenon DEF Published
<1> QED
  BY <1>1, PublicationInvariant, PTL

\* A journalled generation can always be completed: nothing is bound to it.
LEMMA CompletionAllowed ==
    ASSUME LInv, NEW a \in Artifacts, NEW e, Journalled(a, e)
    PROVE  CompleteResult(a, e) = "Completed"
<1>1. ValidRemovalState(a) /\ ~Installed(a)
  BY Zenon DEF LInv, StoreInv, RemovalStateSound, ValidRemovalState, Journalled
<1>2. NoActiveBinding(a)
  BY <1>1, Zenon DEF LInv, StoreInv, ActiveBindingsSound, ValidBinding, NoActiveBinding
<1>3. removalPhase[a] = "prepared" /\ removalEpoch[a] = e
  BY Zenon DEF Journalled
<1>4. "prepared" # "none" /\ "prepared" # "completed"
  OBVIOUS
<1> QED
  BY <1>1, <1>2, <1>3, <1>4, Zenon DEF CompleteResult

\* No operation of the repository makes a later check of another one fail
\* (artifact_removal.rs:244, mutation.rs:297).
THEOREM ChecksHold == Spec => []LaterChecksHold
<1>1. ASSUME PInv, NEW p \in Procs
      PROVE  /\ pc[p] = "import.recover" => StagingEntries # {}
             /\ pc[p] = "import.flush" => Lookup(job[p].art) = "missing"
             /\ pc[p] = "import.link" => ~here[Canonical(job[p].art)]
             /\ pc[p] = "unlink" =>
                   /\ job[p].bytes = here[Canonical(job[p].art)]
                   /\ job[p].bytes => ~here[Staged(job[p].art)]
             /\ pc[p] = "complete" => CompleteResult(job[p].art, job[p].epoch) = "Completed"
             /\ pc[p] = "lease.confirm" => installedEpoch[job[p].art] = job[p].epoch
  <2>1. Ready(p) /\ LInv /\ At(p) /\ FsTypes
    BY <1>1, Zenon DEF PInv, LInv
  <2>2. ASSUME pc[p] = "unlink" PROVE job[p].bytes = here[Canonical(job[p].art)]
    <3>1. job[p] \in Jobs
      BY <2>1, <2>2, Zenon DEF At
    <3>2. job[p].bytes \in BOOLEAN /\ job[p].art \in Artifacts
      BY <3>1 DEF Jobs
    <3>3. here[Canonical(job[p].art)] \in BOOLEAN
      BY <2>1, <3>2, NameFacts, Zenon DEF FsTypes
    <3>4. job[p].bytes <=> here[Canonical(job[p].art)]
      BY <2>1, <2>2, Zenon DEF Ready
    <3> QED
      BY <3>2, <3>3, <3>4
  <2>3. ASSUME pc[p] = "complete" PROVE CompleteResult(job[p].art, job[p].epoch) = "Completed"
    <3>1. job[p].art \in Artifacts /\ Journalled(job[p].art, job[p].epoch)
      BY <2>1, <2>3, Zenon DEF At, Jobs
    <3> QED
      BY <2>1, <3>1, CompletionAllowed, Zenon
  <2> QED
    BY <2>1, <2>2, <2>3, Zenon DEF Ready
<1>2. PInv => LaterChecksHold
  BY <1>1, Zenon DEF LaterChecksHold
<1> QED
  BY <1>2, PublicationInvariant, PTL

=============================================================================
