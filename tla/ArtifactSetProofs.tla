------------------------- MODULE ArtifactSetProofs --------------------------
(***************************************************************************)
(* Theorems about ArtifactSetLifecycle, for any sets, processes and bounds.*)
(*                                                                         *)
(* Only the holder of the exclusive lock changes rows and trees, and all   *)
(* other processes are then idle.  So the argument is about one process at *)
(* a time: what it knows at each of its steps (Work), and what the rows    *)
(* say about every tree that a power loss may leave (DiskSound).           *)
(***************************************************************************)
EXTENDS ArtifactSetLifecycle, FiniteSetTheorems, WellFoundedInduction, TLAPS

-----------------------------------------------------------------------------
(* The inductive invariant.                                                *)

RowTypes ==
    /\ installedEpoch \in [Sets -> 0..MaxEpoch]
    /\ removalEpoch \in [Sets -> 0..MaxEpoch]
    /\ removalPhase \in [Sets -> {"none", "prepared", "completed"}]

FileTypes ==
    /\ tree \in [Sets -> Trees]
    /\ disk \in [Sets -> SUBSET Trees]
    /\ staging \in 0..MaxStagingEntries /\ probes \in 0..MaxStorageEntries

ProcTypes ==
    /\ pc \in [Procs -> Steps]
    /\ job \in [Procs -> Jobs \cup {NoJob}]
    /\ lock \in [Procs -> {"none", "shared", "exclusive"}]
    /\ faults \in 0..MaxFaults /\ losses \in 0..MaxPowerLosses

Sharing == {"lease.verify", "lease.confirm", "leased"}
Exclusive == Steps \ ({"idle"} \cup Sharing)

\* A step is taken under the lock its operation began with.
Locks ==
    /\ \A p \in Procs : /\ pc[p] = "idle" => lock[p] = "none"
                        /\ pc[p] \in Sharing => lock[p] = "shared"
                        /\ pc[p] \in Exclusive => lock[p] = "exclusive"
                        /\ pc[p] # "idle" => job[p] \in Jobs
    /\ \A p, q \in Procs : p # q /\ lock[p] = "exclusive" => lock[q] = "none"

\* A removal under way has revoked its installation.
RowsSound ==
    \A s \in Sets : /\ removalPhase[s] = "prepared" => ~Installed(s)
                    /\ removalPhase[s] = "none" => removalEpoch[s] = 0

\* Without a removal under way a tree is whole or gone, here and on disk.
DiskSound ==
    /\ \A s \in Sets : removalPhase[s] # "prepared" =>
          tree[s] \in {{}, Full} /\ disk[s] \subseteq {{}, Full}
    /\ losses = 0 => \A s \in Sets : Installed(s) => tree[s] = Full

\* What a process knows at each of its steps.
Work(p) ==
    /\ pc[p] = "import.probe" => staging >= 1 /\ probes < MaxStorageEntries
    /\ pc[p] = "import.unprobe" => probes >= 1 /\ staging < MaxStagingEntries
    /\ pc[p] = "import.stage" => staging < MaxStagingEntries
    /\ pc[p] \in {"import.seal", "import.publish"} => staging >= 1
    /\ pc[p] = "import.publish" => job[p].sealed
    /\ pc[p] \in {"register", "lease.confirm", "leased"} => tree[job[p].set] = Full
    /\ pc[p] = "leased" => installedEpoch[job[p].set] = job[p].epoch
    /\ pc[p] \in {"delete", "delete.sync", "complete"} =>
          removalPhase[job[p].set] = "prepared" /\ removalEpoch[job[p].set] = job[p].epoch
    /\ pc[p] \in {"delete.sync", "complete"} => tree[job[p].set] = {}
    /\ pc[p] = "complete" => disk[job[p].set] = {{}}

SInv ==
    /\ RowTypes /\ FileTypes /\ ProcTypes
    /\ Locks /\ RowsSound /\ DiskSound /\ \A p \in Procs : Work(p)

\* The parts of the invariant.
LEMMA Parts ==
    ASSUME SInv
    PROVE  /\ RowTypes /\ FileTypes /\ ProcTypes /\ Locks /\ RowsSound /\ DiskSound
           /\ \A p \in Procs : Work(p)
  BY DEF SInv

-----------------------------------------------------------------------------
(* Trees.                                                                  *)

\* A tree that has more than its root has a last entry that is not the root.
LEMMA LastEntry ==
    ASSUME NEW t \in Trees, t # {}, t # {Root}
    PROVE  Max(t) \in t /\ Max(t) # Root
<1>1. t \subseteq 0..TreeSize /\ 0 \in t /\ TreeSize \in Nat
  BY SetConstants DEF Trees, Full, Root
<1> DEFINE gap == {TreeSize - x : x \in t}
<1>2. gap \subseteq Nat /\ gap # {}
  BY <1>1
<1>3. PICK g \in gap : \A h \in gap : ~(<<h, g>> \in OpToRel(<, Nat))
  BY <1>2, NatLessThanWellFounded, WFMin, Zenon
<1>4. PICK m \in t : g = TreeSize - m
  BY <1>3, Zenon
<1>5. \A y \in t : m >= y
  <2> SUFFICES ASSUME NEW y \in t PROVE m >= y
    OBVIOUS
  <2>1. TreeSize - y \in gap /\ TreeSize - y \in Nat /\ TreeSize - m \in Nat /\ y \in Nat /\ m \in Nat
    BY <1>1
  <2>2. ~(<<TreeSize - y, TreeSize - m>> \in OpToRel(<, Nat))
    BY <1>3, <1>4, <2>1, Zenon
  <2>3. ~(TreeSize - y < TreeSize - m)
    BY <2>1, <2>2 DEF OpToRel
  <2> QED
    BY <1>1, <2>1, <2>3
<1>6. Max(t) \in t /\ \A y \in t : Max(t) >= y
  BY <1>5 DEF Max
<1>7. PICK y \in t : y # 0
  BY <1>1, Zenon DEF Root
<1> QED
  BY <1>1, <1>6, <1>7 DEF Root

\* There is a tree with all its entries, and one with none.
LEMMA TreeFacts == {} \in Trees /\ Full \in Trees /\ Full # {}
  BY SetConstants DEF Trees, Full, Root

\* Synchronising sets/ leaves trees, and fewer of them.
LEMMA SyncFacts ==
    ASSUME SInv, SyncSets
    PROVE  /\ disk' \in [Sets -> SUBSET Trees]
           /\ \A s \in Sets : /\ tree[s] \in {{}, Full} => disk'[s] = {tree[s]}
                              /\ tree[s] \notin {{}, Full} => disk'[s] \subseteq disk[s]
<1>1. tree \in [Sets -> Trees] /\ disk \in [Sets -> SUBSET Trees]
  BY Parts DEF FileTypes
<1> QED
  BY <1>1 DEF SyncSets

-----------------------------------------------------------------------------
(* Processes.                                                              *)

\* The holder of the exclusive lock is the only process that is not idle.
LEMMA Alone ==
    ASSUME SInv, NEW p \in Procs, pc[p] \in Exclusive
    PROVE  /\ lock[p] = "exclusive" /\ job[p] \in Jobs
           /\ \A q \in Procs \ {p} : pc[q] = "idle" /\ lock[q] = "none"
<1>1. lock[p] = "exclusive" /\ job[p] \in Jobs
  BY Parts DEF Locks, Exclusive
<1>2. ASSUME NEW q \in Procs \ {p} PROVE pc[q] = "idle" /\ lock[q] = "none"
  <2>1. lock[q] = "none"
    BY <1>1, Parts DEF Locks
  <2>2. pc[q] \in {"idle"} \cup Sharing \cup Exclusive
    BY Parts DEF ProcTypes, Exclusive
  <2> QED
    BY <2>1, <2>2, Parts DEF Locks
<1> QED
  BY <1>1, <1>2

\* A process that does nothing knows nothing.
LEMMA IdleWork ==
    ASSUME NEW p \in Procs, pc'[p] = "idle"
    PROVE  Work(p)'
  BY DEF Work

\* The holder of the exclusive lock goes on.
LEMMA Advance ==
    ASSUME SInv, NEW p \in Procs, pc[p] \in Exclusive,
           NEW step \in Exclusive, NEW j \in Jobs,
           pc' = [pc EXCEPT ![p] = step], job' = [job EXCEPT ![p] = j],
           UNCHANGED <<lock, faults, losses>>,
           RowTypes', FileTypes', RowsSound', DiskSound', Work(p)'
    PROVE  SInv'
<1>1. /\ pc \in [Procs -> Steps] /\ job \in [Procs -> Jobs \cup {NoJob}]
      /\ lock \in [Procs -> {"none", "shared", "exclusive"}] /\ step \in Steps
      /\ step # "idle" /\ step \notin Sharing
  BY Parts DEF ProcTypes, Exclusive
<1>2. /\ pc' \in [Procs -> Steps] /\ job' \in [Procs -> Jobs \cup {NoJob}]
      /\ pc'[p] = step /\ job'[p] = j
      /\ \A q \in Procs \ {p} : pc'[q] = pc[q] /\ job'[q] = job[q]
  BY <1>1
<1>3. ProcTypes'
  BY <1>2, Parts, Zenon DEF ProcTypes
<1>4. Locks'
  BY <1>1, <1>2, Alone, Parts DEF Locks
<1>5. \A q \in Procs : Work(q)'
  BY <1>2, Alone, IdleWork
<1> QED
  BY <1>3, <1>4, <1>5 DEF SInv

\* A step that keeps its job.
LEMMA GotoFacts ==
    ASSUME SInv, NEW p \in Procs, pc[p] \in Exclusive, NEW step, Goto(p, step)
    PROVE  /\ pc' = [pc EXCEPT ![p] = step] /\ job' = [job EXCEPT ![p] = job[p]]
           /\ UNCHANGED <<job, lock, faults, losses>>
           /\ pc'[p] = step
  BY Parts DEF Goto, ProcTypes

\* The end of an operation, or of its process.
LEMMA StopFacts ==
    ASSUME SInv, NEW p \in Procs, Stop(p), faults' \in 0..MaxFaults
    PROVE  /\ ProcTypes' /\ Locks' /\ Work(p)'
           /\ \A q \in Procs \ {p} : pc'[q] = pc[q] /\ job'[q] = job[q]
<1>1. /\ pc \in [Procs -> Steps] /\ job \in [Procs -> Jobs \cup {NoJob}]
      /\ lock \in [Procs -> {"none", "shared", "exclusive"}] /\ "idle" \in Steps
      /\ losses \in 0..MaxPowerLosses
  BY Parts DEF ProcTypes, Steps
<1>2. /\ pc' = [pc EXCEPT ![p] = "idle"] /\ job' = [job EXCEPT ![p] = NoJob]
      /\ lock' = [lock EXCEPT ![p] = "none"] /\ losses' = losses
  BY DEF Stop
<1>3. /\ pc' \in [Procs -> Steps] /\ job' \in [Procs -> Jobs \cup {NoJob}]
      /\ lock' \in [Procs -> {"none", "shared", "exclusive"}]
      /\ pc'[p] = "idle" /\ job'[p] = NoJob /\ lock'[p] = "none"
      /\ \A q \in Procs \ {p} : pc'[q] = pc[q] /\ job'[q] = job[q] /\ lock'[q] = lock[q]
  BY <1>1, <1>2
<1>4. ProcTypes'
  BY <1>1, <1>2, <1>3 DEF ProcTypes
<1>5. Locks'
  BY <1>3, Parts DEF Locks, Sharing, Exclusive
<1> QED
  BY <1>3, <1>4, <1>5, IdleWork

\* An operation that ends drops its locks and its job, whether it succeeded or not.
LEMMA StopKeeps ==
    ASSUME SInv, NEW p \in Procs, Stop(p), faults' \in 0..MaxFaults,
           UNCHANGED <<rows, tree, disk, probes>>, staging' \in 0..MaxStagingEntries,
           staging' = staging \/ pc[p] \in Exclusive
    PROVE  SInv'
<1>1. ProcTypes' /\ Locks' /\ Work(p)' /\ \A q \in Procs \ {p} : pc'[q] = pc[q] /\ job'[q] = job[q]
  BY StopFacts
<1>2. UNCHANGED <<installedEpoch, removalEpoch, removalPhase, tree, disk, probes, losses>>
  BY DEF rows, Stop
<1>3. RowTypes' /\ FileTypes'
  BY <1>2, Parts DEF RowTypes, FileTypes
<1>4. RowsSound' /\ DiskSound'
  BY <1>2, Parts DEF RowsSound, DiskSound, Installed
<1>5. ASSUME NEW q \in Procs \ {p} PROVE Work(q)'
  <2>1. CASE staging' = staging
    <3>1. Work(q) /\ pc'[q] = pc[q] /\ job'[q] = job[q]
      BY <1>1, Parts
    <3> QED
      BY <1>2, <2>1, <3>1 DEF Work
  <2>2. CASE pc[p] \in Exclusive
    BY <1>1, <2>2, Alone, IdleWork
  <2> QED
    BY <2>1, <2>2
<1> QED
  BY <1>1, <1>3, <1>4, <1>5 DEF SInv

\* An operation that returns without having changed anything.
LEMMA ReturnKeeps ==
    ASSUME SInv, NEW p \in Procs, Return(p), UNCHANGED <<rows, files>>
    PROVE  SInv'
<1>1. Stop(p) /\ faults' \in 0..MaxFaults /\ UNCHANGED <<rows, tree, disk, probes, staging>>
      /\ staging \in 0..MaxStagingEntries
  BY Parts DEF Return, ProcTypes, FileTypes, files
<1> QED
  BY <1>1, StopKeeps

\* An operation that fails, or is killed, at any of its steps.
LEMMA FaultKeeps ==
    ASSUME SInv, NEW p \in Procs, Fail(p) \/ Kill(p)
    PROVE  SInv'
<1>1. /\ Stop(p) /\ faults' \in 0..MaxFaults /\ UNCHANGED <<rows, tree, disk, probes>>
  BY SetConstants, Parts DEF Fail, Kill, Fault, ProcTypes, files
<1>2. staging \in 0..MaxStagingEntries
  BY Parts DEF FileTypes
<1>3. CASE staging' = staging
  BY <1>1, <1>2, <1>3, StopKeeps
<1>4. CASE staging' # staging
  <2>1. pc[p] \in {"import.probe", "import.seal", "import.publish"} /\ staging' = staging - 1
    BY <1>4 DEF Fail, Kill, files
  <2>2. pc[p] \in Exclusive /\ staging >= 1
    BY <2>1, Parts DEF Exclusive, Sharing, Steps, Work
  <2>3. staging' \in 0..MaxStagingEntries
    BY <1>2, <2>1, <2>2, SetConstants
  <2> QED
    BY <1>1, <2>2, <2>3, StopKeeps
<1> QED
  BY <1>3, <1>4

-----------------------------------------------------------------------------
(* Beginning an operation.                                                 *)

\* The locks after one process has taken them.
LEMMA TakeFacts ==
    ASSUME SInv, NEW p \in Procs, pc[p] = "idle", NEW j \in Jobs, NEW step \in Steps,
           NEW mode \in {"shared", "exclusive"},
           step \in (IF mode = "shared" THEN Sharing ELSE Exclusive),
           IF mode = "shared" THEN CanShare(p) ELSE CanLock(p),
           pc' = [pc EXCEPT ![p] = step], job' = [job EXCEPT ![p] = j],
           lock' = [lock EXCEPT ![p] = mode], UNCHANGED <<faults, losses>>
    PROVE  /\ ProcTypes' /\ Locks' /\ pc'[p] = step
           /\ \A q \in Procs \ {p} : pc'[q] = pc[q] /\ job'[q] = job[q]
<1>1. /\ pc \in [Procs -> Steps] /\ job \in [Procs -> Jobs \cup {NoJob}]
      /\ lock \in [Procs -> {"none", "shared", "exclusive"}]
  BY Parts DEF ProcTypes
<1>2. /\ pc' \in [Procs -> Steps] /\ job' \in [Procs -> Jobs \cup {NoJob}]
      /\ lock' \in [Procs -> {"none", "shared", "exclusive"}]
      /\ pc'[p] = step /\ job'[p] = j /\ lock'[p] = mode
      /\ \A q \in Procs \ {p} : pc'[q] = pc[q] /\ job'[q] = job[q] /\ lock'[q] = lock[q]
  BY <1>1
<1>3. ProcTypes'
  BY <1>2, Parts DEF ProcTypes
<1>4. /\ step # "idle" /\ (step \in Sharing => mode = "shared")
      /\ (step \in Exclusive => mode = "exclusive")
  BY DEF Sharing, Exclusive
<1>5. \A q \in Procs \ {p} : /\ mode = "exclusive" => lock[q] = "none"
                             /\ lock[q] # "exclusive"
  BY DEF CanShare, CanLock
<1>6. Locks'
  BY <1>2, <1>4, <1>5, Parts DEF Locks
<1> QED
  BY <1>2, <1>3, <1>6

\* The steps an operation begins with know nothing yet.
LEMMA BeginWork ==
    ASSUME NEW p \in Procs,
           pc'[p] \in {"import.inspect", "verify", "remove.open", "recover.open", "lease.verify"}
    PROVE  Work(p)'
  BY DEF Work

\* A step that changes what one process does and holds, and neither rows nor
\* trees.
LEMMA TakeKeeps ==
    ASSUME SInv, NEW p \in Procs, ProcTypes', Locks', Work(p)',
           \A q \in Procs \ {p} : pc'[q] = pc[q] /\ job'[q] = job[q],
           losses' = losses, UNCHANGED <<rows, files>>
    PROVE  SInv'
<1>1. UNCHANGED <<installedEpoch, removalEpoch, removalPhase, tree, disk, staging, probes>>
  BY DEF rows, files
<1>2. RowTypes' /\ FileTypes'
  BY <1>1, Parts DEF RowTypes, FileTypes
<1>3. RowsSound' /\ DiskSound'
  BY <1>1, Parts DEF RowsSound, DiskSound, Installed
<1>4. ASSUME NEW q \in Procs \ {p} PROVE Work(q)'
  <2>1. Work(q) /\ pc'[q] = pc[q] /\ job'[q] = job[q]
    BY Parts
  <2> QED
    BY <1>1, <2>1, SMTT(30) DEF Work
<1> QED
  BY <1>2, <1>3, <1>4 DEF SInv

\* The first step of every operation: it takes its locks or is refused.
LEMMA BeginKeeps ==
    ASSUME SInv, NEW p \in Procs, BeginStep(p)
    PROVE  SInv'
<1>1. PICK s \in Sets :
        \/ ImportBegin(p, s) \/ ReconcileBegin(p, s) \/ LeaseBegin(p, s)
        \/ \E e \in KnownEpochs(s) : RemoveBegin(p, s, e) \/ RecoverBegin(p, s, e)
  BY DEF BeginStep
<1>2. KnownEpochs(s) \subseteq 0..MaxEpoch /\ installedEpoch[s] \in 0..MaxEpoch /\ 0 \in 0..MaxEpoch
  BY Parts, SetConstants DEF KnownEpochs, GenerationOf, RowTypes
<1>3. CASE LeaseBegin(p, s)
  <2>1. [set |-> s, epoch |-> installedEpoch[s], found |-> TRUE, sealed |-> FALSE] \in Jobs
    BY <1>2 DEF Jobs
  <2>2. /\ ProcTypes' /\ Locks' /\ pc'[p] = "lease.verify"
        /\ \A q \in Procs \ {p} : pc'[q] = pc[q] /\ job'[q] = job[q]
    BY <1>3, <2>1, TakeFacts, Zenon DEF LeaseBegin, Sharing, Steps
  <2> QED
    BY <1>3, <2>2, BeginWork, TakeKeeps DEF LeaseBegin
<1>4. ASSUME NEW e \in 0..MaxEpoch,
             NEW step \in {"import.inspect", "verify", "remove.open", "recover.open"},
             Begin(p, step, s, e)
      PROVE  SInv'
  <2>1. [set |-> s, epoch |-> e, found |-> TRUE, sealed |-> FALSE] \in Jobs
    BY DEF Jobs
  <2>2. step \in Steps /\ step \in Exclusive
    BY DEF Steps, Exclusive, Sharing
  <2>3. /\ ProcTypes' /\ Locks' /\ pc'[p] = step
        /\ \A q \in Procs \ {p} : pc'[q] = pc[q] /\ job'[q] = job[q]
    BY <1>4, <2>1, <2>2, TakeFacts, Zenon DEF Begin
  <2>4. Work(p)'
    BY <2>3, BeginWork
  <2> QED
    BY <1>4, <2>3, <2>4, TakeKeeps DEF Begin
<1> QED
  BY <1>1, <1>2, <1>3, <1>4
     DEF ImportBegin, ReconcileBegin, RemoveBegin, RecoverBegin

-----------------------------------------------------------------------------
(* Steps that read rows and trees.                                         *)

\* The holder of the exclusive lock goes on without changing anything.
LEMMA AdvanceOnly ==
    ASSUME SInv, NEW p \in Procs, pc[p] \in Exclusive, NEW step \in Exclusive, NEW j \in Jobs,
           pc' = [pc EXCEPT ![p] = step], job' = [job EXCEPT ![p] = j],
           UNCHANGED <<lock, faults, losses, rows, files>>, Work(p)'
    PROVE  SInv'
<1>1. UNCHANGED <<installedEpoch, removalEpoch, removalPhase, tree, disk, staging, probes>>
  BY DEF rows, files
<1>2. RowTypes' /\ FileTypes'
  BY <1>1, Parts DEF RowTypes, FileTypes
<1>3. RowsSound' /\ DiskSound'
  BY <1>1, Parts, Zenon DEF RowsSound, DiskSound, Installed
<1> QED
  BY <1>2, <1>3, Advance, Zenon

\* A step that looks and goes on, or returns.
LEMMA LookKeeps ==
    ASSUME SInv, NEW p \in Procs, pc[p] \in Exclusive,
           NEW step \in Exclusive \ {"import.probe", "import.unprobe", "import.stage", "import.seal",
                                     "import.publish", "register", "delete", "delete.sync",
                                     "complete"},
           Goto(p, step), UNCHANGED <<rows, files>>
    PROVE  SInv'
<1>1. pc'[p] = step /\ pc' = [pc EXCEPT ![p] = step] /\ job' = [job EXCEPT ![p] = job[p]]
      /\ UNCHANGED <<lock, faults, losses>>
  BY GotoFacts
<1>2. Work(p)'
  BY <1>1 DEF Work, Exclusive, Sharing
<1> QED
  BY <1>1, <1>2, Alone, AdvanceOnly, Zenon

\* A step that only reads rows or trees, and goes on or returns.
LEMMA ReadKeeps ==
    ASSUME SInv, NEW p \in Procs,
           RemoveOpen(p) \/ RemoveVerify(p) \/ RecoverOpen(p) \/ ImportSyncStaging(p)
    PROVE  SInv'
<1>1. /\ UNCHANGED <<rows, files>>
      /\ pc[p] \in {"remove.open", "remove.verify", "recover.open", "import.syncStaging"}
      /\ \/ Return(p)
         \/ \E step \in {"remove.verify", "prepare", "recover.verify", "import.syncSets"} :
               Goto(p, step)
  BY Zenon DEF RemoveOpen, RemoveVerify, RecoverOpen, ImportSyncStaging
<1>2. CASE Return(p)
  BY <1>1, <1>2, ReturnKeeps
<1>3. ASSUME NEW step \in {"remove.verify", "prepare", "recover.verify", "import.syncSets"},
             Goto(p, step)
      PROVE  SInv'
  <2>1. pc[p] \in Exclusive
        /\ step \in Exclusive \ {"import.probe", "import.unprobe", "import.stage", "import.seal",
                                 "import.publish", "register", "delete", "delete.sync", "complete"}
    BY <1>1 DEF Exclusive, Sharing, Steps
  <2> QED
    BY <1>1, <1>3, <2>1, LookKeeps
<1> QED
  BY <1>1, <1>2, <1>3

\* A set is registered only after its tree was found whole.
LEMMA VerifyKeeps ==
    ASSUME SInv, NEW p \in Procs, Verify(p)
    PROVE  SInv'
<1>1. CASE VerifiedTree(job[p].set)
  <2>1. /\ pc[p] = "verify" /\ pc[p] \in Exclusive /\ "register" \in Exclusive
        /\ Goto(p, "register") /\ UNCHANGED <<rows, files>>
    BY <1>1 DEF Verify, Exclusive, Sharing, Steps
  <2>2. /\ pc' = [pc EXCEPT ![p] = "register"] /\ job' = [job EXCEPT ![p] = job[p]]
        /\ pc'[p] = "register" /\ UNCHANGED <<job, lock, faults, losses>>
    BY <2>1, GotoFacts
  <2>3. Work(p)'
    BY <1>1, <2>1, <2>2, Zenon DEF Work, VerifiedTree, files
  <2> QED
    BY <2>1, <2>2, <2>3, Alone, AdvanceOnly, Zenon
<1>2. CASE ~VerifiedTree(job[p].set)
  BY <1>2, ReturnKeeps DEF Verify
<1> QED
  BY <1>1, <1>2

\* A recovery goes on with the tree or without one.
LEMMA RecoverKeeps ==
    ASSUME SInv, NEW p \in Procs, RecoverVerify(p)
    PROVE  SInv'
<1>1. /\ pc[p] = "recover.verify" /\ pc[p] \in Exclusive /\ UNCHANGED <<rows, files>>
      /\ "prepare" \in Exclusive \ {"import.probe", "import.unprobe", "import.stage", "import.seal",
                                    "import.publish", "register", "delete", "delete.sync",
                                    "complete"}
  BY DEF RecoverVerify, Exclusive, Sharing, Steps
<1>2. CASE Goto(p, "prepare")
  BY <1>1, <1>2, LookKeeps
<1>3. CASE Return(p)
  BY <1>1, <1>3, ReturnKeeps
<1>4. CASE /\ pc' = [pc EXCEPT ![p] = "prepare"] /\ job' = [job EXCEPT ![p].found = FALSE]
           /\ UNCHANGED <<lock, faults, losses>>
  <2>1. job[p] \in Jobs /\ [job[p] EXCEPT !.found = FALSE] \in Jobs
    BY <1>1, Alone, Zenon DEF Jobs
  <2>2. job' = [job EXCEPT ![p] = [job[p] EXCEPT !.found = FALSE]]
    BY <1>4
  <2>3. pc'[p] = "prepare"
    BY <1>4, Parts DEF ProcTypes
  <2>4. Work(p)'
    BY <2>3 DEF Work
  <2> QED
    BY <1>1, <1>4, <2>1, <2>2, <2>4, AdvanceOnly, Zenon
<1> QED
  BY <1>2, <1>3, <1>4 DEF RecoverVerify

\* A lease ends, or goes on with a tree it has found whole and an
\* installation it has found current.
LEMMA LeaseKeeps ==
    ASSUME SInv, NEW p \in Procs, LeaseStep(p)
    PROVE  SInv'
<1>1. pc[p] \in Sharing /\ UNCHANGED <<rows, files>>
  BY DEF LeaseStep, LeaseVerify, LeaseConfirm, LeaseRelease, Sharing
<1>2. CASE Return(p)
  BY <1>1, <1>2, ReturnKeeps
<1>3. ASSUME NEW step \in {"lease.confirm", "leased"}, Goto(p, step), tree[job[p].set] = Full,
             step = "leased" => installedEpoch[job[p].set] = job[p].epoch
      PROVE  SInv'
  <2>1. /\ pc \in [Procs -> Steps] /\ step \in Steps /\ step \in Sharing /\ step \notin Exclusive
        /\ step # "idle" /\ pc[p] # "idle"
    BY <1>1, Parts DEF ProcTypes, Steps, Sharing, Exclusive
  <2>2. /\ pc' \in [Procs -> Steps] /\ pc'[p] = step /\ \A q \in Procs \ {p} : pc'[q] = pc[q]
        /\ UNCHANGED <<job, lock, faults, losses>>
    BY <1>3, <2>1 DEF Goto
  <2>3. ProcTypes'
    BY <2>2, Parts DEF ProcTypes
  <2>4. Locks'
    BY <1>1, <2>1, <2>2, Parts DEF Locks
  <2>5. Work(p)'
    BY <1>1, <1>3, <2>2, Zenon DEF Work, rows, files
  <2> QED
    BY <1>1, <2>2, <2>3, <2>4, <2>5, TakeKeeps
<1>4. pc[p] = "lease.confirm" => tree[job[p].set] = Full
  BY Parts, Zenon DEF Work
<1> QED
  BY <1>2, <1>3, <1>4, Zenon DEF LeaseStep, LeaseVerify, LeaseConfirm, LeaseRelease, VerifiedTree

-----------------------------------------------------------------------------
(* Steps of an import.                                                     *)

\* The rows stay.
LEMMA RowsStay ==
    ASSUME SInv, UNCHANGED rows
    PROVE  RowTypes' /\ RowsSound'
  BY Parts DEF rows, RowTypes, RowsSound, Installed

\* The trees stay.
LEMMA TreesStay ==
    ASSUME SInv, UNCHANGED <<rows, tree, disk, losses>>
    PROVE  DiskSound' /\ tree' \in [Sets -> Trees] /\ disk' \in [Sets -> SUBSET Trees]
  BY Parts DEF rows, FileTypes, DiskSound, Installed

\* A directory with room has room for a probe.
LEMMA Room ==
    ASSUME SInv, NEW s \in Sets, Lookup(s) = "Available"
    PROVE  probes < MaxStorageEntries
<1>1. Cardinality({x \in Sets : tree[x] # {}}) \in Nat
  BY SetConstants, FS_Subset, FS_CardinalityType, Zenon
<1>2. probes \in Nat /\ MaxStorageEntries \in Nat
  BY SetConstants, Parts DEF FileTypes
<1>3. ~(StorageEntries >= MaxStorageEntries)
  BY Zenon DEF Lookup
<1> QED
  BY <1>1, <1>2, <1>3 DEF StorageEntries

\* Import finds its set installed, its root published, or goes on to stage.
LEMMA InspectKeeps ==
    ASSUME SInv, NEW p \in Procs, ImportInspect(p)
    PROVE  SInv'
<1>1. /\ pc[p] = "import.inspect" /\ pc[p] \in Exclusive
      /\ UNCHANGED <<rows, tree, disk, probes>> /\ job[p] \in Jobs /\ job[p].set \in Sets
  <2>1. pc[p] = "import.inspect" /\ pc[p] \in Exclusive
    BY DEF ImportInspect, Exclusive, Sharing, Steps
  <2>2. job[p] \in Jobs
    BY <2>1, Alone
  <2> QED
    BY <2>1, <2>2 DEF ImportInspect, Jobs
<1>2. CASE Goto(p, "verify") /\ UNCHANGED staging
  <2>1. "verify" \in Exclusive \ {"import.probe", "import.unprobe", "import.stage", "import.seal",
                                  "import.publish", "register", "delete", "delete.sync", "complete"}
    BY DEF Exclusive, Sharing, Steps
  <2> QED
    BY <1>1, <1>2, <2>1, LookKeeps DEF files
<1>3. CASE Return(p) /\ UNCHANGED staging
  BY <1>1, <1>3, ReturnKeeps DEF files
<1>4. CASE /\ Lookup(job[p].set) = "Available" /\ staging < MaxStagingEntries
           /\ staging' = staging + 1 /\ Goto(p, "import.probe")
  <2>1. /\ pc' = [pc EXCEPT ![p] = "import.probe"] /\ job' = [job EXCEPT ![p] = job[p]]
        /\ pc'[p] = "import.probe" /\ UNCHANGED <<lock, faults, losses>>
        /\ "import.probe" \in Exclusive
    BY <1>1, <1>4, GotoFacts DEF Exclusive, Sharing, Steps
  <2>2. probes < MaxStorageEntries
    BY <1>1, <1>4, Room
  <2>3. staging \in Nat /\ MaxStagingEntries \in Nat
    BY SetConstants, Parts DEF FileTypes
  <2>4. staging' \in 0..MaxStagingEntries /\ staging' >= 1
    BY <1>4, <2>3
  <2>5. FileTypes'
    BY <1>1, <2>1, <2>4, TreesStay, Parts DEF FileTypes
  <2>6. Work(p)'
    BY <1>1, <2>1, <2>2, <2>4 DEF Work
  <2> QED
    BY <1>1, <2>1, <2>5, <2>6, RowsStay, TreesStay, Advance, Zenon
<1> QED
  BY <1>2, <1>3, <1>4 DEF ImportInspect

\* The probe for publication by rename touches no canonical root.
LEMMA ProbeKeeps ==
    ASSUME SInv, NEW p \in Procs, ImportProbe(p)
    PROVE  SInv'
<1>1. /\ pc[p] = "import.probe" /\ pc[p] \in Exclusive /\ "import.unprobe" \in Exclusive
      /\ staging' = staging - 1 /\ probes' = probes + 1
      /\ Goto(p, "import.unprobe") /\ UNCHANGED <<rows, tree, disk>>
  BY DEF ImportProbe, Exclusive, Sharing, Steps
<1>2. /\ pc' = [pc EXCEPT ![p] = "import.unprobe"] /\ job' = [job EXCEPT ![p] = job[p]]
      /\ pc'[p] = "import.unprobe" /\ UNCHANGED <<lock, faults, losses>> /\ job[p] \in Jobs
  BY <1>1, GotoFacts, Alone
<1>3. /\ staging \in 0..MaxStagingEntries /\ probes \in 0..MaxStorageEntries
      /\ MaxStagingEntries \in Nat /\ MaxStorageEntries \in Nat
      /\ staging >= 1 /\ probes < MaxStorageEntries
  BY <1>1, SetConstants, Parts DEF FileTypes, Work
<1>4. /\ staging' \in 0..MaxStagingEntries /\ probes' \in 0..MaxStorageEntries
      /\ staging' < MaxStagingEntries /\ probes' >= 1
  BY <1>1, <1>3
<1>5. FileTypes'
  BY <1>1, <1>2, <1>4, TreesStay DEF FileTypes
<1>6. Work(p)'
  BY <1>2, <1>4 DEF Work
<1> QED
  BY <1>1, <1>2, <1>5, <1>6, RowsStay, TreesStay, Advance, Zenon

\* Synchronising sets/ keeps what the rows say about the disk.
LEMMA SyncKeeps ==
    ASSUME SInv, SyncSets, UNCHANGED <<rows, tree, losses>>
    PROVE  DiskSound' /\ tree' \in [Sets -> Trees] /\ disk' \in [Sets -> SUBSET Trees]
<1>1. UNCHANGED <<installedEpoch, removalPhase, tree, losses>>
  BY DEF rows
<1>2. \A s \in Sets : tree[s] \in {{}, Full} => disk'[s] = {tree[s]}
  BY SyncFacts
<1>3. \A s \in Sets : removalPhase[s] # "prepared" => disk'[s] \subseteq {{}, Full}
  BY <1>2, Parts DEF DiskSound
<1>4. tree \in [Sets -> Trees]
  BY Parts DEF FileTypes
<1> QED
  BY <1>1, <1>3, <1>4, SyncFacts, Parts DEF DiskSound, Installed

\* Removing the probe touches no canonical root.
LEMMA UnprobeKeeps ==
    ASSUME SInv, NEW p \in Procs, ImportUnprobe(p)
    PROVE  SInv'
<1>1. /\ pc[p] = "import.unprobe" /\ pc[p] \in Exclusive /\ "import.stage" \in Exclusive
      /\ probes' = probes - 1 /\ SyncSets
      /\ Goto(p, "import.stage") /\ UNCHANGED <<rows, tree, staging>>
  BY DEF ImportUnprobe, Exclusive, Sharing, Steps
<1>2. /\ pc' = [pc EXCEPT ![p] = "import.stage"] /\ job' = [job EXCEPT ![p] = job[p]]
      /\ pc'[p] = "import.stage" /\ UNCHANGED <<lock, faults, losses>> /\ job[p] \in Jobs
  BY <1>1, GotoFacts, Alone
<1>3. /\ staging \in 0..MaxStagingEntries /\ probes \in 0..MaxStorageEntries
      /\ MaxStorageEntries \in Nat /\ probes >= 1 /\ staging < MaxStagingEntries
  BY <1>1, SetConstants, Parts, Zenon DEF FileTypes, Work
<1>4. probes' \in 0..MaxStorageEntries
  BY <1>1, <1>3
<1>5. FileTypes'
  BY <1>1, <1>2, <1>3, <1>4, SyncKeeps DEF FileTypes
<1>6. Work(p)'
  BY <1>1, <1>2, <1>3 DEF Work
<1> QED
  BY <1>1, <1>2, <1>5, <1>6, RowsStay, SyncKeeps, Advance, Zenon

\* A staging root is counted and is no canonical root.
LEMMA StageKeeps ==
    ASSUME SInv, NEW p \in Procs, ImportStage(p)
    PROVE  SInv'
<1>1. /\ pc[p] = "import.stage" /\ pc[p] \in Exclusive /\ "import.seal" \in Exclusive
      /\ staging' = staging + 1
      /\ Goto(p, "import.seal") /\ UNCHANGED <<rows, tree, disk, probes>>
  BY DEF ImportStage, Exclusive, Sharing, Steps
<1>2. /\ pc' = [pc EXCEPT ![p] = "import.seal"] /\ job' = [job EXCEPT ![p] = job[p]]
      /\ pc'[p] = "import.seal" /\ UNCHANGED <<lock, faults, losses>> /\ job[p] \in Jobs
  BY <1>1, GotoFacts, Alone
<1>3. /\ staging \in 0..MaxStagingEntries /\ MaxStagingEntries \in Nat
      /\ staging < MaxStagingEntries
  BY <1>1, SetConstants, Parts, Zenon DEF FileTypes, Work
<1>4. staging' \in 0..MaxStagingEntries /\ staging' >= 1
  BY <1>1, <1>3
<1>5. FileTypes'
  BY <1>1, <1>2, <1>4, TreesStay, Parts DEF FileTypes
<1>6. Work(p)'
  BY <1>2, <1>4 DEF Work
<1> QED
  BY <1>1, <1>2, <1>5, <1>6, RowsStay, TreesStay, Advance, Zenon

\* The staged tree is complete, under its staging name, before it is published.
LEMMA SealKeeps ==
    ASSUME SInv, NEW p \in Procs, ImportSeal(p)
    PROVE  SInv'
<1>1. /\ pc[p] = "import.seal" /\ pc[p] \in Exclusive /\ "import.publish" \in Exclusive
      /\ pc' = [pc EXCEPT ![p] = "import.publish"]
      /\ job' = [job EXCEPT ![p].sealed = TRUE]
      /\ UNCHANGED <<rows, files, lock, faults, losses>>
  BY DEF ImportSeal, Exclusive, Sharing, Steps
<1>2. job[p] \in Jobs /\ job \in [Procs -> Jobs \cup {NoJob}] /\ pc \in [Procs -> Steps]
  BY <1>1, Alone, Parts DEF ProcTypes
<1>3. [job[p] EXCEPT !.sealed = TRUE] \in Jobs /\ [job[p] EXCEPT !.sealed = TRUE].sealed = TRUE
  BY <1>2, Zenon DEF Jobs
<1>4. job' = [job EXCEPT ![p] = [job[p] EXCEPT !.sealed = TRUE]]
      /\ pc'[p] = "import.publish" /\ job'[p].sealed
  BY <1>1, <1>2, <1>3
<1>5. staging' >= 1
  BY <1>1, Parts DEF Work, files
<1>6. Work(p)'
  BY <1>4, <1>5 DEF Work
<1> QED
  BY <1>1, <1>3, <1>4, <1>6, AdvanceOnly, Zenon

\* A tree that is published was synchronised first, so it is whole on disk.
LEMMA PublishKeeps ==
    ASSUME SInv, NEW p \in Procs, ImportPublish(p)
    PROVE  SInv'
<1>1. /\ pc[p] = "import.publish" /\ pc[p] \in Exclusive /\ "import.syncStaging" \in Exclusive
      /\ staging' = staging - 1
      /\ Goto(p, "import.syncStaging") /\ UNCHANGED <<rows, probes>>
  BY DEF ImportPublish, Exclusive, Sharing, Steps
<1>2. /\ pc' = [pc EXCEPT ![p] = "import.syncStaging"] /\ job' = [job EXCEPT ![p] = job[p]]
      /\ pc'[p] = "import.syncStaging" /\ UNCHANGED <<lock, faults, losses>>
      /\ job[p] \in Jobs /\ job[p].set \in Sets
  BY <1>1, GotoFacts, Alone DEF Jobs
<1>3. /\ staging \in 0..MaxStagingEntries /\ MaxStagingEntries \in Nat /\ staging >= 1
      /\ job[p].sealed
  BY <1>1, SetConstants, Parts, Zenon DEF FileTypes, Work
<1>4. staging' \in 0..MaxStagingEntries
  BY <1>1, <1>3
<1> DEFINE s == job[p].set
<1>5. /\ tree' = [tree EXCEPT ![s] = Full]
      /\ disk' = [disk EXCEPT ![s] = disk[s] \cup {Full}]
  BY <1>3 DEF ImportPublish
<1>6. tree \in [Sets -> Trees] /\ disk \in [Sets -> SUBSET Trees] /\ probes \in 0..MaxStorageEntries
  BY Parts DEF FileTypes
<1>7. tree' \in [Sets -> Trees] /\ disk' \in [Sets -> SUBSET Trees]
  BY <1>2, <1>5, <1>6, TreeFacts
<1>8. FileTypes'
  BY <1>1, <1>4, <1>6, <1>7 DEF FileTypes
<1>9. DiskSound'
  <2>1. UNCHANGED <<installedEpoch, removalPhase, losses>>
    BY <1>1, <1>2 DEF rows
  <2>2. \A x \in Sets : tree'[x] \in {tree[x], Full} /\ disk'[x] \subseteq disk[x] \cup {Full}
    BY <1>2, <1>5, <1>6
  <2>3. \A x \in Sets : removalPhase[x] # "prepared" =>
           tree[x] \in {{}, Full} /\ disk[x] \subseteq {{}, Full}
    BY Parts DEF DiskSound
  <2>4. losses = 0 => \A x \in Sets : Installed(x) => tree[x] = Full
    BY Parts DEF DiskSound
  <2>5. \A x \in Sets : Installed(x)' <=> Installed(x)
    BY <2>1 DEF Installed
  <2>6. \A x \in Sets : removalPhase'[x] # "prepared" =>
           tree'[x] \in {{}, Full} /\ disk'[x] \subseteq {{}, Full}
    <3> SUFFICES ASSUME NEW x \in Sets, removalPhase'[x] # "prepared"
                 PROVE  tree'[x] \in {{}, Full} /\ disk'[x] \subseteq {{}, Full}
      OBVIOUS
    <3>1. tree[x] \in {{}, Full} /\ disk[x] \subseteq {{}, Full}
      BY <2>1, <2>3
    <3> QED
      BY <2>2, <3>1
  <2>7. losses' = 0 => \A x \in Sets : Installed(x)' => tree'[x] = Full
    BY <2>1, <2>2, <2>4, <2>5
  <2> QED
    BY <2>6, <2>7 DEF DiskSound
<1>10. Work(p)'
  BY <1>2 DEF Work
<1> QED
  BY <1>1, <1>2, <1>8, <1>9, <1>10, RowsStay, Advance, Zenon

\* Import synchronises sets/ : what a power loss leaves there is what is there.
LEMMA SyncSetsKeeps ==
    ASSUME SInv, NEW p \in Procs, ImportSyncSets(p)
    PROVE  SInv'
<1>1. /\ pc[p] = "import.syncSets" /\ pc[p] \in Exclusive /\ "verify" \in Exclusive
      /\ SyncSets /\ Goto(p, "verify") /\ UNCHANGED <<rows, tree, staging, probes>>
  BY DEF ImportSyncSets, Exclusive, Sharing, Steps
<1>2. /\ pc' = [pc EXCEPT ![p] = "verify"] /\ job' = [job EXCEPT ![p] = job[p]]
      /\ pc'[p] = "verify" /\ UNCHANGED <<lock, faults, losses>> /\ job[p] \in Jobs
  BY <1>1, GotoFacts, Alone
<1>3. FileTypes'
  BY <1>1, <1>2, SyncKeeps, Parts DEF FileTypes
<1>4. Work(p)'
  BY <1>2, BeginWork
<1> QED
  BY <1>1, <1>2, <1>3, <1>4, RowsStay, SyncKeeps, Advance, Zenon

\* An operation that ends with a change of the rows; all others are idle.
LEMMA EndKeeps ==
    ASSUME SInv, NEW p \in Procs, pc[p] \in Exclusive, Return(p), UNCHANGED files,
           RowTypes', RowsSound', DiskSound'
    PROVE  SInv'
<1>1. Stop(p) /\ faults' \in 0..MaxFaults
  BY Parts DEF Return, ProcTypes
<1>2. ProcTypes' /\ Locks' /\ Work(p)' /\ \A q \in Procs \ {p} : pc'[q] = pc[q]
  BY <1>1, StopFacts
<1>3. \A q \in Procs \ {p} : Work(q)'
  BY <1>2, Alone, IdleWork
<1>4. FileTypes'
  BY Parts DEF FileTypes, files
<1> QED
  BY <1>2, <1>3, <1>4 DEF SInv

\* A row is written for a tree that is whole.
LEMMA RegisterKeeps ==
    ASSUME SInv, NEW p \in Procs, Register(p)
    PROVE  SInv'
<1>1. /\ pc[p] = "register" /\ pc[p] \in Exclusive /\ Return(p) /\ UNCHANGED files
  BY DEF Register, Exclusive, Sharing, Steps
<1>2. job[p] \in Jobs /\ job[p].set \in Sets /\ tree[job[p].set] = Full
  BY <1>1, Alone, Parts, Zenon DEF Jobs, Work
<1>3. CASE UNCHANGED rows
  BY <1>1, <1>3, ReturnKeeps
<1>4. CASE PutSetInstallation(job[p].set)
  <2> DEFINE s == job[p].set
  <2>1. /\ removalPhase[s] # "prepared" /\ NextEpoch(s) <= MaxEpoch
        /\ installedEpoch' = [installedEpoch EXCEPT ![s] = NextEpoch(s)]
        /\ UNCHANGED <<removalEpoch, removalPhase>>
    BY <1>4 DEF PutSetInstallation
  <2>2. /\ installedEpoch \in [Sets -> 0..MaxEpoch] /\ removalEpoch \in [Sets -> 0..MaxEpoch]
        /\ removalPhase \in [Sets -> {"none", "prepared", "completed"}] /\ MaxEpoch \in Nat
    BY Parts, SetConstants DEF RowTypes
  <2>3. NextEpoch(s) \in 0..MaxEpoch /\ NextEpoch(s) # 0
    BY <1>2, <2>1, <2>2, SMTT(30) DEF NextEpoch
  <2>4. RowTypes'
    BY <2>1, <2>2, <2>3, Zenon DEF RowTypes
  <2>5. \A x \in Sets \ {s} : installedEpoch'[x] = installedEpoch[x]
    BY <2>1, <2>2
  <2>6. RowsSound'
    BY <2>1, <2>5, Parts DEF RowsSound, Installed
  <2>7. DiskSound'
    BY <1>1, <1>2, <2>1, <2>5, Parts, Zenon DEF DiskSound, Installed, files, Return, Stop
  <2> QED
    BY <1>1, <2>4, <2>6, <2>7, EndKeeps
<1> QED
  BY <1>3, <1>4 DEF Register

-----------------------------------------------------------------------------
(* Steps of a removal.                                                     *)

\* The installation is revoked and journalled in one transaction.
LEMMA PrepareKeeps ==
    ASSUME SInv, NEW p \in Procs, Prepare(p)
    PROVE  SInv'
<1>1. /\ pc[p] = "prepare" /\ pc[p] \in Exclusive /\ "delete" \in Exclusive
      /\ Goto(p, "delete") /\ UNCHANGED files
  BY Zenon DEF Prepare, Exclusive, Sharing, Steps
<1>2. /\ pc' = [pc EXCEPT ![p] = "delete"] /\ job' = [job EXCEPT ![p] = job[p]]
      /\ pc'[p] = "delete" /\ UNCHANGED <<job, lock, faults, losses>>
      /\ job[p] \in Jobs /\ job[p].set \in Sets /\ job[p].epoch \in 0..MaxEpoch
  BY <1>1, GotoFacts, Alone DEF Jobs
<1> DEFINE s == job[p].set
           e == job[p].epoch
<1>3. CASE PrepareSetRemoval(s, e)
  <2>1. /\ removalEpoch' = [removalEpoch EXCEPT ![s] = e]
        /\ removalPhase' = [removalPhase EXCEPT ![s] = "prepared"]
        /\ installedEpoch' = [installedEpoch EXCEPT ![s] = 0]
    BY <1>3 DEF PrepareSetRemoval
  <2>2. /\ installedEpoch \in [Sets -> 0..MaxEpoch] /\ removalEpoch \in [Sets -> 0..MaxEpoch]
        /\ removalPhase \in [Sets -> {"none", "prepared", "completed"}] /\ 0 \in 0..MaxEpoch
    BY Parts, SetConstants DEF RowTypes
  <2>3. RowTypes'
    BY <1>2, <2>1, <2>2 DEF RowTypes
  <2>4. /\ removalEpoch'[s] = e /\ removalPhase'[s] = "prepared" /\ installedEpoch'[s] = 0
        /\ \A x \in Sets \ {s} : /\ installedEpoch'[x] = installedEpoch[x]
                                 /\ removalEpoch'[x] = removalEpoch[x]
                                 /\ removalPhase'[x] = removalPhase[x]
    BY <1>2, <2>1, <2>2
  <2>5. RowsSound'
    BY <2>4, Parts, Zenon DEF RowsSound, Installed
  <2>6. DiskSound'
    BY <1>1, <1>2, <2>4, Parts, Zenon DEF DiskSound, Installed, files
  <2>7. FileTypes'
    BY <1>1, Parts DEF FileTypes, files
  <2>8. Work(p)'
    BY <1>2, <2>4, Zenon DEF Work
  <2> QED
    BY <1>1, <1>2, <2>3, <2>5, <2>6, <2>7, <2>8, Advance, Zenon
<1>4. CASE PrepareResult(s, e) = "AlreadyPrepared" /\ UNCHANGED rows
  <2>1. removalPhase[s] # "none" /\ removalPhase[s] # "completed" /\ removalEpoch[s] = e
    BY <1>4 DEF PrepareResult
  <2>2. removalPhase[s] = "prepared"
    BY <1>2, <2>1, Parts DEF RowTypes
  <2>3. Work(p)'
    BY <1>2, <1>4, <2>1, <2>2, Zenon DEF Work, rows
  <2> QED
    BY <1>1, <1>2, <1>4, <2>3, AdvanceOnly, Zenon
<1> QED
  BY <1>3, <1>4, Zenon DEF Prepare

\* Entries go only while the journal says so.
LEMMA DeleteKeeps ==
    ASSUME SInv, NEW p \in Procs, Delete(p)
    PROVE  SInv'
<1>1. /\ pc[p] = "delete" /\ pc[p] \in Exclusive /\ "delete.sync" \in Exclusive
      /\ UNCHANGED <<rows, staging, probes, job, lock, faults, losses>>
  BY Zenon DEF Delete, Exclusive, Sharing, Steps
<1>2. /\ job[p] \in Jobs /\ job[p].set \in Sets
      /\ removalPhase[job[p].set] = "prepared" /\ removalEpoch[job[p].set] = job[p].epoch
  BY <1>1, Alone, Parts, Zenon DEF Jobs, Work
<1>3. /\ pc \in [Procs -> Steps] /\ job \in [Procs -> Jobs \cup {NoJob}]
      /\ job' = [job EXCEPT ![p] = job[p]]
  BY <1>1, Parts DEF ProcTypes
<1> DEFINE s == job[p].set
<1>4. CASE tree[s] # {} /\ RemoveEntry(s) /\ UNCHANGED pc
  <2> DEFINE gone(t) == IF tree[s] = {Root} THEN {} ELSE t \ {Max(tree[s])}
  <2>1. /\ tree' = [tree EXCEPT ![s] = gone(tree[s])]
        /\ disk' = [disk EXCEPT ![s] = disk[s] \cup {gone(t) : t \in disk[s]}]
    BY <1>4, Zenon DEF RemoveEntry
  <2>2. /\ tree \in [Sets -> Trees] /\ disk \in [Sets -> SUBSET Trees]
        /\ staging \in 0..MaxStagingEntries /\ probes \in 0..MaxStorageEntries
    BY Parts DEF FileTypes
  <2>3. \A t \in Trees : gone(t) \in Trees
    <3> SUFFICES ASSUME NEW t \in Trees, tree[s] # {Root} PROVE t \ {Max(tree[s])} \in Trees
      BY TreeFacts
    <3>1. Max(tree[s]) # Root
      BY <1>2, <1>4, <2>2, LastEntry, Zenon
    <3> QED
      BY <3>1 DEF Trees
  <2>4. tree' \in [Sets -> Trees] /\ \A x \in Sets \ {s} : tree'[x] = tree[x]
    BY <1>2, <2>1, <2>2, <2>3, Zenon
  <2>5. disk' \in [Sets -> SUBSET Trees] /\ \A x \in Sets \ {s} : disk'[x] = disk[x]
    <3>1. disk[s] \cup {gone(t) : t \in disk[s]} \in SUBSET Trees
      BY <1>2, <2>2, <2>3, Zenon
    <3> HIDE DEF gone
    <3> QED
      BY <1>2, <2>1, <2>2, <3>1, Zenon
  <2>6. FileTypes'
    BY <1>1, <2>2, <2>4, <2>5, Zenon DEF FileTypes
  <2>7. ~Installed(s)
    BY <1>2, Parts DEF RowsSound
  <2>8. DiskSound'
    BY <1>1, <1>2, <2>4, <2>5, <2>7, Parts, SMTT(30) DEF DiskSound, Installed, rows
  <2>9. pc' = [pc EXCEPT ![p] = "delete"] /\ pc'[p] = "delete" /\ "delete" \in Exclusive
    BY <1>1, <1>3, <1>4, Zenon
  <2>10. Work(p)'
    BY <1>1, <1>2, <2>9, Zenon DEF Work, rows
  <2> QED
    BY <1>1, <1>2, <1>3, <2>6, <2>8, <2>9, <2>10, RowsStay, Advance, Zenon
<1>5. CASE tree[s] = {} /\ pc' = [pc EXCEPT ![p] = "delete.sync"] /\ UNCHANGED <<tree, disk>>
  <2>1. pc'[p] = "delete.sync" /\ UNCHANGED files
    BY <1>1, <1>3, <1>5 DEF files
  <2>2. Work(p)'
    BY <1>1, <1>2, <1>5, <2>1, Zenon DEF Work, rows
  <2> QED
    BY <1>1, <1>2, <1>3, <1>5, <2>1, <2>2, AdvanceOnly, Zenon
<1> QED
  BY <1>4, <1>5, Zenon DEF Delete

\* Removal synchronises sets/ after the root is gone from it.
LEMMA DeleteSyncKeeps ==
    ASSUME SInv, NEW p \in Procs, DeleteSync(p)
    PROVE  SInv'
<1>1. /\ pc[p] = "delete.sync" /\ pc[p] \in Exclusive /\ "complete" \in Exclusive
      /\ SyncSets /\ Goto(p, "complete") /\ UNCHANGED <<rows, tree, staging, probes>>
  BY DEF DeleteSync, Exclusive, Sharing, Steps
<1>2. /\ pc' = [pc EXCEPT ![p] = "complete"] /\ job' = [job EXCEPT ![p] = job[p]]
      /\ pc'[p] = "complete" /\ UNCHANGED <<job, lock, faults, losses>>
      /\ job[p] \in Jobs /\ job[p].set \in Sets
  BY <1>1, GotoFacts, Alone DEF Jobs
<1>3. FileTypes'
  BY <1>1, <1>2, SyncKeeps, Parts DEF FileTypes
<1>4. /\ removalPhase[job[p].set] = "prepared" /\ removalEpoch[job[p].set] = job[p].epoch
      /\ tree[job[p].set] = {}
  BY <1>1, Parts, Zenon DEF Work
<1>5. disk'[job[p].set] = {{}}
  BY <1>1, <1>2, <1>4, SyncFacts, Zenon
<1>6. Work(p)'
  BY <1>1, <1>2, <1>4, <1>5, Zenon DEF Work, rows
<1> QED
  BY <1>1, <1>2, <1>3, <1>6, RowsStay, SyncKeeps, Advance, Zenon

\* The journal is closed when nothing of the tree is left on disk.
LEMMA CompleteKeeps ==
    ASSUME SInv, NEW p \in Procs, Complete(p)
    PROVE  SInv'
<1>1. /\ pc[p] = "complete" /\ pc[p] \in Exclusive /\ Return(p) /\ UNCHANGED files
      /\ CompleteSetRemoval(job[p].set, job[p].epoch)
  BY DEF Complete, Exclusive, Sharing, Steps
<1> DEFINE s == job[p].set
<1>2. s \in Sets /\ tree[s] = {} /\ disk[s] = {{}}
  BY <1>1, Alone, Parts, Zenon DEF Jobs, Work
<1>3. /\ removalPhase' = [removalPhase EXCEPT ![s] = "completed"]
      /\ removalPhase[s] = "prepared" /\ ~Installed(s)
      /\ UNCHANGED <<installedEpoch, removalEpoch>>
  BY <1>1 DEF CompleteSetRemoval
<1>4. removalPhase \in [Sets -> {"none", "prepared", "completed"}]
  BY Parts DEF RowTypes
<1>5. RowTypes'
  BY <1>3, <1>4, Parts, Zenon DEF RowTypes
<1>6. removalPhase'[s] = "completed" /\ \A x \in Sets \ {s} : removalPhase'[x] = removalPhase[x]
  BY <1>2, <1>3, <1>4, Zenon
<1>7. RowsSound'
  BY <1>3, <1>6, Parts DEF RowsSound, Installed
<1>8. DiskSound'
  BY <1>1, <1>2, <1>3, <1>6, Parts, Zenon DEF DiskSound, Installed, files, Return, Stop
<1> QED
  BY <1>1, <1>5, <1>7, <1>8, EndKeeps

-----------------------------------------------------------------------------
(* Power losses, and the theorems.                                         *)

\* What a power loss leaves was on disk before.
LEMMA PowerLossKeeps ==
    ASSUME SInv, PowerLoss
    PROVE  SInv'
<1>1. PICK left \in [Sets -> Trees] :
         /\ \A s \in Sets : left[s] \in disk[s]
         /\ tree' = left /\ disk' = [s \in Sets |-> {left[s]}]
  BY DEF PowerLoss
<1>2. /\ losses' = losses + 1 /\ losses < MaxPowerLosses
      /\ staging' \in 0..MaxStagingEntries
      /\ pc' = [p \in Procs |-> "idle"] /\ job' = [p \in Procs |-> NoJob]
      /\ lock' = [p \in Procs |-> "none"] /\ UNCHANGED <<rows, probes, faults>>
  BY DEF PowerLoss
<1>3. losses \in Nat /\ MaxPowerLosses \in Nat /\ probes \in 0..MaxStorageEntries
      /\ faults \in 0..MaxFaults
  BY SetConstants, Parts DEF ProcTypes, FileTypes
<1>4. ProcTypes'
  BY <1>2, <1>3 DEF ProcTypes, Steps
<1>5. FileTypes'
  BY <1>1, <1>2, <1>3 DEF FileTypes
<1>6. Locks'
  BY <1>2 DEF Locks, Sharing, Exclusive
<1>7. \A p \in Procs : Work(p)'
  BY <1>2, IdleWork
<1>8. DiskSound'
  <2>1. \A s \in Sets : disk'[s] = {tree'[s]} /\ tree'[s] \in disk[s]
    BY <1>1
  <2>2. losses' # 0 /\ removalPhase' = removalPhase
    BY <1>2, <1>3 DEF rows
  <2> QED
    BY <2>1, <2>2, Parts DEF DiskSound
<1> QED
  BY <1>2, <1>4, <1>5, <1>6, <1>7, <1>8, RowsStay DEF SInv

\* An empty repository satisfies the invariant.
LEMMA InitSInv == Init => SInv
<1> SUFFICES ASSUME Init PROVE SInv
  OBVIOUS
<1>1. RowTypes /\ RowsSound
  BY SetConstants DEF Init, RowTypes, RowsSound, Installed
<1>2. FileTypes /\ DiskSound
  BY SetConstants, TreeFacts DEF Init, FileTypes, DiskSound, Installed
<1>3. ProcTypes /\ Locks
  BY SetConstants DEF Init, ProcTypes, Locks, Steps, Sharing, Exclusive
<1>4. \A p \in Procs : Work(p)
  BY DEF Init, Work
<1> QED
  BY <1>1, <1>2, <1>3, <1>4 DEF SInv

\* Every step keeps the invariant.
LEMMA NextSInv == SInv /\ [Next]_vars => SInv'
<1> SUFFICES ASSUME SInv, [Next]_vars PROVE SInv'
  OBVIOUS
<1>1. ASSUME NEW p \in Procs, ImportStep(p) PROVE SInv'
  BY <1>1, InspectKeeps, ProbeKeeps, UnprobeKeeps, StageKeeps, SealKeeps, PublishKeeps, ReadKeeps,
     SyncSetsKeeps, VerifyKeeps, RegisterKeeps, Zenon DEF ImportStep
<1>2. ASSUME NEW p \in Procs, RemovalStep(p) PROVE SInv'
  BY <1>2, ReadKeeps, RecoverKeeps, PrepareKeeps, DeleteKeeps, DeleteSyncKeeps, CompleteKeeps, Zenon
     DEF RemovalStep
<1>3. CASE UNCHANGED vars
  <2>1. UNCHANGED <<rows, files, pc, job, lock, faults, losses>>
    BY <1>3 DEF vars, procs
  <2>2. ProcTypes' /\ Locks'
    BY <2>1, Parts, Zenon DEF ProcTypes, Locks
  <2>3. RowTypes' /\ RowsSound'
    BY <2>1, RowsStay
  <2>4. FileTypes' /\ DiskSound'
    BY <2>1, Parts, Zenon DEF FileTypes, DiskSound, Installed, rows, files
  <2>5. ASSUME NEW p \in Procs PROVE Work(p)'
    <3>1. Work(p)
      BY Parts
    <3> QED
      BY <2>1, <3>1, Zenon DEF Work, rows, files
  <2> QED
    BY <2>2, <2>3, <2>4, <2>5 DEF SInv
<1> QED
  BY <1>1, <1>2, <1>3, BeginKeeps, LeaseKeeps, FaultKeeps, PowerLossKeeps, Zenon DEF Next, Continue

\* The rows, the trees and the locks of the set repository stay in step, for
\* any sets, processes, faults and power losses.
THEOREM SetInvariant == Spec => []SInv
  BY InitSInv, NextSInv, PTL DEF Spec

-----------------------------------------------------------------------------
(* Trees that their own import has made to last.                           *)

\* No power loss can take anything from the tree.
Lasting(s) == tree[s] = Full /\ disk[s] = {Full}

\* A process that registers what it has sealed has also synchronised it.
Publication(p) ==
    /\ pc[p] = "import.inspect" => ~job[p].sealed
    /\ pc[p] \in {"import.syncStaging", "import.syncSets"} => tree[job[p].set] = Full
    /\ pc[p] \in {"verify", "register"} /\ job[p].sealed => Lasting(job[p].set)

\* An installed set has a lasting tree, or was registered as it was found.
Registered ==
    /\ adopted \subseteq Sets
    /\ \A s \in Sets : Installed(s) => s \in adopted \/ Lasting(s)

\* The invariant SInv, strengthened by both.
AInv == SInv /\ Registered /\ \A p \in Procs : Publication(p)

\* Its parts.
LEMMA AParts ==
    ASSUME AInv
    PROVE  SInv /\ Registered /\ \A p \in Procs : Publication(p)
  BY DEF AInv

\* Which steps change trees, here or on disk.
LEMMA TreeSteps ==
    ASSUME [Next]_vars
    PROVE  \/ UNCHANGED <<tree, disk>>
           \/ SyncSets /\ UNCHANGED tree
           \/ \E p \in Procs : ImportPublish(p) \/ Delete(p)
           \/ PowerLoss
<1>0. UNCHANGED files => UNCHANGED <<tree, disk>>
  BY DEF files
<1>1. ASSUME NEW p \in Procs, ImportStep(p), ~ImportPublish(p)
      PROVE  UNCHANGED <<tree, disk>> \/ (SyncSets /\ UNCHANGED tree)
  BY <1>0, <1>1, Zenon DEF ImportStep, ImportInspect, ImportProbe, ImportUnprobe, ImportStage,
     ImportSeal, ImportSyncStaging, ImportSyncSets, Verify, Register
<1>2. ASSUME NEW p \in Procs, RemovalStep(p), ~Delete(p)
      PROVE  UNCHANGED <<tree, disk>> \/ (SyncSets /\ UNCHANGED tree)
  BY <1>0, <1>2, Zenon DEF RemovalStep, RemoveOpen, RemoveVerify, RecoverOpen, RecoverVerify,
     Prepare, DeleteSync, Complete
<1>3. ASSUME NEW p \in Procs, BeginStep(p) \/ LeaseStep(p) \/ Fail(p) \/ Kill(p)
      PROVE  UNCHANGED <<tree, disk>>
  BY <1>0, <1>3, Zenon DEF BeginStep, ImportBegin, ReconcileBegin, LeaseBegin, RemoveBegin,
     RecoverBegin, Begin, Fail, Kill, LeaseStep, LeaseVerify, LeaseConfirm, LeaseRelease
<1>4. UNCHANGED vars => UNCHANGED files
  BY DEF vars
<1> QED
  BY <1>0, <1>1, <1>2, <1>3, <1>4, Zenon DEF Next, Continue

\* The name an import publishes under is free.
LEMMA PublishFree ==
    ASSUME SInv, NEW p \in Procs, ImportPublish(p)
    PROVE  tree[job[p].set] = {}
<1>1. Lookup(job[p].set) = "Available"
  BY Zenon DEF ImportPublish
<1>2. Cardinality({x \in Sets : tree[x] # {}}) \in Nat
  BY SetConstants, FS_Subset, FS_CardinalityType, Zenon
<1>3. StorageEntries \in Nat /\ MaxStorageEntries \in Nat
  BY <1>2, SetConstants, Parts DEF StorageEntries, FileTypes
<1> QED
  BY <1>1, <1>3 DEF Lookup

\* The lasting tree of an installed set stays: nobody deletes from it.
LEMMA LastingStays ==
    ASSUME SInv, [Next]_vars, NEW s \in Sets, Installed(s), Lasting(s)
    PROVE  Lasting(s)'
<1>1. tree[s] = Full /\ disk[s] = {Full}
  BY DEF Lasting
<1>2. tree \in [Sets -> Trees] /\ disk \in [Sets -> SUBSET Trees]
  BY Parts DEF FileTypes
<1>3. CASE UNCHANGED <<tree, disk>>
  BY <1>1, <1>3, Zenon DEF Lasting
<1>4. CASE SyncSets /\ UNCHANGED tree
  <2>1. disk'[s] = {tree[s]}
    BY <1>1, <1>4, SyncFacts, Zenon
  <2> QED
    BY <1>1, <1>4, <2>1, Zenon DEF Lasting
<1>5. ASSUME NEW p \in Procs, ImportPublish(p) PROVE Lasting(s)'
  <2>1. s # job[p].set
    BY <1>1, <1>5, PublishFree, TreeFacts, Zenon
  <2>2. tree'[s] = tree[s] /\ disk'[s] = disk[s]
    BY <1>2, <1>5, <2>1, Zenon DEF ImportPublish
  <2> QED
    BY <1>1, <2>2, Zenon DEF Lasting
<1>6. ASSUME NEW p \in Procs, Delete(p) PROVE Lasting(s)'
  <2>1. removalPhase[job[p].set] = "prepared"
    BY <1>6, Parts, Zenon DEF Delete, Work
  <2>2. s # job[p].set
    BY <2>1, Parts, Zenon DEF RowsSound
  <2>3. tree'[s] = tree[s] /\ disk'[s] = disk[s]
    BY <1>2, <1>6, <2>2, Zenon DEF Delete, RemoveEntry
  <2> QED
    BY <1>1, <2>3, Zenon DEF Lasting
<1>7. CASE PowerLoss
  <2>1. PICK left \in [Sets -> Trees] :
           /\ \A x \in Sets : left[x] \in disk[x]
           /\ tree' = left /\ disk' = [x \in Sets |-> {left[x]}]
    BY <1>7, Zenon DEF PowerLoss
  <2>2. left[s] = Full
    BY <1>1, <2>1
  <2> QED
    BY <2>1, <2>2, Zenon DEF Lasting
<1> QED
  BY <1>3, <1>4, <1>5, <1>6, <1>7, TreeSteps, Zenon

\* Which steps change the rows.
LEMMA RowSteps ==
    ASSUME [Next]_vars
    PROVE  \/ UNCHANGED rows
           \/ \E p \in Procs : Register(p) \/ Prepare(p) \/ Complete(p)
<1>2. ASSUME NEW p \in Procs, ImportStep(p), ~Register(p) PROVE UNCHANGED rows
  BY <1>2, Zenon DEF ImportStep, ImportInspect, ImportProbe, ImportUnprobe, ImportStage, ImportSeal,
     ImportPublish, ImportSyncStaging, ImportSyncSets, Verify
<1>3. ASSUME NEW p \in Procs, RemovalStep(p), ~Prepare(p), ~Complete(p) PROVE UNCHANGED rows
  BY <1>3, Zenon DEF RemovalStep, RemoveOpen, RemoveVerify, RecoverOpen, RecoverVerify, Delete,
     DeleteSync
<1>4. ASSUME NEW p \in Procs, BeginStep(p) PROVE UNCHANGED rows
  BY <1>4, Zenon DEF BeginStep, ImportBegin, ReconcileBegin, LeaseBegin, RemoveBegin, RecoverBegin,
     Begin
<1>5. ASSUME NEW p \in Procs, LeaseStep(p) \/ Fail(p) \/ Kill(p) PROVE UNCHANGED rows
  BY <1>5, Zenon DEF LeaseStep, LeaseVerify, LeaseConfirm, LeaseRelease, Fail, Kill
<1>6. PowerLoss \/ UNCHANGED vars => UNCHANGED rows
  BY Zenon DEF PowerLoss, vars
<1> QED
  BY <1>2, <1>3, <1>4, <1>5, <1>6, Zenon DEF Next, Continue

\* A set is registered as found, or over a tree that lasts.
LEMMA RegisteredStays ==
    ASSUME AInv, [Next]_vars
    PROVE  Registered'
<1>1. SInv /\ Registered
  BY AParts
<1>2. installedEpoch \in [Sets -> 0..MaxEpoch]
  BY <1>1, Parts DEF RowTypes
<1>3. \A s \in Sets : Installed(s) => s \in adopted \/ Lasting(s)'
  BY <1>1, LastingStays, Zenon DEF Registered
<1>4. CASE UNCHANGED <<installedEpoch, adopted>>
  BY <1>1, <1>3, <1>4, Zenon DEF Registered, Installed
<1>5. ASSUME NEW p \in Procs, Register(p) PROVE Registered'
  <2>1. pc[p] = "register" /\ UNCHANGED files
    BY <1>5, Zenon DEF Register
  <2>2. pc[p] \in Exclusive
    BY <2>1 DEF Exclusive, Sharing, Steps
  <2>3. PICK s \in Sets : s = job[p].set
    BY <1>1, <2>2, Alone DEF Jobs
  <2>4. CASE UNCHANGED rows
    BY <1>4, <2>4 DEF rows
  <2>5. CASE /\ PutSetInstallation(s)
             /\ adopted' = IF job[p].sealed THEN adopted \ {s} ELSE adopted \cup {s}
    <3>1. \A x \in Sets \ {s} : installedEpoch'[x] = installedEpoch[x]
      BY <1>2, <2>5, Zenon DEF PutSetInstallation
    <3>2. \A x \in Sets \ {s} : Installed(x)' => x \in adopted' \/ Lasting(x)'
      BY <1>3, <2>5, <3>1, Zenon DEF Installed
    <3>3. s \in adopted' \/ Lasting(s)'
      <4>1. CASE job[p].sealed
        <5>1. Lasting(s)
          BY <2>1, <2>3, <4>1, AParts, Zenon DEF Publication
        <5> QED
          BY <2>1, <5>1, Zenon DEF Lasting, files
      <4>2. CASE ~job[p].sealed
        BY <2>5, <4>2, Zenon
      <4> QED
        BY <4>1, <4>2
    <3>4. adopted' \subseteq Sets
      BY <1>1, <2>3, <2>5, Zenon DEF Registered
    <3> QED
      BY <3>2, <3>3, <3>4, Zenon DEF Registered
  <2> QED
    BY <1>5, <2>3, <2>4, <2>5, Zenon DEF Register
<1>6. ASSUME NEW p \in Procs, Prepare(p) PROVE Registered'
  <2> DEFINE s == job[p].set
  <2>1. CASE UNCHANGED rows
    BY <1>4, <2>1 DEF rows
  <2>2. CASE PrepareSetRemoval(s, job[p].epoch)
    <3>1. adopted' = adopted /\ installedEpoch' = [installedEpoch EXCEPT ![s] = 0]
      BY <2>2, Zenon DEF PrepareSetRemoval
    <3>2. \A x \in Sets : installedEpoch'[x] # 0 => installedEpoch[x] # 0
      BY <1>2, <3>1, Zenon
    <3> QED
      BY <1>1, <1>3, <3>1, <3>2, Zenon DEF Registered, Installed
  <2> QED
    BY <1>6, <2>1, <2>2, Zenon DEF Prepare
<1>7. ASSUME NEW p \in Procs, Complete(p) PROVE Registered'
  <2>1. UNCHANGED <<installedEpoch, adopted>>
    BY <1>7 DEF Complete, CompleteSetRemoval
  <2> QED
    BY <1>4, <2>1
<1>8. UNCHANGED rows => UNCHANGED <<installedEpoch, adopted>>
  BY DEF rows
<1> QED
  BY <1>4, <1>5, <1>6, <1>7, <1>8, RowSteps, Zenon

\* At the other steps nothing is published.
LEMMA Unpublished ==
    ASSUME NEW p \in Procs,
           pc'[p] \notin {"import.inspect", "import.syncStaging", "import.syncSets", "verify",
                          "register"}
    PROVE  Publication(p)'
  BY Zenon DEF Publication

\* What an idle process, or one that stays where it is over unchanged trees, has
\* published stays so.
LEMMA OthersPublication ==
    ASSUME AInv, NEW p \in Procs, \A q \in Procs \ {p} : pc'[q] = pc[q] /\ job'[q] = job[q],
           pc[p] \in Exclusive \/ UNCHANGED <<tree, disk>>, Publication(p)'
    PROVE  \A q \in Procs : Publication(q)'
<1>1. ASSUME NEW q \in Procs \ {p} PROVE Publication(q)'
  <2>1. Publication(q) /\ pc'[q] = pc[q] /\ job'[q] = job[q]
    BY AParts
  <2>2. CASE pc[p] \in Exclusive
    <3>1. pc[q] = "idle"
      BY <2>2, AParts, Alone, Zenon
    <3> QED
      BY <2>1, <3>1, Unpublished
  <2>3. CASE UNCHANGED <<tree, disk>>
    BY <2>1, <2>3, Zenon DEF Publication, Lasting
  <2> QED
    BY <2>2, <2>3
<1> QED
  BY <1>1, Zenon

\* A step of one process, as the others see it.
LEMMA OneMoves ==
    ASSUME SInv, NEW p \in Procs
    PROVE  /\ \A step : Goto(p, step) =>
                 /\ pc'[p] = step /\ job'[p] = job[p]
                 /\ \A q \in Procs \ {p} : pc'[q] = pc[q] /\ job'[q] = job[q]
           /\ Stop(p) =>
                 /\ pc'[p] = "idle"
                 /\ \A q \in Procs \ {p} : pc'[q] = pc[q] /\ job'[q] = job[q]
<1>1. pc \in [Procs -> Steps] /\ job \in [Procs -> Jobs \cup {NoJob}]
  BY Parts, Zenon DEF ProcTypes
<1>2. ASSUME NEW step, Goto(p, step)
      PROVE  /\ pc'[p] = step /\ job'[p] = job[p]
             /\ \A q \in Procs \ {p} : pc'[q] = pc[q] /\ job'[q] = job[q]
  BY <1>1, <1>2, Zenon DEF Goto
<1>3. ASSUME Stop(p)
      PROVE  pc'[p] = "idle" /\ \A q \in Procs \ {p} : pc'[q] = pc[q] /\ job'[q] = job[q]
  BY <1>1, <1>3, Zenon DEF Stop
<1> QED
  BY <1>2, <1>3, Zenon

\* The steps of an import or a reconciliation, in their order: published, whole;
\* synchronised, lasting.
LEMMA ImportPublication ==
    ASSUME AInv, NEW p \in Procs, ImportStep(p)
    PROVE  \A q \in Procs : Publication(q)'
<1>0. /\ SInv /\ Publication(p) /\ tree \in [Sets -> Trees] /\ disk \in [Sets -> SUBSET Trees]
      /\ pc \in [Procs -> Steps] /\ job \in [Procs -> Jobs \cup {NoJob}]
  BY AParts, Parts DEF FileTypes, ProcTypes
<1>1. pc[p] \in {"import.inspect", "import.probe", "import.unprobe", "import.stage", "import.seal",
                 "import.publish", "import.syncStaging", "import.syncSets", "verify", "register"}
  BY Zenon DEF ImportStep, ImportInspect, ImportProbe, ImportUnprobe, ImportStage, ImportSeal,
     ImportPublish, ImportSyncStaging, ImportSyncSets, Verify, Register
<1>2. pc[p] \in Exclusive
  BY <1>1 DEF Exclusive, Sharing, Steps
<1>3. job[p].set \in Sets
  BY <1>0, <1>2, Alone DEF Jobs
<1>4. ASSUME \A q \in Procs \ {p} : pc'[q] = pc[q] /\ job'[q] = job[q], Publication(p)'
      PROVE  \A q \in Procs : Publication(q)'
  BY <1>2, <1>4, OthersPublication, Zenon
<1>5. CASE Return(p)
  <2>1. Stop(p)
    BY <1>5 DEF Return
  <2>2. pc'[p] = "idle" /\ \A q \in Procs \ {p} : pc'[q] = pc[q] /\ job'[q] = job[q]
    BY <1>0, <2>1, OneMoves, Zenon
  <2> QED
    BY <1>4, <2>2, Unpublished
<1>6. ASSUME NEW step \in {"import.probe", "import.unprobe", "import.stage", "import.seal",
                           "import.publish"},
             Goto(p, step)
      PROVE  \A q \in Procs : Publication(q)'
  <2>1. pc'[p] = step /\ \A q \in Procs \ {p} : pc'[q] = pc[q] /\ job'[q] = job[q]
    BY <1>0, <1>6, OneMoves, Zenon
  <2>2. Publication(p)'
    BY <2>1, Unpublished
  <2> QED
    BY <1>4, <2>1, <2>2
<1>7. CASE pc[p] = "import.inspect" /\ Goto(p, "verify")
  <2>1. /\ pc'[p] = "verify" /\ job'[p] = job[p]
        /\ \A q \in Procs \ {p} : pc'[q] = pc[q] /\ job'[q] = job[q]
    BY <1>0, <1>7, OneMoves, Zenon
  <2>2. Publication(p)'
    BY <1>0, <1>7, <2>1 DEF Publication
  <2> QED
    BY <1>4, <2>1, <2>2
<1>8. CASE ImportSeal(p)
  <2>1. pc'[p] = "import.publish" /\ \A q \in Procs \ {p} : pc'[q] = pc[q] /\ job'[q] = job[q]
    BY <1>0, <1>8 DEF ImportSeal
  <2>2. Publication(p)'
    BY <2>1, Unpublished
  <2> QED
    BY <1>4, <2>1, <2>2
<1>9. CASE ImportPublish(p)
  <2>1. Goto(p, "import.syncStaging") /\ tree' = [tree EXCEPT ![job[p].set] = Full]
    BY <1>9, Zenon DEF ImportPublish
  <2>2. /\ pc'[p] = "import.syncStaging" /\ job'[p] = job[p]
        /\ \A q \in Procs \ {p} : pc'[q] = pc[q] /\ job'[q] = job[q]
    BY <1>0, <2>1, OneMoves, Zenon
  <2>3. tree'[job[p].set] = Full
    BY <1>0, <1>3, <2>1, Zenon
  <2>4. Publication(p)'
    BY <2>2, <2>3 DEF Publication
  <2> QED
    BY <1>4, <2>2, <2>4
<1>10. CASE ImportSyncStaging(p)
  <2>1. pc[p] = "import.syncStaging" /\ Goto(p, "import.syncSets") /\ UNCHANGED tree
    BY <1>10 DEF ImportSyncStaging, files
  <2>2. /\ pc'[p] = "import.syncSets" /\ job'[p] = job[p]
        /\ \A q \in Procs \ {p} : pc'[q] = pc[q] /\ job'[q] = job[q]
    BY <1>0, <2>1, OneMoves, Zenon
  <2>3. Publication(p)'
    BY <1>0, <2>1, <2>2, Zenon DEF Publication
  <2> QED
    BY <1>4, <2>2, <2>3
<1>11. CASE ImportSyncSets(p)
  <2>1. pc[p] = "import.syncSets" /\ Goto(p, "verify") /\ SyncSets /\ UNCHANGED tree
    BY <1>11, Zenon DEF ImportSyncSets
  <2>2. /\ pc'[p] = "verify" /\ job'[p] = job[p]
        /\ \A q \in Procs \ {p} : pc'[q] = pc[q] /\ job'[q] = job[q]
    BY <1>0, <2>1, OneMoves, Zenon
  <2>3. tree[job[p].set] = Full
    BY <1>0, <2>1 DEF Publication
  <2>4. disk'[job[p].set] = {Full}
    BY <1>0, <1>3, <2>1, <2>3, SyncFacts, Zenon
  <2>5. Lasting(job[p].set)'
    BY <2>1, <2>2, <2>3, <2>4 DEF Lasting
  <2>6. Publication(p)'
    BY <2>2, <2>5 DEF Publication
  <2> QED
    BY <1>4, <2>2, <2>6
<1>12. CASE Verify(p) /\ Goto(p, "register")
  <2>1. pc[p] = "verify" /\ UNCHANGED <<tree, disk>>
    BY <1>12 DEF Verify, files
  <2>2. /\ pc'[p] = "register" /\ job'[p] = job[p]
        /\ \A q \in Procs \ {p} : pc'[q] = pc[q] /\ job'[q] = job[q]
    BY <1>0, <1>12, OneMoves, Zenon
  <2>3. Publication(p)'
    BY <1>0, <2>1, <2>2 DEF Publication, Lasting
  <2> QED
    BY <1>4, <2>2, <2>3
<1> QED
  BY <1>5, <1>6, <1>7, <1>8, <1>9, <1>10, <1>11, <1>12, Zenon DEF ImportStep, ImportInspect,
     ImportProbe, ImportUnprobe, ImportStage, Verify, Register

\* No removal publishes anything.
LEMMA RemovalPublication ==
    ASSUME AInv, NEW p \in Procs, RemovalStep(p)
    PROVE  \A q \in Procs : Publication(q)'
<1>0. /\ SInv /\ pc \in [Procs -> Steps] /\ job \in [Procs -> Jobs \cup {NoJob}]
  BY AParts, Parts DEF ProcTypes
<1>1. pc[p] \in {"remove.open", "remove.verify", "recover.open", "recover.verify", "prepare",
                 "delete", "delete.sync", "complete"}
  BY Zenon DEF RemovalStep, RemoveOpen, RemoveVerify, RecoverOpen, RecoverVerify, Prepare, Delete,
     DeleteSync, Complete
<1>2. pc[p] \in Exclusive
  BY <1>1 DEF Exclusive, Sharing, Steps
<1>3. ASSUME \A q \in Procs \ {p} : pc'[q] = pc[q] /\ job'[q] = job[q],
             pc'[p] \in {"idle", "remove.verify", "recover.verify", "prepare", "delete",
                         "delete.sync", "complete"}
      PROVE  \A q \in Procs : Publication(q)'
  <2>1. Publication(p)'
    BY <1>3, Unpublished
  <2> QED
    BY <1>2, <1>3, <2>1, OthersPublication, Zenon
<1>4. CASE Return(p)
  <2>1. pc'[p] = "idle" /\ \A q \in Procs \ {p} : pc'[q] = pc[q] /\ job'[q] = job[q]
    BY <1>0, <1>4, OneMoves, Zenon DEF Return
  <2> QED
    BY <1>3, <2>1, Zenon
<1>5. ASSUME NEW step \in {"remove.verify", "recover.verify", "prepare", "delete", "delete.sync",
                           "complete"},
             Goto(p, step)
      PROVE  \A q \in Procs : Publication(q)'
  <2>1. pc'[p] = step /\ \A q \in Procs \ {p} : pc'[q] = pc[q] /\ job'[q] = job[q]
    BY <1>0, <1>5, OneMoves, Zenon
  <2> QED
    BY <1>3, <2>1, Zenon
<1>6. CASE pc' = [pc EXCEPT ![p] = "prepare"] /\ job' = [job EXCEPT ![p].found = FALSE]
  <2>1. pc'[p] = "prepare" /\ \A q \in Procs \ {p} : pc'[q] = pc[q] /\ job'[q] = job[q]
    BY <1>0, <1>6
  <2> QED
    BY <1>3, <2>1, Zenon
<1>7. CASE Delete(p)
  <2>1. /\ pc[p] = "delete" /\ UNCHANGED job
        /\ UNCHANGED pc \/ pc' = [pc EXCEPT ![p] = "delete.sync"]
    BY <1>7, Zenon DEF Delete
  <2>2. /\ pc'[p] \in {"delete", "delete.sync"}
        /\ \A q \in Procs \ {p} : pc'[q] = pc[q] /\ job'[q] = job[q]
    BY <1>0, <2>1
  <2> QED
    BY <1>3, <2>2, Zenon
<1> QED
  BY <1>4, <1>5, <1>6, <1>7, Zenon DEF RemovalStep, RemoveOpen, RemoveVerify, RecoverOpen,
     RecoverVerify, Prepare, DeleteSync, Complete

\* An operation begins without a publication of its own.
LEMMA BeginPublication ==
    ASSUME AInv, NEW p \in Procs, BeginStep(p)
    PROVE  \A q \in Procs : Publication(q)'
<1>0. pc \in [Procs -> Steps] /\ job \in [Procs -> Jobs \cup {NoJob}]
  BY AParts, Parts DEF ProcTypes
<1>1. PICK s \in Sets :
        \/ ImportBegin(p, s) \/ ReconcileBegin(p, s) \/ LeaseBegin(p, s)
        \/ \E e \in KnownEpochs(s) : RemoveBegin(p, s, e) \/ RecoverBegin(p, s, e)
  BY DEF BeginStep
<1>2. ASSUME NEW e, NEW step \in {"import.inspect", "verify", "remove.open", "recover.open",
                                  "lease.verify"},
             pc' = [pc EXCEPT ![p] = step], UNCHANGED files,
             job' = [job EXCEPT ![p] = [set |-> s, epoch |-> e, found |-> TRUE, sealed |-> FALSE]]
      PROVE  \A q \in Procs : Publication(q)'
  <2>1. /\ pc'[p] = step /\ job'[p].sealed = FALSE
        /\ \A q \in Procs \ {p} : pc'[q] = pc[q] /\ job'[q] = job[q]
    BY <1>0, <1>2
  <2>2. UNCHANGED <<tree, disk>>
    BY <1>2 DEF files
  <2>3. Publication(p)'
    BY <2>1, Zenon DEF Publication
  <2> QED
    BY <2>1, <2>2, <2>3, OthersPublication, Zenon
<1>3. CASE LeaseBegin(p, s)
  BY <1>2, <1>3, Zenon DEF LeaseBegin
<1>4. ASSUME NEW e, NEW step \in {"import.inspect", "verify", "remove.open", "recover.open"},
             Begin(p, step, s, e)
      PROVE  \A q \in Procs : Publication(q)'
  BY <1>2, <1>4, Zenon DEF Begin
<1> QED
  BY <1>1, <1>3, <1>4, Zenon DEF ImportBegin, ReconcileBegin, RemoveBegin, RecoverBegin

\* Leases and faults leave trees alone.
LEMMA QuietPublication ==
    ASSUME AInv, NEW p \in Procs, LeaseStep(p) \/ Fail(p) \/ Kill(p)
    PROVE  \A q \in Procs : Publication(q)'
<1>1. UNCHANGED files => UNCHANGED <<tree, disk>>
  BY DEF files
<1>2. UNCHANGED <<tree, disk>>
  BY <1>1, Zenon DEF LeaseStep, LeaseVerify, LeaseConfirm, LeaseRelease, Fail, Kill
<1>3. Stop(p) \/ Goto(p, "lease.confirm") \/ Goto(p, "leased")
  BY Zenon DEF LeaseStep, LeaseVerify, LeaseConfirm, LeaseRelease, Return, Fail, Kill
<1>4. /\ pc'[p] \in {"idle", "lease.confirm", "leased"}
      /\ \A q \in Procs \ {p} : pc'[q] = pc[q] /\ job'[q] = job[q]
  BY <1>3, AParts, OneMoves, Zenon
<1>5. Publication(p)'
  BY <1>4, Unpublished
<1> QED
  BY <1>2, <1>4, <1>5, OthersPublication, Zenon

\* What a process knows of its own publication holds at every step.
LEMMA PublicationStays ==
    ASSUME AInv, [Next]_vars
    PROVE  \A q \in Procs : Publication(q)'
<1>1. CASE PowerLoss
  <2>1. pc' = [q \in Procs |-> "idle"]
    BY <1>1, Zenon DEF PowerLoss
  <2> SUFFICES ASSUME NEW q \in Procs PROVE Publication(q)'
    OBVIOUS
  <2>2. pc'[q] = "idle"
    BY <2>1
  <2> QED
    BY <2>2, Unpublished
<1>2. CASE UNCHANGED vars
  <2>1. UNCHANGED <<pc, job, tree, disk>>
    BY <1>2 DEF vars, procs, files
  <2> QED
    BY <2>1, AParts, Zenon DEF Publication, Lasting
<1> QED
  BY <1>1, <1>2, ImportPublication, RemovalPublication, BeginPublication, QuietPublication, Zenon
     DEF Next, Continue

\* An installed set has a tree that no power loss can take, unless its root was
\* found and registered without being synchronised
\* (artifact_set_import/service.rs:209-221).
THEOREM AdoptionInvariant == Spec => []AInv
<1>1. Init => AInv
  <2> SUFFICES ASSUME Init PROVE AInv
    OBVIOUS
  <2>1. Registered
    BY DEF Init, Registered, Installed
  <2>2. \A p \in Procs : Publication(p)
    BY DEF Init, Publication
  <2> QED
    BY <2>1, <2>2, InitSInv DEF AInv
<1>2. AInv /\ [Next]_vars => AInv'
  <2> SUFFICES ASSUME AInv, [Next]_vars PROVE AInv'
    OBVIOUS
  <2>1. SInv'
    BY AParts, NextSInv
  <2> QED
    BY <2>1, RegisteredStays, PublicationStays DEF AInv
<1> QED
  BY <1>1, <1>2, PTL DEF Spec

\* A root under its canonical name is whole, or its removal is journalled
\* (publication.rs:35, artifact_set_removal.rs:276).
THEOREM PartialOnlyWhileRemovingTheorem == Spec => []PartialOnlyWhileRemoving
<1>1. AInv => PartialOnlyWhileRemoving
  <2> SUFFICES ASSUME AInv PROVE PartialOnlyWhileRemoving
    OBVIOUS
  <2>1. SInv /\ adopted \subseteq Sets
    BY AParts DEF Registered
  <2> QED
    BY <2>1 DEF SInv, RowTypes, FileTypes, ProcTypes, DiskSound, PartialOnlyWhileRemoving, TypeOK
<1> QED
  BY <1>1, AdoptionInvariant, PTL

\* An installed set keeps its exact tree through errors, kills and power losses,
\* except that a power loss may take a root that was registered as it was found
\* (artifact_set_import/service.rs:209-221, artifact_set_reconciliation.rs:142).
THEOREM InstalledTreeExactTheorem == Spec => []InstalledTreeExact
<1>1. AInv => InstalledTreeExact
  <2> SUFFICES ASSUME AInv, NEW s \in Sets, Installed(s)
               PROVE  tree[s] = Full \/ (losses > 0 /\ s \in adopted)
    BY DEF InstalledTreeExact
  <2>1. s \in adopted \/ tree[s] = Full
    BY AParts DEF Registered, Lasting
  <2>2. losses \in Nat /\ (losses = 0 => tree[s] = Full)
    BY AParts, Parts, SetConstants DEF ProcTypes, DiskSound
  <2> QED
    BY <2>1, <2>2
<1> QED
  BY <1>1, AdoptionInvariant, PTL

\* A lease keeps its generation installed and its tree exact
\* (runtime_artifact_set_lease.rs:31-41).
THEOREM SetLeaseProtectsTheorem == Spec => []SetLeaseProtects
<1>1. SInv => SetLeaseProtects
  BY Zenon DEF SInv, Work, SetLeaseProtects
<1> QED
  BY <1>1, SetInvariant, PTL

-----------------------------------------------------------------------------
(* The refinement of InstallationRegistry.                                 *)

\* The rows of one set change in one of three transactions.
LEMMA RowStep ==
    ASSUME SInv, [Next]_vars
    PROVE  \/ UNCHANGED rows
           \/ \E s \in Sets : \/ PutSetInstallation(s)
                              \/ \E e : PrepareSetRemoval(s, e) \/ CompleteSetRemoval(s, e)
<1>1. ASSUME NEW p \in Procs, Register(p) \/ Prepare(p) \/ Complete(p)
      PROVE  \/ UNCHANGED rows
             \/ \E s \in Sets : \/ PutSetInstallation(s)
                                \/ \E e : PrepareSetRemoval(s, e) \/ CompleteSetRemoval(s, e)
  <2>1. pc[p] \in Exclusive
    BY <1>1, Zenon DEF Register, Prepare, Complete, Exclusive, Sharing, Steps
  <2>2. job[p].set \in Sets
    BY <2>1, Alone DEF Jobs
  <2> QED
    BY <1>1, <2>2, Zenon DEF Register, Prepare, Complete
<1> QED
  BY <1>1, RowSteps, Zenon

\* Rows that stay leave every generation and status.
LEMMA RegistryKept ==
    ASSUME UNCHANGED rows
    PROVE  UNCHANGED Registry!vars
  BY Zenon DEF rows, Registry!vars, GenerationOf, StatusOf, Installed

\* One transaction is one turn of the registry.
LEMMA StepRefines ==
    ASSUME SInv, [Next]_vars
    PROVE  [Registry!Next]_(Registry!vars)
<1> DEFINE generation == [s \in Sets |-> GenerationOf(s)]
           status == [s \in Sets |-> StatusOf(s)]
<1>0. /\ installedEpoch \in [Sets -> 0..MaxEpoch] /\ removalEpoch \in [Sets -> 0..MaxEpoch]
      /\ removalPhase \in [Sets -> {"none", "prepared", "completed"}] /\ MaxEpoch \in Nat
  BY Parts, SetConstants DEF RowTypes
<1>1. ASSUME NEW s \in Sets, PutSetInstallation(s) PROVE Registry!Install(s)
  <2>1. /\ removalPhase[s] # "prepared" /\ ~Installed(s) /\ NextEpoch(s) <= MaxEpoch
        /\ installedEpoch' = [installedEpoch EXCEPT ![s] = NextEpoch(s)]
        /\ UNCHANGED <<removalEpoch, removalPhase>>
    BY <1>1 DEF PutSetInstallation
  <2>2. removalPhase[s] = "none" => removalEpoch[s] = 0
    BY Parts, Zenon DEF RowsSound
  <2>3. NextEpoch(s) = removalEpoch[s] + 1 /\ GenerationOf(s) = removalEpoch[s]
        /\ removalEpoch[s] \in Nat
    BY <1>0, <2>1, <2>2, SMTT(30) DEF NextEpoch, GenerationOf
  <2>4. /\ installedEpoch'[s] = removalEpoch[s] + 1
        /\ \A x \in Sets \ {s} : installedEpoch'[x] = installedEpoch[x]
    BY <1>0, <2>1, <2>3
  <2>5. GenerationOf(s)' = GenerationOf(s) + 1 /\ GenerationOf(s) < MaxEpoch
    BY <1>0, <2>1, <2>3, <2>4 DEF GenerationOf, Installed
  <2>6. StatusOf(s) = "absent" /\ StatusOf(s)' = "installed"
    BY <2>1, <2>3, <2>4, SMTT(30) DEF StatusOf, Installed
  <2>7. \A x \in Sets \ {s} : GenerationOf(x)' = GenerationOf(x) /\ StatusOf(x)' = StatusOf(x)
    BY <2>1, <2>4 DEF GenerationOf, StatusOf, Installed
  <2>8. generation' = [generation EXCEPT ![s] = @ + 1]
    BY <2>5, <2>7, Zenon
  <2>9. status' = [status EXCEPT ![s] = "installed"]
    BY <2>6, <2>7, Zenon
  <2> QED
    BY <2>5, <2>6, <2>8, <2>9 DEF Registry!Install
<1>2. ASSUME NEW s \in Sets, NEW e, PrepareSetRemoval(s, e) PROVE Registry!BeginRemoval(s)
  <2>1. /\ Installed(s) /\ installedEpoch[s] = e
        /\ removalEpoch' = [removalEpoch EXCEPT ![s] = e]
        /\ removalPhase' = [removalPhase EXCEPT ![s] = "prepared"]
        /\ installedEpoch' = [installedEpoch EXCEPT ![s] = 0]
    BY <1>2 DEF PrepareSetRemoval, PrepareResult
  <2>2. /\ removalEpoch'[s] = e /\ removalPhase'[s] = "prepared" /\ installedEpoch'[s] = 0
        /\ \A x \in Sets \ {s} : /\ installedEpoch'[x] = installedEpoch[x]
                                 /\ removalEpoch'[x] = removalEpoch[x]
                                 /\ removalPhase'[x] = removalPhase[x]
    BY <1>0, <2>1
  <2>3. GenerationOf(s)' = GenerationOf(s)
    BY <2>1, <2>2 DEF GenerationOf, Installed
  <2>4. StatusOf(s) = "installed" /\ StatusOf(s)' = "removing"
    BY <2>1, <2>2 DEF StatusOf, Installed
  <2>5. \A x \in Sets \ {s} : GenerationOf(x)' = GenerationOf(x) /\ StatusOf(x)' = StatusOf(x)
    BY <2>2, Zenon DEF GenerationOf, StatusOf, Installed
  <2>6. generation' = generation
    BY <2>3, <2>5
  <2>7. status' = [status EXCEPT ![s] = "removing"]
    BY <2>4, <2>5, Zenon
  <2> QED
    BY <2>4, <2>6, <2>7 DEF Registry!BeginRemoval
<1>3. ASSUME NEW s \in Sets, NEW e, CompleteSetRemoval(s, e) PROVE Registry!FinishRemoval(s)
  <2>1. /\ ~Installed(s) /\ removalPhase[s] = "prepared"
        /\ removalPhase' = [removalPhase EXCEPT ![s] = "completed"]
        /\ UNCHANGED <<installedEpoch, removalEpoch>>
    BY <1>3 DEF CompleteSetRemoval
  <2>2. removalPhase'[s] = "completed" /\ \A x \in Sets \ {s} : removalPhase'[x] = removalPhase[x]
    BY <1>0, <2>1
  <2>3. \A x \in Sets : GenerationOf(x)' = GenerationOf(x)
    BY <2>1, Zenon DEF GenerationOf, Installed
  <2>4. StatusOf(s) = "removing" /\ StatusOf(s)' = "absent"
    BY <2>1, <2>2, Zenon DEF StatusOf, Installed
  <2>5. \A x \in Sets \ {s} : StatusOf(x)' = StatusOf(x)
    BY <2>1, <2>2 DEF StatusOf, Installed
  <2>6. generation' = generation
    BY <2>3
  <2>7. status' = [status EXCEPT ![s] = "absent"]
    BY <2>4, <2>5, Zenon
  <2> QED
    BY <2>4, <2>6, <2>7 DEF Registry!FinishRemoval
<1> QED
  BY <1>1, <1>2, <1>3, RowStep, RegistryKept, Zenon DEF Registry!Next

\* The set repository implements the registry: whatever processes do, each set
\* goes through whole turns, with a new generation for each
\* (store/artifact_set.rs:24, store/set_removal.rs:121).
THEOREM SetRegistryRefined == Spec => SetImplementsRegistry
<1>1. Init => Registry!Init
  BY DEF Init, Registry!Init, GenerationOf, StatusOf, Installed
<1>2. SInv /\ [Next]_vars => [Registry!Next]_(Registry!vars)
  BY StepRefines
<1> QED
  BY <1>1, <1>2, SetInvariant, PTL DEF Spec, SetImplementsRegistry, Registry!Spec

-----------------------------------------------------------------------------
(* What the steps of an operation may rely on.                             *)

\* What an operation has found and still finds at its later steps.
Prep(p) ==
    /\ pc[p] \in {"import.probe", "import.stage", "import.seal", "import.publish"} =>
          tree[job[p].set] = {} /\ StorageEntries < MaxStorageEntries
    /\ pc[p] = "import.unprobe" =>
          tree[job[p].set] = {} /\ StorageEntries <= MaxStorageEntries
    /\ pc[p] \in {"remove.open", "remove.verify", "recover.open", "recover.verify"} =>
          job[p].found
    /\ pc[p] \in {"remove.open", "remove.verify", "recover.open", "recover.verify", "prepare"} =>
          job[p].epoch # 0
    /\ pc[p] = "remove.verify" => installedEpoch[job[p].set] = job[p].epoch
    /\ pc[p] = "recover.verify" =>
          removalPhase[job[p].set] = "prepared" /\ removalEpoch[job[p].set] = job[p].epoch
    /\ pc[p] = "prepare" =>
          \/ installedEpoch[job[p].set] = job[p].epoch
          \/ removalPhase[job[p].set] = "prepared" /\ removalEpoch[job[p].set] = job[p].epoch
    /\ pc[p] \in {"prepare", "delete"} => job[p].found \/ tree[job[p].set] = {}
    /\ pc[p] \in {"lease.verify", "lease.confirm"} =>
          installedEpoch[job[p].set] = job[p].epoch

\* An installed generation is not the one that was removed last.
NewGeneration == \A s \in Sets : Installed(s) => removalEpoch[s] # installedEpoch[s]

\* The invariant SInv, strengthened by both.
CInv == SInv /\ NewGeneration /\ \A p \in Procs : Prep(p)

\* Its parts.
LEMMA CParts ==
    ASSUME CInv
    PROVE  SInv /\ NewGeneration /\ \A p \in Procs : Prep(p)
  BY DEF CInv

\* A step that leaves rows and trees alone concerns no one else.
LEMMA QuietPrep ==
    ASSUME CInv, UNCHANGED <<rows, files>>
    PROVE  /\ NewGeneration'
           /\ \A q \in Procs : pc'[q] = pc[q] /\ job'[q] = job[q] => Prep(q)'
<1>1. UNCHANGED <<installedEpoch, removalEpoch, removalPhase, tree, probes>>
  BY DEF rows, files
<1>2. NewGeneration'
  BY <1>1, CParts, Zenon DEF NewGeneration, Installed
<1>3. StorageEntries' = StorageEntries
  BY <1>1, Zenon DEF StorageEntries
<1>4. ASSUME NEW q \in Procs, pc'[q] = pc[q], job'[q] = job[q] PROVE Prep(q)'
  <2>1. Prep(q)
    BY CParts
  <2> QED
    BY <1>1, <1>3, <1>4, <2>1, ZenonT(60) DEF Prep
<1> QED
  BY <1>2, <1>4, Zenon

\* Nothing is needed at the other steps.
LEMMA NothingNeeded ==
    ASSUME NEW p \in Procs,
           pc'[p] \notin {"import.probe", "import.unprobe", "import.stage", "import.seal",
                          "import.publish", "remove.open", "remove.verify", "recover.open",
                          "recover.verify", "prepare", "delete", "lease.verify",
                          "lease.confirm"}
    PROVE  Prep(p)'
  BY Zenon DEF Prep

\* Under the exclusive lock the others need nothing.
LEMMA PrepAlone ==
    ASSUME CInv, NEW p \in Procs, pc[p] \in Exclusive, NewGeneration', Prep(p)',
           \A q \in Procs \ {p} : pc'[q] = pc[q]
    PROVE  NewGeneration' /\ \A q \in Procs : Prep(q)'
<1>1. ASSUME NEW q \in Procs \ {p} PROVE Prep(q)'
  <2>1. pc'[q] = "idle"
    BY CParts, Alone, Zenon
  <2> QED
    BY <2>1, NothingNeeded, Zenon
<1> QED
  BY <1>1, Zenon

\* A step without effect on rows and trees.
LEMMA PrepStep ==
    ASSUME CInv, NEW p \in Procs, UNCHANGED <<rows, files>>, Prep(p)',
           \A q \in Procs \ {p} : pc'[q] = pc[q] /\ job'[q] = job[q]
    PROVE  NewGeneration' /\ \A q \in Procs : Prep(q)'
  BY QuietPrep, Zenon

\* A step of one process, as the others see it.
LEMMA OwnStep ==
    ASSUME CInv, NEW p \in Procs
    PROVE  /\ \A step : Goto(p, step) =>
                 /\ pc'[p] = step /\ job'[p] = job[p]
                 /\ \A q \in Procs \ {p} : pc'[q] = pc[q] /\ job'[q] = job[q]
           /\ Stop(p) =>
                 /\ pc'[p] = "idle"
                 /\ \A q \in Procs \ {p} : pc'[q] = pc[q] /\ job'[q] = job[q]
  BY CParts, OneMoves, Zenon

\* Returning with rows and trees untouched, or in the end of an import that
\* keeps or loses its staging root.
LEMMA StopPrep ==
    ASSUME CInv, NEW p \in Procs, Stop(p), UNCHANGED <<rows, tree, disk, probes>>
    PROVE  NewGeneration' /\ \A q \in Procs : Prep(q)'
<1>1. UNCHANGED <<installedEpoch, removalEpoch, removalPhase, tree, probes>>
  BY DEF rows
<1>2. NewGeneration'
  BY <1>1, CParts, Zenon DEF NewGeneration, Installed
<1>3. StorageEntries' = StorageEntries
  BY <1>1, Zenon DEF StorageEntries
<1>4. /\ pc'[p] = "idle"
      /\ \A q \in Procs \ {p} : pc'[q] = pc[q] /\ job'[q] = job[q]
  BY OwnStep, Zenon
<1>5. ASSUME NEW q \in Procs \ {p} PROVE Prep(q)'
  <2>1. Prep(q) /\ pc'[q] = pc[q] /\ job'[q] = job[q]
    BY <1>4, CParts
  <2> QED
    BY <1>1, <1>3, <2>1, ZenonT(60) DEF Prep
<1>6. Prep(p)'
  BY <1>4, NothingNeeded, Zenon
<1> QED
  BY <1>2, <1>5, <1>6, Zenon

\* Operations begin with keys of generations that existed.
LEMMA BeginPrep ==
    ASSUME CInv, NEW p \in Procs, BeginStep(p)
    PROVE  NewGeneration' /\ \A q \in Procs : Prep(q)'
<1>1. PICK s \in Sets :
        \/ ImportBegin(p, s) \/ ReconcileBegin(p, s) \/ LeaseBegin(p, s)
        \/ \E e \in KnownEpochs(s) : RemoveBegin(p, s, e) \/ RecoverBegin(p, s, e)
  BY Zenon DEF BeginStep
<1>2. UNCHANGED <<rows, files>>
  BY <1>1, Zenon DEF ImportBegin, ReconcileBegin, LeaseBegin, RemoveBegin, RecoverBegin, Begin
<1>3. pc \in [Procs -> Steps] /\ job \in [Procs -> Jobs \cup {NoJob}]
  BY CParts, Parts, Zenon DEF ProcTypes
<1>4. CASE ImportBegin(p, s) \/ ReconcileBegin(p, s)
  <2>1. /\ pc'[p] \in {"import.inspect", "verify"}
        /\ \A q \in Procs \ {p} : pc'[q] = pc[q] /\ job'[q] = job[q]
    BY <1>3, <1>4, Zenon DEF ImportBegin, ReconcileBegin, Begin
  <2> QED
    BY <1>2, <2>1, NothingNeeded, PrepStep, Zenon
<1>5. ASSUME NEW e \in KnownEpochs(s), RemoveBegin(p, s, e) \/ RecoverBegin(p, s, e)
      PROVE  NewGeneration' /\ \A q \in Procs : Prep(q)'
  <2> DEFINE j == [set |-> s, epoch |-> e, found |-> TRUE, sealed |-> FALSE]
  <2>1. j.epoch = e /\ j.found
    OBVIOUS
  <2>2. /\ pc' = [pc EXCEPT ![p] = "remove.open"] \/ pc' = [pc EXCEPT ![p] = "recover.open"]
        /\ job' = [job EXCEPT ![p] = j]
    BY <1>5, Zenon DEF RemoveBegin, RecoverBegin, Begin
  <2> HIDE DEF j
  <2>3. /\ pc'[p] \in {"remove.open", "recover.open"} /\ job'[p] = j
        /\ \A q \in Procs \ {p} : pc'[q] = pc[q] /\ job'[q] = job[q]
    BY <1>3, <2>2, Zenon
  <2>4. e # 0
    <3>1. GenerationOf(s) \in Nat
      BY CParts, Parts, SetConstants DEF GenerationOf, RowTypes
    <3> QED
      BY <3>1 DEF KnownEpochs
  <2>5. Prep(p)'
    BY <2>1, <2>3, <2>4, Zenon DEF Prep
  <2> QED
    BY <1>2, <2>3, <2>5, PrepStep, Zenon
<1>6. CASE LeaseBegin(p, s)
  <2> DEFINE j == [set |-> s, epoch |-> installedEpoch[s], found |-> TRUE, sealed |-> FALSE]
  <2>1. j.epoch = installedEpoch[s] /\ j.set = s
    OBVIOUS
  <2>2. pc' = [pc EXCEPT ![p] = "lease.verify"] /\ job' = [job EXCEPT ![p] = j]
    BY <1>6, Zenon DEF LeaseBegin
  <2> HIDE DEF j
  <2>3. /\ pc'[p] = "lease.verify" /\ job'[p] = j
        /\ \A q \in Procs \ {p} : pc'[q] = pc[q] /\ job'[q] = job[q]
    BY <1>3, <2>2, Zenon
  <2>4. installedEpoch' = installedEpoch
    BY <1>2 DEF rows
  <2>5. Prep(p)'
    BY <2>1, <2>3, <2>4, Zenon DEF Prep
  <2> QED
    BY <1>2, <2>3, <2>5, PrepStep, Zenon
<1> QED
  BY <1>1, <1>4, <1>5, <1>6, Zenon

\* The entries of sets/ are its roots and the probes.
LEMMA Entries ==
    ASSUME CInv
    PROVE  /\ StorageEntries \in Nat /\ MaxStorageEntries \in Nat
           /\ tree' = tree /\ probes' = probes + 1 => StorageEntries' = StorageEntries + 1
           /\ tree' = tree /\ probes' = probes - 1 => StorageEntries' = StorageEntries - 1
           /\ tree' = tree /\ probes' = probes => StorageEntries' = StorageEntries
<1> DEFINE roots == Cardinality({x \in Sets : tree[x] # {}})
<1>1. roots \in Nat
  BY SetConstants, FS_Subset, FS_CardinalityType, Zenon
<1>2. probes \in Nat /\ MaxStorageEntries \in Nat
  BY SetConstants, CParts, Parts DEF FileTypes
<1>3. StorageEntries = roots + probes
  BY DEF StorageEntries
<1>4. tree' = tree => StorageEntries' = roots + probes'
  BY Zenon DEF StorageEntries
<1> HIDE DEF roots
<1> QED
  BY <1>1, <1>2, <1>3, <1>4

\* The name that lookup finds free has no root, and sets/ has room.
LEMMA Free ==
    ASSUME CInv, NEW s \in Sets
    PROVE  Lookup(s) = "Available" <=> tree[s] = {} /\ StorageEntries < MaxStorageEntries
<1>1. StorageEntries \in Nat /\ MaxStorageEntries \in Nat
  BY Entries
<1>2. CASE tree[s] = {}
  BY <1>1, <1>2 DEF Lookup
<1>3. CASE tree[s] # {}
  BY <1>1, <1>3 DEF Lookup
<1> QED
  BY <1>2, <1>3

\* Import probes, stages and publishes where it found room.
LEMMA ImportPrep ==
    ASSUME CInv, NEW p \in Procs,
           ImportInspect(p) \/ ImportProbe(p) \/ ImportUnprobe(p) \/ ImportStage(p)
    PROVE  NewGeneration' /\ \A q \in Procs : Prep(q)'
<1>1. pc[p] \in Exclusive
  BY Zenon DEF ImportInspect, ImportProbe, ImportUnprobe, ImportStage, Exclusive, Sharing, Steps
<1>2. job[p].set \in Sets
  BY <1>1, CParts, Alone DEF Jobs
<1>3. tree' = tree /\ UNCHANGED rows
  BY Zenon DEF ImportInspect, ImportProbe, ImportUnprobe, ImportStage
<1>4. NewGeneration'
  BY <1>3, CParts, Zenon DEF rows, NewGeneration, Installed
<1>5. StorageEntries \in Nat /\ MaxStorageEntries \in Nat
  BY Entries
<1>6. Prep(p)
  BY CParts
<1>7. ASSUME NEW step, Goto(p, step), Prep(p)' PROVE NewGeneration' /\ \A q \in Procs : Prep(q)'
  <2>1. \A q \in Procs \ {p} : pc'[q] = pc[q]
    BY <1>7, OwnStep, Zenon
  <2> QED
    BY <1>1, <1>4, <1>7, <2>1, PrepAlone, Zenon
<1>8. CASE ImportInspect(p)
  <2>1. UNCHANGED <<rows, tree, disk, probes>>
    BY <1>8, Zenon DEF ImportInspect
  <2>2. CASE Return(p)
    <3>1. Stop(p)
      BY <2>2 DEF Return
    <3> QED
      BY <2>1, <3>1, StopPrep, Zenon
  <2>3. CASE Goto(p, "verify")
    <3>1. pc'[p] = "verify"
      BY <2>3, OwnStep, Zenon
    <3>2. Prep(p)'
      BY <3>1, NothingNeeded, Zenon
    <3> QED
      BY <1>7, <2>3, <3>2, Zenon
  <2>4. CASE Lookup(job[p].set) = "Available" /\ Goto(p, "import.probe")
    <3>1. pc'[p] = "import.probe" /\ job'[p] = job[p]
      BY <2>4, OwnStep, Zenon
    <3>2. tree[job[p].set] = {} /\ StorageEntries < MaxStorageEntries
      BY <1>2, <2>4, Free, Zenon
    <3>3. StorageEntries' = StorageEntries
      BY <2>1, Entries, Zenon
    <3>4. Prep(p)'
      BY <1>3, <3>1, <3>2, <3>3, Zenon DEF Prep
    <3> QED
      BY <1>7, <2>4, <3>4, Zenon
  <2> QED
    BY <1>8, <2>2, <2>3, <2>4, Zenon DEF ImportInspect
<1>9. CASE ImportProbe(p)
  <2>1. pc[p] = "import.probe" /\ probes' = probes + 1 /\ Goto(p, "import.unprobe")
    BY <1>9, Zenon DEF ImportProbe
  <2>2. tree[job[p].set] = {} /\ StorageEntries < MaxStorageEntries
    BY <1>6, <2>1, Zenon DEF Prep
  <2>3. StorageEntries' = StorageEntries + 1
    BY <1>3, <2>1, Entries, Zenon
  <2>4. StorageEntries' <= MaxStorageEntries
    BY <1>5, <2>2, <2>3
  <2>5. pc'[p] = "import.unprobe" /\ job'[p] = job[p]
    BY <2>1, OwnStep, Zenon
  <2>6. Prep(p)'
    BY <1>3, <2>2, <2>4, <2>5, Zenon DEF Prep
  <2> QED
    BY <1>7, <2>1, <2>6, Zenon
<1>10. CASE ImportUnprobe(p)
  <2>1. pc[p] = "import.unprobe" /\ probes' = probes - 1 /\ Goto(p, "import.stage")
    BY <1>10, Zenon DEF ImportUnprobe
  <2>2. tree[job[p].set] = {} /\ StorageEntries <= MaxStorageEntries
    BY <1>6, <2>1, Zenon DEF Prep
  <2>3. StorageEntries' = StorageEntries - 1
    BY <1>3, <2>1, Entries, Zenon
  <2>4. StorageEntries' < MaxStorageEntries
    BY <1>5, <2>2, <2>3
  <2>5. pc'[p] = "import.stage" /\ job'[p] = job[p]
    BY <2>1, OwnStep, Zenon
  <2>6. Prep(p)'
    BY <1>3, <2>2, <2>4, <2>5, Zenon DEF Prep
  <2> QED
    BY <1>7, <2>1, <2>6, Zenon
<1>11. CASE ImportStage(p)
  <2>1. pc[p] = "import.stage" /\ probes' = probes /\ Goto(p, "import.seal")
    BY <1>11, Zenon DEF ImportStage
  <2>2. tree[job[p].set] = {} /\ StorageEntries < MaxStorageEntries
    BY <1>6, <2>1, Zenon DEF Prep
  <2>3. StorageEntries' = StorageEntries
    BY <1>3, <2>1, Entries, Zenon
  <2>4. pc'[p] = "import.seal" /\ job'[p] = job[p]
    BY <2>1, OwnStep, Zenon
  <2>5. Prep(p)'
    BY <1>3, <2>2, <2>3, <2>4, Zenon DEF Prep
  <2> QED
    BY <1>7, <2>1, <2>5, Zenon
<1> QED
  BY <1>8, <1>9, <1>10, <1>11, Zenon

\* A sealed tree still has its free name.
LEMMA SealPrep ==
    ASSUME CInv, NEW p \in Procs, ImportSeal(p)
    PROVE  NewGeneration' /\ \A q \in Procs : Prep(q)'
<1>1. /\ pc[p] = "import.seal" /\ pc' = [pc EXCEPT ![p] = "import.publish"]
      /\ job' = [job EXCEPT ![p].sealed = TRUE] /\ UNCHANGED <<rows, files>>
  BY DEF ImportSeal
<1>2. pc[p] \in Exclusive
  BY <1>1 DEF Exclusive, Sharing, Steps
<1>3. pc \in [Procs -> Steps] /\ job \in [Procs -> Jobs \cup {NoJob}] /\ job[p] \in Jobs
  BY <1>2, CParts, Parts, Alone, Zenon DEF ProcTypes
<1>4. job'[p] = [job[p] EXCEPT !.sealed = TRUE]
  BY <1>1, <1>3
<1>5. job'[p].set = job[p].set
  BY <1>3, <1>4 DEF Jobs
<1>6. pc'[p] = "import.publish" /\ \A q \in Procs \ {p} : pc'[q] = pc[q] /\ job'[q] = job[q]
  BY <1>1, <1>3, Zenon
<1>7. tree' = tree /\ probes' = probes
  BY <1>1 DEF files
<1>8. tree[job[p].set] = {} /\ StorageEntries < MaxStorageEntries
  BY <1>1, CParts, Zenon DEF Prep
<1>9. StorageEntries' = StorageEntries
  BY <1>7, Entries, Zenon
<1>10. Prep(p)'
  BY <1>5, <1>6, <1>7, <1>8, <1>9, Zenon DEF Prep
<1> QED
  BY <1>1, <1>6, <1>10, PrepStep, Zenon

\* Publishing and synchronising need no more room.
LEMMA PublishPrep ==
    ASSUME CInv, NEW p \in Procs,
           ImportPublish(p) \/ ImportSyncStaging(p) \/ ImportSyncSets(p) \/ DeleteSync(p)
    PROVE  NewGeneration' /\ \A q \in Procs : Prep(q)'
<1>1. pc[p] \in Exclusive /\ UNCHANGED rows
  BY Zenon DEF ImportPublish, ImportSyncStaging, ImportSyncSets, DeleteSync, Exclusive, Sharing, Steps
<1>2. PICK step \in {"import.syncStaging", "import.syncSets", "verify", "complete"} : Goto(p, step)
  BY Zenon DEF ImportPublish, ImportSyncStaging, ImportSyncSets, DeleteSync
<1>3. pc'[p] = step /\ \A q \in Procs \ {p} : pc'[q] = pc[q]
  BY <1>2, OwnStep, Zenon
<1>4. Prep(p)'
  BY <1>2, <1>3, NothingNeeded, Zenon
<1>5. NewGeneration'
  BY <1>1, CParts, Zenon DEF rows, NewGeneration, Installed
<1> QED
  BY <1>1, <1>3, <1>4, <1>5, PrepAlone, Zenon

\* Steps that only read go on with what they read, or return.
LEMMA ReadPrep ==
    ASSUME CInv, NEW p \in Procs,
           \/ Verify(p) \/ RemoveOpen(p) \/ RemoveVerify(p) \/ RecoverOpen(p) \/ LeaseStep(p)
    PROVE  NewGeneration' /\ \A q \in Procs : Prep(q)'
<1>1. UNCHANGED <<rows, files>>
  BY Zenon DEF Verify, RemoveOpen, RemoveVerify, RecoverOpen, LeaseStep, LeaseVerify, LeaseConfirm,
     LeaseRelease
<1>2. UNCHANGED <<installedEpoch, removalEpoch, removalPhase, tree>>
  BY <1>1 DEF rows, files
<1>3. Prep(p)
  BY CParts
<1>4. CASE Return(p)
  <2>1. Stop(p) /\ UNCHANGED <<rows, tree, disk, probes>>
    BY <1>1, <1>4 DEF Return, files
  <2> QED
    BY <2>1, StopPrep, Zenon
<1>5. ASSUME NEW step, Goto(p, step), Prep(p)' PROVE NewGeneration' /\ \A q \in Procs : Prep(q)'
  <2>1. \A q \in Procs \ {p} : pc'[q] = pc[q] /\ job'[q] = job[q]
    BY <1>5, OwnStep, Zenon
  <2> QED
    BY <1>1, <1>5, <2>1, PrepStep, Zenon
<1>6. CASE Verify(p) /\ Goto(p, "register")
  <2>1. pc'[p] = "register"
    BY <1>6, OwnStep, Zenon
  <2> QED
    BY <1>5, <1>6, <2>1, NothingNeeded, Zenon
<1>7. CASE RemoveOpen(p) /\ ~Return(p)
  <2>1. /\ pc[p] = "remove.open" /\ installedEpoch[job[p].set] = job[p].epoch
        /\ Goto(p, "remove.verify")
    BY <1>7, Zenon DEF RemoveOpen
  <2>2. pc'[p] = "remove.verify" /\ job'[p] = job[p]
    BY <2>1, OwnStep, Zenon
  <2>3. job[p].found /\ job[p].epoch # 0
    BY <1>3, <2>1, Zenon DEF Prep
  <2>4. Prep(p)'
    BY <1>2, <2>1, <2>2, <2>3, Zenon DEF Prep
  <2> QED
    BY <1>5, <2>1, <2>4, Zenon
<1>8. CASE RemoveVerify(p) /\ ~Return(p)
  <2>1. pc[p] = "remove.verify" /\ Goto(p, "prepare")
    BY <1>8, Zenon DEF RemoveVerify
  <2>2. pc'[p] = "prepare" /\ job'[p] = job[p]
    BY <2>1, OwnStep, Zenon
  <2>3. job[p].found /\ job[p].epoch # 0 /\ installedEpoch[job[p].set] = job[p].epoch
    BY <1>3, <2>1, Zenon DEF Prep
  <2>4. Prep(p)'
    BY <1>2, <2>2, <2>3, Zenon DEF Prep
  <2> QED
    BY <1>5, <2>1, <2>4, Zenon
<1>9. CASE RecoverOpen(p) /\ ~Return(p)
  <2>1. /\ pc[p] = "recover.open" /\ Goto(p, "recover.verify")
        /\ removalPhase[job[p].set] = "prepared" /\ removalEpoch[job[p].set] = job[p].epoch
    BY <1>9, Zenon DEF RecoverOpen
  <2>2. pc'[p] = "recover.verify" /\ job'[p] = job[p]
    BY <2>1, OwnStep, Zenon
  <2>3. job[p].found /\ job[p].epoch # 0
    BY <1>3, <2>1, Zenon DEF Prep
  <2>4. Prep(p)'
    BY <1>2, <2>1, <2>2, <2>3, Zenon DEF Prep
  <2> QED
    BY <1>5, <2>1, <2>4, Zenon
<1>10. CASE LeaseVerify(p) /\ ~Return(p)
  <2>1. pc[p] = "lease.verify" /\ Goto(p, "lease.confirm")
    BY <1>10, Zenon DEF LeaseVerify
  <2>2. pc'[p] = "lease.confirm" /\ job'[p] = job[p]
    BY <2>1, OwnStep, Zenon
  <2>3. installedEpoch[job[p].set] = job[p].epoch
    BY <1>3, <2>1, Zenon DEF Prep
  <2>4. Prep(p)'
    BY <1>2, <2>2, <2>3, Zenon DEF Prep
  <2> QED
    BY <1>5, <2>1, <2>4, Zenon
<1>11. CASE LeaseConfirm(p) /\ ~Return(p)
  <2>1. Goto(p, "leased")
    BY <1>11, Zenon DEF LeaseConfirm
  <2>2. pc'[p] = "leased"
    BY <2>1, OwnStep, Zenon
  <2> QED
    BY <1>5, <2>1, <2>2, NothingNeeded, Zenon
<1> QED
  BY <1>4, <1>6, <1>7, <1>8, <1>9, <1>10, <1>11, Zenon DEF Verify, LeaseStep, LeaseRelease

\* A recovery goes on with the exact tree, or with none.
LEMMA RecoverPrep ==
    ASSUME CInv, NEW p \in Procs, RecoverVerify(p)
    PROVE  NewGeneration' /\ \A q \in Procs : Prep(q)'
<1>1. pc[p] = "recover.verify" /\ UNCHANGED <<rows, files>>
  BY Zenon DEF RecoverVerify
<1>2. UNCHANGED <<installedEpoch, removalEpoch, removalPhase, tree>>
  BY <1>1 DEF rows, files
<1>3. /\ job[p].found /\ job[p].epoch # 0
      /\ removalPhase[job[p].set] = "prepared" /\ removalEpoch[job[p].set] = job[p].epoch
  BY <1>1, CParts, Zenon DEF Prep
<1>4. pc[p] \in Exclusive
  BY <1>1 DEF Exclusive, Sharing, Steps
<1>5. pc \in [Procs -> Steps] /\ job \in [Procs -> Jobs \cup {NoJob}] /\ job[p] \in Jobs
  BY <1>4, CParts, Parts, Alone, Zenon DEF ProcTypes
<1>6. CASE Return(p)
  <2>1. Stop(p) /\ UNCHANGED <<rows, tree, disk, probes>>
    BY <1>1, <1>6 DEF Return, files
  <2> QED
    BY <2>1, StopPrep, Zenon
<1>7. CASE Goto(p, "prepare")
  <2>1. /\ pc'[p] = "prepare" /\ job'[p] = job[p]
        /\ \A q \in Procs \ {p} : pc'[q] = pc[q] /\ job'[q] = job[q]
    BY <1>7, OwnStep, Zenon
  <2>2. Prep(p)'
    BY <1>2, <1>3, <2>1, Zenon DEF Prep
  <2> QED
    BY <1>1, <2>1, <2>2, PrepStep, Zenon
<1>8. CASE /\ Lookup(job[p].set) = "Available"
           /\ pc' = [pc EXCEPT ![p] = "prepare"]
           /\ job' = [job EXCEPT ![p].found = FALSE]
  <2>1. job[p].set \in Sets
    BY <1>5 DEF Jobs
  <2>2. tree[job[p].set] = {}
    BY <1>8, <2>1, Free, Zenon
  <2>3. job'[p] = [job[p] EXCEPT !.found = FALSE]
    BY <1>5, <1>8
  <2>4. job'[p].set = job[p].set /\ job'[p].epoch = job[p].epoch
    BY <1>5, <2>3 DEF Jobs
  <2>5. pc'[p] = "prepare" /\ \A q \in Procs \ {p} : pc'[q] = pc[q] /\ job'[q] = job[q]
    BY <1>5, <1>8, Zenon
  <2>6. Prep(p)'
    BY <1>2, <1>3, <2>2, <2>4, <2>5, Zenon DEF Prep
  <2> QED
    BY <1>1, <2>5, <2>6, PrepStep, Zenon
<1> QED
  BY <1>6, <1>7, <1>8, Zenon DEF RecoverVerify

\* A new installation takes a generation after the removed one.
LEMMA RegisterPrep ==
    ASSUME CInv, NEW p \in Procs, Register(p)
    PROVE  NewGeneration' /\ \A q \in Procs : Prep(q)'
<1>1. pc[p] = "register" /\ Stop(p)
  BY DEF Register, Return
<1>2. pc[p] \in Exclusive
  BY <1>1 DEF Exclusive, Sharing, Steps
<1>3. pc'[p] = "idle" /\ \A q \in Procs \ {p} : pc'[q] = pc[q]
  BY <1>1, OwnStep, Zenon
<1>4. Prep(p)'
  BY <1>3, NothingNeeded, Zenon
<1>5. CASE UNCHANGED rows
  <2>1. NewGeneration'
    BY <1>5, CParts, Zenon DEF rows, NewGeneration, Installed
  <2> QED
    BY <1>2, <1>3, <1>4, <2>1, PrepAlone, Zenon
<1>6. CASE PutSetInstallation(job[p].set)
  <2> DEFINE s == job[p].set
  <2>1. s \in Sets
    BY <1>2, CParts, Alone DEF Jobs
  <2>2. /\ installedEpoch' = [installedEpoch EXCEPT ![s] = NextEpoch(s)]
        /\ UNCHANGED <<removalEpoch, removalPhase>>
    BY <1>6 DEF PutSetInstallation
  <2>3. /\ installedEpoch \in [Sets -> 0..MaxEpoch] /\ removalEpoch[s] \in Nat
        /\ removalPhase[s] = "none" => removalEpoch[s] = 0
    BY <2>1, CParts, Parts, SetConstants DEF RowTypes, RowsSound
  <2>4. NextEpoch(s) # removalEpoch[s]
    <3>1. (NextEpoch(s) = 1 /\ removalEpoch[s] = 0) \/ NextEpoch(s) = removalEpoch[s] + 1
      BY <2>3, Zenon DEF NextEpoch
    <3> HIDE DEF s
    <3>2. removalEpoch[s] + 1 # removalEpoch[s] /\ 1 # 0
      BY <2>3
    <3> QED
      BY <3>1, <3>2, Zenon
  <2> HIDE DEF s
  <2>5. installedEpoch'[s] = NextEpoch(s) /\ \A x \in Sets \ {s} : installedEpoch'[x] = installedEpoch[x]
    BY <2>1, <2>2, <2>3, Zenon
  <2>6. NewGeneration'
    BY <2>2, <2>4, <2>5, CParts, Zenon DEF NewGeneration, Installed
  <2> QED
    BY <1>2, <1>3, <1>4, <2>6, PrepAlone, Zenon
<1> QED
  BY <1>5, <1>6, Zenon DEF Register

\* A removal is prepared by its own generation and deletes what it found.
LEMMA PreparePrep ==
    ASSUME CInv, NEW p \in Procs, Prepare(p)
    PROVE  NewGeneration' /\ \A q \in Procs : Prep(q)'
<1> DEFINE s == job[p].set
           e == job[p].epoch
<1>1. pc[p] = "prepare" /\ Goto(p, "delete") /\ UNCHANGED files
  BY Zenon DEF Prepare
<1>2. pc[p] \in Exclusive
  BY <1>1 DEF Exclusive, Sharing, Steps
<1>3. /\ pc'[p] = "delete" /\ job'[p] = job[p]
      /\ \A q \in Procs \ {p} : pc'[q] = pc[q] /\ job'[q] = job[q]
  BY <1>1, OwnStep, Zenon
<1>4. job[p].found \/ tree[s] = {}
  BY <1>1, CParts, Zenon DEF Prep
<1>5. tree' = tree
  BY <1>1 DEF files
<1>6. Prep(p)'
  BY <1>3, <1>4, <1>5, Zenon DEF Prep
<1>7. s \in Sets
  BY <1>2, CParts, Alone DEF Jobs
<1>8. NewGeneration'
  <2>1. CASE UNCHANGED rows
    BY <2>1, CParts, Zenon DEF rows, NewGeneration, Installed
  <2>2. CASE PrepareSetRemoval(s, e)
    <3>1. /\ removalEpoch' = [removalEpoch EXCEPT ![s] = e]
          /\ installedEpoch' = [installedEpoch EXCEPT ![s] = 0]
      BY <2>2 DEF PrepareSetRemoval
    <3>2. installedEpoch \in [Sets -> 0..MaxEpoch] /\ removalEpoch \in [Sets -> 0..MaxEpoch]
      BY CParts, Parts DEF RowTypes
    <3> HIDE DEF s, e
    <3>3. /\ installedEpoch'[s] = 0
          /\ \A x \in Sets \ {s} : installedEpoch'[x] = installedEpoch[x]
                                   /\ removalEpoch'[x] = removalEpoch[x]
      BY <1>7, <3>1, <3>2, Zenon
    <3> QED
      BY <3>3, CParts, Zenon DEF NewGeneration, Installed
  <2> QED
    BY <2>1, <2>2, Zenon DEF Prepare
<1> QED
  BY <1>2, <1>3, <1>6, <1>8, PrepAlone, Zenon

\* Deletion goes on with what it found.
LEMMA DeletePrep ==
    ASSUME CInv, NEW p \in Procs, Delete(p)
    PROVE  NewGeneration' /\ \A q \in Procs : Prep(q)'
<1>1. pc[p] = "delete" /\ UNCHANGED <<rows, job>>
  BY Zenon DEF Delete
<1>2. pc[p] \in Exclusive
  BY <1>1 DEF Exclusive, Sharing, Steps
<1>3. NewGeneration'
  BY <1>1, CParts, Zenon DEF rows, NewGeneration, Installed
<1>4. CASE job[p].found /\ UNCHANGED pc
  <2>1. pc'[p] = "delete" /\ job'[p].found
    BY <1>1, <1>4, Zenon
  <2>2. Prep(p)'
    BY <2>1, Zenon DEF Prep
  <2> QED
    BY <1>2, <1>3, <1>4, <2>2, PrepAlone, Zenon
<1>5. CASE pc' = [pc EXCEPT ![p] = "delete.sync"]
  <2>1. pc \in [Procs -> Steps]
    BY CParts, Parts, Zenon DEF ProcTypes
  <2>2. pc'[p] = "delete.sync" /\ \A q \in Procs \ {p} : pc'[q] = pc[q]
    BY <1>5, <2>1, Zenon
  <2>3. Prep(p)'
    BY <2>2, NothingNeeded, Zenon
  <2> QED
    BY <1>2, <1>3, <2>2, <2>3, PrepAlone, Zenon
<1> QED
  BY <1>4, <1>5, Zenon DEF Delete

\* Completion keeps the generations.
LEMMA CompletePrep ==
    ASSUME CInv, NEW p \in Procs, Complete(p)
    PROVE  NewGeneration' /\ \A q \in Procs : Prep(q)'
<1>1. pc[p] = "complete" /\ Stop(p) /\ UNCHANGED <<installedEpoch, removalEpoch>>
  BY Zenon DEF Complete, Return, CompleteSetRemoval
<1>2. pc[p] \in Exclusive
  BY <1>1 DEF Exclusive, Sharing, Steps
<1>3. pc'[p] = "idle" /\ \A q \in Procs \ {p} : pc'[q] = pc[q]
  BY <1>1, OwnStep, Zenon
<1>4. Prep(p)'
  BY <1>3, NothingNeeded, Zenon
<1>5. NewGeneration'
  BY <1>1, CParts, Zenon DEF NewGeneration, Installed
<1> QED
  BY <1>2, <1>3, <1>4, <1>5, PrepAlone, Zenon

\* No operation survives a power loss.
LEMMA PowerLossPrep ==
    ASSUME CInv, PowerLoss
    PROVE  NewGeneration' /\ \A q \in Procs : Prep(q)'
<1>1. UNCHANGED rows /\ pc' = [q \in Procs |-> "idle"]
  BY Zenon DEF PowerLoss
<1>2. NewGeneration'
  BY <1>1, CParts, Zenon DEF rows, NewGeneration, Installed
<1>3. ASSUME NEW q \in Procs PROVE Prep(q)'
  <2>1. pc'[q] = "idle"
    BY <1>1, Zenon
  <2> QED
    BY <2>1, NothingNeeded, Zenon
<1> QED
  BY <1>2, <1>3, Zenon

\* It holds at the start.
LEMMA InitCInv == Init => CInv
<1> SUFFICES ASSUME Init PROVE CInv
  OBVIOUS
<1>1. SInv
  BY InitSInv
<1>2. NewGeneration
  BY DEF Init, NewGeneration, Installed
<1>3. \A p \in Procs : Prep(p)
  <2> SUFFICES ASSUME NEW p \in Procs PROVE Prep(p)
    OBVIOUS
  <2>1. pc[p] = "idle"
    BY Zenon DEF Init
  <2> QED
    BY <2>1, Zenon DEF Prep
<1> QED
  BY <1>1, <1>2, <1>3, Zenon DEF CInv

\* Every step keeps it.
LEMMA NextCInv == CInv /\ [Next]_vars => CInv'
<1> SUFFICES ASSUME CInv, [Next]_vars PROVE CInv'
  OBVIOUS
<1>1. SInv'
  BY CParts, NextSInv, Zenon
<1> SUFFICES NewGeneration' /\ \A q \in Procs : Prep(q)'
  BY <1>1, Zenon DEF CInv
<1>2. ASSUME NEW p \in Procs, ImportStep(p) PROVE NewGeneration' /\ \A q \in Procs : Prep(q)'
  BY <1>2, ImportPrep, SealPrep, PublishPrep, ReadPrep, RegisterPrep, Zenon DEF ImportStep
<1>3. ASSUME NEW p \in Procs, RemovalStep(p) PROVE NewGeneration' /\ \A q \in Procs : Prep(q)'
  BY <1>3, ReadPrep, RecoverPrep, PreparePrep, DeletePrep, PublishPrep, CompletePrep, Zenon
     DEF RemovalStep
<1>4. ASSUME NEW p \in Procs, Fail(p) \/ Kill(p) PROVE NewGeneration' /\ \A q \in Procs : Prep(q)'
  <2>1. Stop(p) /\ UNCHANGED <<rows, tree, disk, probes>>
    BY <1>4 DEF Fail, Kill, files
  <2> QED
    BY <2>1, StopPrep, Zenon
<1>5. CASE UNCHANGED vars
  <2>1. UNCHANGED <<rows, files, pc, job>>
    BY <1>5 DEF vars, procs
  <2> QED
    BY <2>1, QuietPrep, Zenon
<1> QED
  BY <1>2, <1>3, <1>4, <1>5, BeginPrep, ReadPrep, PowerLossPrep, Zenon DEF Next, Continue

\* What an operation of the set repository found when it began still holds at
\* its later steps, whatever the other processes do, and no installation has the
\* generation of the removal before it (artifact_set_removal.rs:276,
\* store/artifact_set.rs:24).
THEOREM CheckInvariant == Spec => []CInv
  BY InitCInv, NextCInv, PTL DEF Spec

-----------------------------------------------------------------------------
\* What an operation checked at its start still holds where the code checks it
\* again or relies on it: publish_no_replace finds the name free
\* (ImportPublish), prepare_artifact_set_removal answers Prepared or
\* AlreadyPrepared (Prepare), a removal without a tree has nothing to delete
\* (Delete), complete_artifact_set_removal finds its own prepared journal row
\* (Complete), and the generation a lease selected is still installed when it is
\* confirmed (LeaseConfirm).
SetChecksHold ==
    \A p \in Procs :
        LET s == job[p].set
            e == job[p].epoch
        IN
        /\ pc[p] = "import.publish" => Lookup(s) = "Available"
        /\ pc[p] = "prepare" => PrepareResult(s, e) \in {"Prepared", "AlreadyPrepared"}
        /\ pc[p] = "delete" => job[p].found \/ tree[s] = {}
        /\ pc[p] = "complete" => ~Installed(s) /\ removalPhase[s] = "prepared" /\ removalEpoch[s] = e
        /\ pc[p] = "lease.confirm" => installedEpoch[s] = e

\* A removal is recorded as completed only when no power loss can bring any
\* entry of its tree back.
SetCompletionMeansGone ==
    [][\A s \in Sets :
          removalPhase[s] = "prepared" /\ removalPhase'[s] = "completed" =>
              tree[s] = {} /\ disk[s] = {{}}]_vars

\* Except in a power loss, entries leave a tree only by the deletion of the
\* prepared removal that names the generation.
SetDeletesJournalled ==
    [][\A s \in Sets :
          losses' = losses /\ ~(tree[s] \subseteq tree'[s]) =>
              /\ removalPhase[s] = "prepared"
              /\ \E p \in Procs : /\ pc[p] = "delete" /\ job[p].set = s
                                  /\ job[p].epoch = removalEpoch[s]]_vars

\* The later checks of an import, a removal, a recovery or a lease never fail for
\* what another process did, since all of them run under the two locks
\* (publication.rs:35, artifact_set_removal.rs:276, runtime_artifact_set_lease.rs:31).
THEOREM SetChecksHoldTheorem == Spec => []SetChecksHold
<1>1. CInv => SetChecksHold
  <2> SUFFICES ASSUME CInv, NEW p \in Procs
               PROVE  LET s == job[p].set
                          e == job[p].epoch
                      IN /\ pc[p] = "import.publish" => Lookup(s) = "Available"
                         /\ pc[p] = "prepare" =>
                               PrepareResult(s, e) \in {"Prepared", "AlreadyPrepared"}
                         /\ pc[p] = "delete" => job[p].found \/ tree[s] = {}
                         /\ pc[p] = "complete" =>
                               ~Installed(s) /\ removalPhase[s] = "prepared" /\ removalEpoch[s] = e
                         /\ pc[p] = "lease.confirm" => installedEpoch[s] = e
    BY Zenon DEF SetChecksHold
  <2> DEFINE s == job[p].set
             e == job[p].epoch
  <2>1. Prep(p) /\ Work(p) /\ NewGeneration /\ RowsSound
    BY CParts, Parts, Zenon
  <2>2. ASSUME pc[p] \in Exclusive PROVE s \in Sets
    BY <2>2, CParts, Alone DEF Jobs
  <2>3. ASSUME pc[p] = "import.publish" PROVE Lookup(s) = "Available"
    <3>1. s \in Sets
      BY <2>2, <2>3 DEF Exclusive, Sharing, Steps
    <3>2. tree[s] = {} /\ StorageEntries < MaxStorageEntries
      BY <2>1, <2>3, Zenon DEF Prep
    <3> QED
      BY <3>1, <3>2, Free, Zenon
  <2>4. ASSUME pc[p] = "prepare" PROVE PrepareResult(s, e) \in {"Prepared", "AlreadyPrepared"}
    <3>1. s \in Sets
      BY <2>2, <2>4 DEF Exclusive, Sharing, Steps
    <3>2. e # 0 /\ \/ installedEpoch[s] = e
                   \/ removalPhase[s] = "prepared" /\ removalEpoch[s] = e
      BY <2>1, <2>4, Zenon DEF Prep
    <3>3. /\ Installed(s) => removalEpoch[s] # installedEpoch[s]
          /\ removalPhase[s] = "prepared" => ~Installed(s)
      BY <2>1, <3>1, Zenon DEF NewGeneration, RowsSound
    <3> HIDE DEF s, e
    <3>4. CASE installedEpoch[s] = e
      BY <3>2, <3>3, <3>4 DEF PrepareResult, Installed
    <3>5. CASE removalPhase[s] = "prepared" /\ removalEpoch[s] = e
      BY <3>3, <3>5 DEF PrepareResult
    <3> QED
      BY <3>2, <3>4, <3>5
  <2>5. ASSUME pc[p] = "complete"
        PROVE  ~Installed(s) /\ removalPhase[s] = "prepared" /\ removalEpoch[s] = e
    <3>1. s \in Sets
      BY <2>2, <2>5 DEF Exclusive, Sharing, Steps
    <3>2. removalPhase[s] = "prepared" /\ removalEpoch[s] = e
      BY <2>1, <2>5, Zenon DEF Work
    <3> QED
      BY <2>1, <3>1, <3>2, Zenon DEF RowsSound
  <2>6. /\ pc[p] = "delete" => job[p].found \/ tree[s] = {}
        /\ pc[p] = "lease.confirm" => installedEpoch[s] = e
    BY <2>1, Zenon DEF Prep
  <2> QED
    BY <2>3, <2>4, <2>5, <2>6, Zenon
<1> QED
  BY <1>1, CheckInvariant, PTL

\* complete_artifact_set_removal runs only once sets/ was synchronised without
\* the tree, so a set recorded as removed never comes back
\* (artifact_set_removal.rs:301, store/set_removal.rs:181).
THEOREM SetCompletedGone == Spec => SetCompletionMeansGone
<1>1. SInv /\ [Next]_vars => [\A s \in Sets :
          removalPhase[s] = "prepared" /\ removalPhase'[s] = "completed" =>
              tree[s] = {} /\ disk[s] = {{}}]_vars
  <2> SUFFICES ASSUME SInv, Next, NEW s \in Sets,
                      removalPhase[s] = "prepared", removalPhase'[s] = "completed"
               PROVE  tree[s] = {} /\ disk[s] = {{}}
    BY Zenon
  <2>1. removalPhase' # removalPhase
    <3>1. "prepared" # "completed"
      OBVIOUS
    <3> QED
      BY <3>1, Zenon
  <2>2. PICK p \in Procs : Register(p) \/ Prepare(p) \/ Complete(p)
    <3>1. ~UNCHANGED rows
      BY <2>1 DEF rows
    <3>2. ~PowerLoss
      BY <3>1, Zenon DEF PowerLoss
    <3>3. PICK p \in Procs : BeginStep(p) \/ Continue(p) \/ Fail(p) \/ Kill(p)
      BY <3>2, Zenon DEF Next
    <3>4. ~BeginStep(p) /\ ~Fail(p) /\ ~Kill(p) /\ ~LeaseStep(p)
      BY <3>1, Zenon DEF BeginStep, ImportBegin, ReconcileBegin, LeaseBegin, RemoveBegin, RecoverBegin,
         Begin, Fail, Kill, LeaseStep, LeaseVerify, LeaseConfirm, LeaseRelease
    <3>5. ImportStep(p) => Register(p)
      BY <3>1, Zenon DEF ImportStep, ImportInspect, ImportProbe, ImportUnprobe, ImportStage,
         ImportSeal, ImportPublish, ImportSyncStaging, ImportSyncSets, Verify
    <3>6. RemovalStep(p) => Prepare(p) \/ Complete(p)
      BY <3>1, Zenon DEF RemovalStep, RemoveOpen, RemoveVerify, RecoverOpen, RecoverVerify, Delete,
         DeleteSync
    <3> QED
      BY <3>3, <3>4, <3>5, <3>6, Zenon DEF Continue
  <2>3. removalPhase \in [Sets -> {"none", "prepared", "completed"}]
    BY Parts DEF RowTypes
  <2>4. ~Register(p)
    BY <2>1, Zenon DEF Register, PutSetInstallation, rows
  <2>5. ~Prepare(p)
    <3> SUFFICES ASSUME Prepare(p) PROVE FALSE
      OBVIOUS
    <3>1. removalPhase' = [removalPhase EXCEPT ![job[p].set] = "prepared"]
      BY <2>1, Zenon DEF Prepare, PrepareSetRemoval, rows
    <3> QED
      BY <2>3, <3>1
  <2>6. Complete(p)
    BY <2>2, <2>4, <2>5, Zenon
  <2>7. pc[p] = "complete" /\ removalPhase' = [removalPhase EXCEPT ![job[p].set] = "completed"]
    BY <2>6, Zenon DEF Complete, CompleteSetRemoval
  <2>8. job[p].set = s
    BY <2>3, <2>7
  <2>9. Work(p)
    BY Parts
  <2> QED
    BY <2>7, <2>8, <2>9, Zenon DEF Work
<1> QED
  BY <1>1, SetInvariant, PTL DEF Spec, SetCompletionMeansGone

\* remove_verified_managed_tree deletes for the journalled removal alone: imports,
\* reconciliations, leases and failed operations take nothing out of a tree
\* (artifact_storage/tree/removal.rs:15).
THEOREM SetDeletesJournalledTheorem == Spec => SetDeletesJournalled
<1>1. SInv /\ [Next]_vars => [\A s \in Sets :
          losses' = losses /\ ~(tree[s] \subseteq tree'[s]) =>
              /\ removalPhase[s] = "prepared"
              /\ \E p \in Procs : /\ pc[p] = "delete" /\ job[p].set = s
                                  /\ job[p].epoch = removalEpoch[s]]_vars
  <2> SUFFICES ASSUME SInv, Next, NEW s \in Sets, losses' = losses, ~(tree[s] \subseteq tree'[s])
               PROVE  /\ removalPhase[s] = "prepared"
                      /\ \E p \in Procs : /\ pc[p] = "delete" /\ job[p].set = s
                                          /\ job[p].epoch = removalEpoch[s]
    BY Zenon
  <2>1. tree' # tree
    BY Zenon
  <2>2. ~PowerLoss
    <3>1. losses \in Nat
      BY Parts, SetConstants DEF ProcTypes
    <3>2. losses' # losses + 1
      BY <3>1
    <3> QED
      BY <3>2, Zenon DEF PowerLoss
  <2>3. PICK p \in Procs : BeginStep(p) \/ Continue(p) \/ Fail(p) \/ Kill(p)
    BY <2>2, Zenon DEF Next
  <2>4. ~UNCHANGED files
    BY <2>1 DEF files
  <2>5. ~BeginStep(p) /\ ~Fail(p) /\ ~Kill(p) /\ ~LeaseStep(p)
    BY <2>1, <2>4, Zenon DEF BeginStep, ImportBegin, ReconcileBegin, LeaseBegin, RemoveBegin,
       RecoverBegin, Begin, Fail, Kill, LeaseStep, LeaseVerify, LeaseConfirm, LeaseRelease
  <2>6. ImportStep(p) => ImportPublish(p)
    BY <2>1, <2>4, Zenon DEF ImportStep, ImportInspect, ImportProbe, ImportUnprobe, ImportStage,
       ImportSeal, ImportSyncStaging, ImportSyncSets, Verify, Register
  <2>7. RemovalStep(p) => Delete(p)
    BY <2>1, <2>4, Zenon DEF RemovalStep, RemoveOpen, RemoveVerify, RecoverOpen, RecoverVerify,
       Prepare, DeleteSync, Complete
  <2>8. tree \in [Sets -> Trees]
    BY Parts DEF FileTypes
  <2>9. ~ImportPublish(p)
    <3> SUFFICES ASSUME ImportPublish(p) PROVE FALSE
      OBVIOUS
    <3>1. tree' = [tree EXCEPT ![job[p].set] = Full]
      BY Zenon DEF ImportPublish
    <3>2. tree[s] \subseteq Full
      BY <2>8 DEF Trees
    <3>3. tree'[s] = Full \/ tree'[s] = tree[s]
      BY <2>8, <3>1, Zenon
    <3> QED
      BY <3>2, <3>3, Zenon
  <2>10. Delete(p)
    BY <2>3, <2>5, <2>6, <2>7, <2>9, Zenon DEF Continue
  <2>11. pc[p] = "delete" /\ RemoveEntry(job[p].set)
    BY <2>1, <2>10, Zenon DEF Delete
  <2>12. job[p].set = s
    <3> DEFINE gone(t) == IF tree[job[p].set] = {Root} THEN {} ELSE t \ {Max(tree[job[p].set])}
    <3>1. tree' = [tree EXCEPT ![job[p].set] = gone(@)]
      BY <2>11, Zenon DEF RemoveEntry
    <3> HIDE DEF gone
    <3>2. s # job[p].set => tree'[s] = tree[s]
      BY <2>8, <3>1, Zenon
    <3> QED
      BY <3>2, Zenon
  <2>13. Work(p)
    BY Parts
  <2> QED
    BY <2>11, <2>12, <2>13, Zenon DEF Work
<1> QED
  BY <1>1, SetInvariant, PTL DEF Spec, SetDeletesJournalled

=============================================================================
