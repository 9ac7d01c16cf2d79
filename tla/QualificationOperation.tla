----------------------- MODULE QualificationOperation -----------------------
(***************************************************************************)
(* The live owner of one generation qualification:                         *)
(* crates/eval/src/generation_qualification_preregistration (its active,   *)
(* repository and admission modules), the candidate checkpoints and        *)
(* settlements it commits in the state repository (crates/model-store) and *)
(* the evidence bundles it publishes (crates/app).                         *)
(*                                                                         *)
(* An operation is Prepared, admitted once, and then driven call by call:  *)
(* every planned attempt is checkpointed, run against the model and either *)
(* closed with a published bundle or recorded as failed; the target ledger *)
(* is sealed; every repetition is evaluated, judged and settled; the       *)
(* repeatability and resource phases are published and a verdict is        *)
(* recorded.  Nothing is resumed: what an operation leaves behind only     *)
(* refuses the next one.                                                   *)
(*                                                                         *)
(* Several operations for one plan may exist, in one process after another *)
(* or in two at once: opening the repositories takes no exclusive lock.    *)
(* Every commit may fail, with or without its row, and an operation may    *)
(* vanish between any two steps.                                           *)
(***************************************************************************)
EXTENDS Integers, Sequences, FiniteSets

CONSTANTS
    Operations, \* prepared operations for the one plan
    N,          \* planned attempts, numbered in plan order
    Targets,    \* those of the target system; the others are baseline
    R           \* preregistered repetitions

ASSUME QualificationAssumption ==
    /\ N \in Nat \ {0}
    /\ R \in Nat \ {0}
    /\ Targets \subseteq 1..N
    /\ IsFiniteSet(Operations)

Attempts == 1..N

Repetitions == 1..R

VARIABLES
    precursors, \* attempts with a durable checkpoint
    record,     \* record[a]: the durable attempt record
    directory,  \* directory[a]: what the evidence repository holds for a
    staging,    \* operations whose staging tree exists
    sent,       \* sent[a]: how often a was sent to the model (history)
    evidence,   \* evidence[r]: durable rows of r, receipt sets to judge
    published,  \* durable rows of the ledger, results and repeatability phase
    resource,   \* the durable resource phase
    verdict,    \* the durable qualification record
    op          \* op[o]: the memory of operation o

candidateVars == <<precursors, record, directory, staging, sent>>

phaseVars == <<evidence, published, resource, verdict>>

vars == <<candidateVars, phaseVars, op>>

\* The rows of one repetition, in the order their transactions require.
TargetReceipts == 1
BaselineReceipts == 2
Evaluated == 3
Judged == 4

\* The rows of the repeatability publication: the ledger, one result for each
\* repetition, the phase.
PublishedRows == R + 2

CandidatePcs == {"running", "sent", "persistFailed"}

CloseoutPcs ==
    {"parent", "probeStage", "probe", "probeRemove", "stage", "publish",
     "verify", "persistCompleted", "failCloseout"}

Pcs ==
    {"prepared", "staging", "scan", "refused", "idle", "judging", "settling",
     "publishing", "gone"} \cup CandidatePcs \cup CloseoutPcs

Refusals ==
    {"none", "unavailable", "UnexpectedStaging", "CheckpointOnly",
     "TerminalFailed", "TerminalCompleted", "PublicationOrphan",
     "StorageMismatch", "AmbiguousCommit", "Corrupt"}

Classes == {"NotStarted", "CheckpointOnly", "TerminalFailed", "TerminalCompleted"}

Memory ==
    [pc : Pcs,
     classes : [Attempts -> Classes],   \* the admission snapshot
     refusal : Refusals,
     at : 0..(N + R + 4),               \* position in a scan or a publication
     repetition : Repetitions,          \* of the settlement under way
     next : 1..(N + 1),                 \* next_candidate_attempt, from one
     started : BOOLEAN,                 \* started_candidate_attempt
     pending : {"none", "full", "taken"},  \* pending_completed_candidate
     records : Seq({"failed", "completed"}),  \* target_attempt_records
     ledger : {"none", "passed", "failed", "skipped"},
     interrupted : BOOLEAN,             \* operation_interruption
     judged : 0..R,                     \* next_judge_repetition
     settled : 0..R,                    \* next_judge_settlement
     terminal : BOOLEAN]

Fresh(pc) ==
    [pc |-> pc,
     classes |-> [a \in Attempts |-> "NotStarted"],
     refusal |-> "none",
     at |-> 0,
     repetition |-> 1,
     next |-> 1,
     started |-> FALSE,
     pending |-> "none",
     records |-> <<>>,
     ledger |-> "none",
     interrupted |-> FALSE,
     judged |-> 0,
     settled |-> 0,
     terminal |-> FALSE]

TypeOK ==
    /\ precursors \subseteq Attempts
    /\ record \in [Attempts -> {"none", "failed", "completed"}]
    /\ directory \in [Attempts -> {"absent", "empty", "other", "bundle"}]
    /\ staging \subseteq Operations
    /\ sent \in [Attempts -> 0..Cardinality(Operations)]
    /\ evidence \in [Repetitions -> 0..Judged]
    /\ published \in 0..PublishedRows
    /\ resource \in {"none", "passed", "failed"}
    /\ verdict \in {"none", "qualified", "rejected"}
    /\ op \in [Operations -> Memory]

Init ==
    /\ precursors = {}
    /\ record = [a \in Attempts |-> "none"]
    /\ directory = [a \in Attempts |-> "absent"]
    /\ staging = {}
    /\ sent = [a \in Attempts |-> 0]
    /\ evidence = [r \in Repetitions |-> 0]
    /\ published = 0
    /\ resource = "none"
    /\ verdict = "none"
    /\ op = [o \in Operations |-> Fresh("prepared")]

-----------------------------------------------------------------------------
(* Activation: admission of a plan whose attempts are all pristine.        *)

\* What one read transaction of the repository says of attempt a.
StoreClass(a) ==
    CASE record[a] = "failed"    -> "TerminalFailed"
      [] record[a] = "completed" -> "TerminalCompleted"
      [] a \in precursors /\ record[a] = "none" -> "CheckpointOnly"
      [] OTHER -> "NotStarted"

\* The decision for one attempt, from its class in the snapshot and the
\* directory found later; "none" admits it.
DecideAttempt(class, dir) ==
    CASE dir = "empty" -> "Corrupt"
      [] class = "NotStarted" /\ dir = "absent" -> "none"
      [] class = "CheckpointOnly" /\ dir = "absent" -> "CheckpointOnly"
      [] class \in {"NotStarted", "CheckpointOnly"} /\ dir \in {"other", "bundle"}
            -> "PublicationOrphan"
      [] class = "TerminalFailed" /\ dir = "absent" -> "TerminalFailed"
      [] class = "TerminalCompleted" /\ dir = "bundle" -> "TerminalCompleted"
      [] class = "TerminalCompleted" /\ dir = "absent" -> "StorageMismatch"
      [] OTHER -> "AmbiguousCommit"

\* A refused activation consumes the Prepared operation.
Refused(why, at) == [Fresh("refused") EXCEPT !.refusal = why, !.at = at]

ReadAdmission(o) ==
    /\ op[o].pc = "prepared"
    /\ op' = [op EXCEPT ![o].pc = "staging",
                        ![o].classes = [a \in Attempts |-> StoreClass(a)]]
    /\ UNCHANGED <<candidateVars, phaseVars>>

RequireClearStaging(o) ==
    /\ op[o].pc = "staging"
    /\ op' = [op EXCEPT ![o] =
                IF staging # {} THEN Refused("UnexpectedStaging", 0)
                ELSE [@ EXCEPT !.pc = "scan", !.at = 1]]
    /\ UNCHANGED <<candidateVars, phaseVars>>

\* The directories are visited in plan order; the last one admits.
ScanAttempt(o) ==
    /\ op[o].pc = "scan"
    /\ LET a == op[o].at
           why == DecideAttempt(op[o].classes[a], directory[a])
       IN  op' = [op EXCEPT ![o] =
                    IF why # "none" THEN Refused(why, a)
                    ELSE IF a = N THEN Fresh("idle")
                    ELSE [@ EXCEPT !.at = a + 1]]
    /\ UNCHANGED <<candidateVars, phaseVars>>

\* Deadline, cancellation, drifted authority or an unreadable repository.
RefuseActivation(o) ==
    /\ op[o].pc \in {"prepared", "staging", "scan"}
    /\ op' = [op EXCEPT ![o] = Refused("unavailable", 0)]
    /\ UNCHANGED <<candidateVars, phaseVars>>

-----------------------------------------------------------------------------
(* One candidate attempt: checkpoint, run, outcome.                        *)

\* The owner is terminal from here on; whatever it held stays held.
Stop(m) == [m EXCEPT !.pc = "idle", !.terminal = TRUE]

\* The held attempt is settled in memory: its ordinal is consumed, a target
\* outcome is retained, and a failure terminates the owner.
Settle(m, outcome) ==
    [m EXCEPT !.pc = "idle",
              !.next = @ + 1,
              !.started = FALSE,
              !.pending = "none",
              !.records = IF m.next \in Targets THEN Append(@, outcome) ELSE @,
              !.terminal = outcome = "failed"]

MayRunCandidate(m) ==
    /\ m.pc = "idle"
    /\ ~m.terminal
    /\ ~m.started
    /\ m.pending = "none"
    /\ m.next \in Attempts

\* Mutant: the following attempt is checkpointed ahead of its turn.
CheckpointAhead(o) ==
    /\ MayRunCandidate(op[o])
    /\ op[o].next \notin precursors
    /\ precursors' = precursors \cup ({op[o].next, op[o].next + 1} \cap Attempts)
    /\ op' = [op EXCEPT ![o].pc = "running", ![o].started = TRUE]
    /\ UNCHANGED <<record, directory, staging, sent, phaseVars>>

\* run_next_candidate up to its first await: the checkpoint is one immediate
\* transaction.  A failure of it leaves the owner as it was.
Checkpoint(o) ==
    /\ MayRunCandidate(op[o])
    /\ op[o].next \notin precursors
    /\ \E ok \in BOOLEAN :
         /\ precursors' = precursors \cup {op[o].next}
         /\ op' = IF ok THEN [op EXCEPT ![o].pc = "running", ![o].started = TRUE]
                  ELSE op
    /\ UNCHANGED <<record, directory, staging, sent, phaseVars>>

\* An exact checkpoint that is already durable is never run again.
CheckpointReplay(o) ==
    /\ MayRunCandidate(op[o])
    /\ op[o].next \in precursors
    /\ op' = [op EXCEPT ![o] = Stop(@)]
    /\ UNCHANGED <<candidateVars, phaseVars>>

\* The run reaches the model server.
SendCandidate(o) ==
    /\ op[o].pc = "running"
    /\ sent' = [sent EXCEPT ![op[o].next] = @ + 1]
    /\ op' = [op EXCEPT ![o].pc = "sent"]
    /\ UNCHANGED <<precursors, record, directory, staging, phaseVars>>

\* The caller drops the future at an await: the attempt stays started.
DropRun(o) ==
    /\ op[o].pc \in {"running", "sent"}
    /\ op' = [op EXCEPT ![o].pc = "idle"]
    /\ UNCHANGED <<candidateVars, phaseVars>>

\* The run returns an error, or an outcome of another scope.
RunError(o) ==
    /\ op[o].pc \in {"running", "sent"}
    /\ op' = [op EXCEPT ![o] = Stop(@)]
    /\ UNCHANGED <<candidateVars, phaseVars>>

\* A completed outcome waits for its closeout.
RunCompleted(o) ==
    /\ op[o].pc = "sent"
    /\ op' = [op EXCEPT ![o].pc = "idle",
                        ![o].started = FALSE,
                        ![o].pending = "full"]
    /\ UNCHANGED <<candidateVars, phaseVars>>

\* A failed outcome, before or after traffic, or a completed one whose
\* mandatory finalization failed.
RunFailed(o) ==
    /\ op[o].pc \in {"running", "sent"}
    /\ op' = [op EXCEPT ![o].pc = "persistFailed"]
    /\ UNCHANGED <<candidateVars, phaseVars>>

\* Mutant: the ordinal is consumed whether or not the record was committed.
ConsumeBeforeCommit(o) ==
    /\ op[o].pc = "persistFailed"
    /\ record' \in {record, [record EXCEPT ![op[o].next] = "failed"]}
    /\ op' = [op EXCEPT ![o] = Settle(@, "failed")]
    /\ UNCHANGED <<precursors, directory, staging, sent, phaseVars>>

\* The failed record is committed before the ordinal is consumed.
PersistFailedCandidate(o) ==
    /\ op[o].pc = "persistFailed"
    /\ \E committed, ok \in BOOLEAN :
         /\ ok => committed
         /\ committed => record[op[o].next] \in {"none", "failed"}
         /\ record' = IF committed THEN [record EXCEPT ![op[o].next] = "failed"]
                      ELSE record
         /\ op' = [op EXCEPT ![o] = IF ok THEN Settle(@, "failed") ELSE Stop(@)]
    /\ UNCHANGED <<precursors, directory, staging, sent, phaseVars>>

-----------------------------------------------------------------------------
(* Closeout of a completed attempt: publication, then settlement.          *)

\* close_pending_candidate takes the completed attempt out of the pending
\* slot; a scope mismatch fails before anything is published.
BeginCloseout(o) ==
    /\ op[o].pc = "idle"
    /\ ~op[o].terminal
    /\ op[o].pending = "full"
    /\ \E matches \in BOOLEAN :
         op' = [op EXCEPT ![o].pc = IF matches THEN "parent" ELSE "failCloseout",
                          ![o].pending = IF matches THEN "taken" ELSE @]
    /\ UNCHANGED <<candidateVars, phaseVars>>

\* The plan and attempt directories are created ahead of the bundle.
CreateParent(o) ==
    /\ op[o].pc = "parent"
    /\ directory' = [directory EXCEPT ![op[o].next] = IF @ = "absent" THEN "empty" ELSE @]
    /\ op' = [op EXCEPT ![o].pc = "probeStage"]
    /\ UNCHANGED <<precursors, record, staging, sent, phaseVars>>

\* A staging tree, first for the publication probe and then for the bundle.
StageTree(o) ==
    /\ op[o].pc \in {"probeStage", "stage"}
    /\ staging' = staging \cup {o}
    /\ op' = [op EXCEPT ![o].pc = IF @ = "stage" THEN "publish" ELSE "probe"]
    /\ UNCHANGED <<precursors, record, directory, sent, phaseVars>>

\* One rename without replacement moves the tree into the attempt directory.
PublishTree(o) ==
    /\ op[o].pc \in {"probe", "publish"}
    /\ directory[op[o].next] # "bundle"
    /\ staging' = staging \ {o}
    /\ directory' = [directory EXCEPT ![op[o].next] =
                        IF op[o].pc = "publish" THEN "bundle" ELSE "other"]
    /\ op' = [op EXCEPT ![o].pc = IF @ = "publish" THEN "verify" ELSE "probeRemove"]
    /\ UNCHANGED <<precursors, record, sent, phaseVars>>

RemoveProbe(o) ==
    /\ op[o].pc = "probeRemove"
    /\ directory' = [directory EXCEPT ![op[o].next] = "empty"]
    /\ op' = [op EXCEPT ![o].pc = "stage"]
    /\ UNCHANGED <<precursors, record, staging, sent, phaseVars>>

\* Readback, receipt, batch and authority are verified against the bundle.
VerifyCloseout(o) ==
    /\ op[o].pc = "verify"
    /\ op' = [op EXCEPT ![o].pc = "persistCompleted"]
    /\ UNCHANGED <<candidateVars, phaseVars>>

\* Any of these steps may fail; the cleanup of a staging tree may fail too.
CloseoutError(o) ==
    /\ op[o].pc \in {"parent", "probeStage", "probe", "probeRemove", "stage",
                     "publish", "verify"}
    /\ staging' \in {staging, staging \ {o}}
    /\ op' = [op EXCEPT ![o].pc = "failCloseout"]
    /\ UNCHANGED <<precursors, record, directory, sent, phaseVars>>

\* Mutant: the completed record is committed ahead of the rename.
PersistBeforePublish(o) ==
    /\ op[o].pc = "publish"
    /\ record' = [record EXCEPT ![op[o].next] = "completed"]
    /\ op' = [op EXCEPT ![o] = Settle(@, "completed")]
    /\ UNCHANGED <<precursors, directory, staging, sent, phaseVars>>

\* The transaction of a completed attempt reacquires the bundle before it
\* commits.  When it fails the owner is terminal with the attempt pending.
PersistCompleted(o) ==
    /\ op[o].pc = "persistCompleted"
    /\ \E committed, ok \in BOOLEAN :
         /\ ok => committed
         /\ committed => /\ directory[op[o].next] = "bundle"
                         /\ record[op[o].next] \in {"none", "completed"}
         /\ record' = IF committed THEN [record EXCEPT ![op[o].next] = "completed"]
                      ELSE record
         /\ op' = [op EXCEPT ![o] = IF ok THEN Settle(@, "completed") ELSE Stop(@)]
    /\ UNCHANGED <<precursors, directory, staging, sent, phaseVars>>

\* derive_status, over what the owner retains.
DeriveStatus(m) ==
    CASE /\ Len(m.records) = Cardinality(Targets)
         /\ \A i \in 1..Len(m.records) : m.records[i] = "completed" -> "passed"
      [] OTHER -> IF m.records # <<>> THEN "failed" ELSE "skipped"

\* A failed closeout settles the attempt as failed, and its interruption is
\* compiled unless a finalization failed or the ledger would have passed.
FailCloseout(o) ==
    /\ op[o].pc = "failCloseout"
    /\ \E committed, ok, compiled \in BOOLEAN :
         /\ ok => committed
         /\ committed => record[op[o].next] \in {"none", "failed"}
         /\ record' = IF committed THEN [record EXCEPT ![op[o].next] = "failed"]
                      ELSE record
         /\ LET m == Settle(op[o], "failed")
            IN  op' = [op EXCEPT ![o] =
                         IF ok THEN [m EXCEPT !.interrupted =
                                        compiled /\ DeriveStatus(m) # "passed"]
                         ELSE Stop(@)]
    /\ UNCHANGED <<precursors, directory, staging, sent, phaseVars>>

-----------------------------------------------------------------------------
(* Ledger, judges and settlements.                                         *)

Unheld(m) == ~m.started /\ m.pending = "none"

SealLedger(o) ==
    /\ op[o].pc = "idle"
    /\ op[o].ledger = "none"
    /\ ~op[o].interrupted
    /\ Unheld(op[o])
    /\ op[o].terminal \/ op[o].next = N + 1
    /\ op' = [op EXCEPT ![o].ledger = DeriveStatus(op[o])]
    /\ UNCHANGED <<candidateVars, phaseVars>>

\* A judge run that is refused for drifted authority, or a settlement whose
\* gate or finalization fails before a commit: allowed in any live state.
Terminate(o) ==
    /\ op[o].pc = "idle"
    /\ ~op[o].terminal
    /\ op' = [op EXCEPT ![o] = Stop(@)]
    /\ UNCHANGED <<candidateVars, phaseVars>>

RunJudge(o) ==
    /\ op[o].pc = "idle"
    /\ ~op[o].terminal
    /\ op[o].next > N
    /\ op[o].ledger # "none"
    /\ op[o].judged < R
    /\ op' = [op EXCEPT ![o].pc = "judging"]
    /\ UNCHANGED <<candidateVars, phaseVars>>

\* The join is retained, the run fails, or its future is dropped.
JudgeEnds(o) ==
    /\ op[o].pc = "judging"
    /\ \/ op' = [op EXCEPT ![o].pc = "idle", ![o].judged = @ + 1]
       \/ op' = [op EXCEPT ![o] = Stop(@)]
       \/ op' = [op EXCEPT ![o].pc = "idle"]
    /\ UNCHANGED <<candidateVars, phaseVars>>

\* What every settlement requires of its owner.
MaySettle(m) ==
    /\ m.pc = "idle"
    /\ ~m.terminal
    /\ Unheld(m)
    /\ m.next = N + 1
    /\ m.ledger = "passed"

BeginDeterministic(o, r) ==
    /\ MaySettle(op[o])
    /\ op' = [op EXCEPT ![o].pc = "settling",
                        ![o].repetition = r,
                        ![o].at = TargetReceipts]
    /\ UNCHANGED <<candidateVars, phaseVars>>

Later(old, new) == IF old < new THEN new ELSE old

\* persist_target_receipt_set: the target receipt set of one repetition alone,
\* under the same conditions and without what follows it in a settlement.
PersistTargetReceiptSet(o, r) ==
    /\ MaySettle(op[o])
    /\ \E committed, ok \in BOOLEAN :
         /\ ok => committed
         /\ evidence' = IF committed
                        THEN [evidence EXCEPT ![r] = Later(@, TargetReceipts)]
                        ELSE evidence
         /\ op' = [op EXCEPT ![o] = IF ok THEN @ ELSE Stop(@)]
    /\ UNCHANGED <<candidateVars, published, resource, verdict>>

\* Two receipt sets and the evaluation, each in its own transaction.
SettleDeterministic(o) ==
    /\ op[o].pc = "settling"
    /\ LET r == op[o].repetition
           row == op[o].at
       IN  \E committed, ok \in BOOLEAN :
             /\ ok => committed
             /\ evidence' = IF committed
                            THEN [evidence EXCEPT ![r] = Later(@, row)]
                            ELSE evidence
             /\ op' = [op EXCEPT ![o] =
                         IF ~ok THEN Stop(@)
                         ELSE IF row = Evaluated THEN [@ EXCEPT !.pc = "idle"]
                         ELSE [@ EXCEPT !.at = row + 1]]
    /\ UNCHANGED <<candidateVars, published, resource, verdict>>

\* Mutant: any judged repetition settles and moves the settlement count.
SettleJudgeAnyOrder(o, r) ==
    /\ MaySettle(op[o])
    /\ r <= op[o].judged
    /\ evidence[r] >= Evaluated
    /\ evidence' = [evidence EXCEPT ![r] = Judged]
    /\ op' = [op EXCEPT ![o].settled = Later(@, r)]
    /\ UNCHANGED <<candidateVars, published, resource, verdict>>

\* Repetitions settle in order; an already settled one may replay.  The rows
\* the judge row stands on must be durable.
SettleJudge(o, r) ==
    /\ MaySettle(op[o])
    /\ r <= op[o].judged
    /\ r <= op[o].settled + 1
    /\ \E committed, ok \in BOOLEAN :
         /\ ok => committed
         /\ committed => evidence[r] >= Evaluated
         /\ evidence' = IF committed THEN [evidence EXCEPT ![r] = Judged]
                        ELSE evidence
         /\ op' = [op EXCEPT ![o] =
                     IF ~ok THEN Stop(@)
                     ELSE [@ EXCEPT !.settled = Later(op[o].settled, r)]]
    /\ UNCHANGED <<candidateVars, published, resource, verdict>>

AllSettled(m) == MaySettle(m) /\ m.judged = R /\ m.settled = R

BeginRepeatability(o) ==
    /\ AllSettled(op[o])
    /\ op' = [op EXCEPT ![o].pc = "publishing", ![o].at = 1]
    /\ UNCHANGED <<candidateVars, phaseVars>>

\* The ledger, every result in plan order and the phase, one by one.
PublishRepeatability(o) ==
    /\ op[o].pc = "publishing"
    /\ \E committed, ok \in BOOLEAN :
         /\ ok => committed
         /\ published' = IF committed THEN Later(published, op[o].at)
                         ELSE published
         /\ op' = [op EXCEPT ![o] =
                     IF ~ok THEN Stop(@)
                     ELSE IF op[o].at = PublishedRows THEN [@ EXCEPT !.pc = "idle"]
                     ELSE [@ EXCEPT !.at = op[o].at + 1]]
    /\ UNCHANGED <<candidateVars, evidence, resource, verdict>>

\* The resource results and their phase in one transaction.
SettleResource(o, status) ==
    /\ AllSettled(op[o])
    /\ \E committed, ok \in BOOLEAN :
         /\ ok => committed
         /\ committed => /\ published = PublishedRows
                         /\ resource \in {"none", status}
         /\ resource' = IF committed THEN status ELSE resource
         /\ op' = [op EXCEPT ![o] = IF ok THEN @ ELSE Stop(@)]
    /\ UNCHANGED <<candidateVars, evidence, published, verdict>>

\* close_generation_qualification over passed resources, with the human
\* adjudication, or reject_failed_generation_resources: both consume the
\* owner, whatever they commit.
Close(o) ==
    /\ op[o].pc = "idle"
    /\ op' = [op EXCEPT ![o] = Fresh("gone")]
    /\ \/ verdict' = verdict
       \/ /\ AllSettled(op[o])
          /\ resource = "passed"
          /\ verdict' \in {"qualified", "rejected"}
          /\ verdict \in {"none", verdict'}
       \/ /\ AllSettled(op[o])
          /\ resource = "failed"
          /\ verdict' = "rejected"
          /\ verdict \in {"none", verdict'}
    /\ UNCHANGED <<candidateVars, evidence, published, resource>>

\* The process ends, or the owner is dropped: only durable state remains.
Crash(o) ==
    /\ op[o].pc \notin {"refused", "gone"}
    /\ op' = [op EXCEPT ![o] = Fresh("gone")]
    /\ UNCHANGED <<candidateVars, phaseVars>>

Step(o) ==
    \/ ReadAdmission(o) \/ RequireClearStaging(o) \/ ScanAttempt(o)
    \/ RefuseActivation(o)
    \/ Checkpoint(o) \/ CheckpointReplay(o)
    \/ SendCandidate(o) \/ DropRun(o) \/ RunError(o)
    \/ RunCompleted(o) \/ RunFailed(o) \/ PersistFailedCandidate(o)
    \/ BeginCloseout(o) \/ CreateParent(o) \/ StageTree(o) \/ PublishTree(o)
    \/ RemoveProbe(o) \/ VerifyCloseout(o) \/ CloseoutError(o)
    \/ PersistCompleted(o) \/ FailCloseout(o)
    \/ SealLedger(o) \/ Terminate(o) \/ RunJudge(o) \/ JudgeEnds(o)
    \/ \E r \in Repetitions : PersistTargetReceiptSet(o, r)
    \/ \E r \in Repetitions : BeginDeterministic(o, r) \/ SettleJudge(o, r)
    \/ SettleDeterministic(o)
    \/ BeginRepeatability(o) \/ PublishRepeatability(o)
    \/ \E status \in {"passed", "failed"} : SettleResource(o, status)
    \/ Close(o) \/ Crash(o)

Next == \E o \in Operations : Step(o)

Spec == Init /\ [][Next]_vars

-----------------------------------------------------------------------------
(* Properties.                                                             *)

\* Operation o holds or has settled an attempt of the plan.
Owns(o) == op[o].next > 1 \/ op[o].started \/ op[o].pending # "none"

\* No attempt reaches the model twice, whatever operations were prepared for
\* the plan, dropped, killed or refused a commit in between: the checkpoint
\* that run_next_candidate inserts before its first request (candidate.rs:241)
\* is never accepted a second time.
TrafficOnce == \A a \in Attempts : sent[a] <= 1

\* At most one operation ever owns attempts of the plan, although nothing
\* locks the repositories: the first checkpoint decides (candidate.rs:241).
OneOwner ==
    \A o, p \in Operations : Owns(o) /\ Owns(p) => o = p

\* The ordinals an owner counts as settled are durably settled and every
\* target outcome it retains for the ledger is the durable one
\* (settled_candidate_attempts, active.rs:247): the commit comes first in
\* outcome.rs:101 and in candidate_closeout.rs:155.
SettledDurably ==
    /\ TypeOK
    /\ \A o \in Operations :
         LET settled == 1..(op[o].next - 1)
         IN  /\ \A a \in settled :
                  /\ record[a] # "none"
                  /\ record[a] = "failed" => a = op[o].next - 1 /\ op[o].terminal
             /\ Len(op[o].records) = Cardinality(settled \cap Targets)
             /\ \A a \in settled \cap Targets :
                  op[o].records[Cardinality((1..a) \cap Targets)] = record[a]

\* A durable completed record always has its published bundle and its
\* checkpoint, and its attempt was sent: the transaction reacquires the bundle
\* before it commits (candidate_closeout.rs:301).
CompletedHasBundle ==
    \A a \in Attempts : record[a] = "completed" =>
        directory[a] = "bundle" /\ a \in precursors /\ sent[a] = 1

\* Each phase stands on the one before: the judge runs, and evidence of a
\* repetition exists, only once every candidate, baseline included, is durably
\* completed (judge.rs:184, deterministic.rs:176), and a durable verdict only
\* over all repetitions judged, the whole repeatability publication and a
\* resource phase, which passed if the system is qualified (closeout.rs:181,
\* resource_rejection.rs).
VerdictStandsOnEvidence ==
    /\ (\E o \in Operations : op[o].pc = "judging")
          \/ (\E r \in Repetitions : evidence[r] > 0)
       => \A a \in Attempts : record[a] = "completed"
    /\ verdict # "none" =>
          /\ \A r \in Repetitions : evidence[r] = Judged
          /\ published = PublishedRows
          /\ resource # "none"
          /\ verdict = "qualified" => resource = "passed"

\* The state of attempt a as AttemptPlan tells it.
PlanState ==
    [a \in Attempts |->
        IF record[a] # "none" THEN record[a]
        ELSE IF a \in precursors THEN "claimed" ELSE "open"]

Plan == INSTANCE AttemptPlan
            WITH state <- PlanState, traffic <- sent, verdict <- verdict

\* All operations together implement one AttemptPlan: attempts are claimed in
\* plan order, sent once, settled once, and nothing follows a failed one
\* (active/candidate.rs, active/candidate_closeout.rs, active/closeout.rs).
ImplementsPlan == Plan!PlanSpec

=============================================================================
