------------------------ MODULE QualificationProofs -------------------------
(***************************************************************************)
(* Theorems about QualificationOperation, for any number of operations,    *)
(* attempts, targets and repetitions: an attempt reaches the model at most *)
(* once and at most one operation owns attempts, a completed record has its*)
(* bundle, a verdict stands on its evidence, what an owner retains for its *)
(* target ledger is durable, all operations together implement AttemptPlan,*)
(* a closeout meets no file of another operation, and durable evidence is  *)
(* never taken back.                                                       *)
(***************************************************************************)
EXTENDS QualificationOperation, FiniteSetTheorems, TLAPS

USE QualificationAssumption DEF Attempts, Repetitions

-----------------------------------------------------------------------------
(* The inductive invariant.                                                *)

\* The types the argument needs; staging plays no part in it.
Types ==
    /\ precursors \subseteq Attempts
    /\ record \in [Attempts -> {"none", "failed", "completed"}]
    /\ directory \in [Attempts -> {"absent", "empty", "other", "bundle"}]
    /\ sent \in [Attempts -> Nat]
    /\ evidence \in [Repetitions -> 0..Judged]
    /\ published \in 0..PublishedRows
    /\ resource \in {"none", "passed", "failed"}
    /\ verdict \in {"none", "qualified", "rejected"}
    /\ op \in [Operations -> Memory]

\* An operation with memory m holds the attempt m.next.
Holds(m) == m.started \/ m.pending # "none"

\* Where the control of an operation is says what its memory holds.
ControlSound(m) ==
    /\ m.pc \in CandidatePcs => m.started /\ ~m.terminal
    /\ m.pc \in CloseoutPcs => m.pending # "none" /\ ~m.terminal
    /\ m.pc \in {"judging", "settling", "publishing"} => ~m.terminal /\ m.next = N + 1
    /\ m.pc = "judging" => m.judged < R
    /\ m.pc = "settling" => m.at \in 1..Evaluated
    /\ m.pc = "publishing" => m.at \in 1..PublishedRows /\ m.settled = R
    /\ m.pc = "scan" => m.at \in Attempts
    /\ Holds(m) => m.next \in Attempts

\* What is durable of the attempt an operation holds and of those before it.
ClaimSound(m) ==
    /\ Holds(m) => m.next \in precursors
    /\ Holds(m) /\ ~m.terminal => record[m.next] = "none"
    /\ m.pc = "running" => sent[m.next] = 0
    /\ m.pc = "sent" \/ m.pending # "none" => sent[m.next] = 1
    /\ \A a \in Attempts : a < m.next =>
          record[a] # "none" /\ (record[a] = "failed" => m.terminal)

\* The durable rows of an attempt, in the order they are written.
RowsSound ==
    \A a \in Attempts :
        /\ a \notin precursors => record[a] = "none" /\ sent[a] = 0
        /\ sent[a] <= 1
        /\ record[a] = "completed" => directory[a] = "bundle" /\ sent[a] = 1

\* The durable rows of the phases, each over the one before.
PhasesSound ==
    /\ \A r \in Repetitions : evidence[r] > 0 =>
          \A a \in Attempts : record[a] = "completed"
    /\ \A o \in Operations : \A r \in Repetitions :
          r <= op[o].settled => evidence[r] = Judged
    /\ published > 0 => \A r \in Repetitions : evidence[r] = Judged
    /\ resource # "none" => published = PublishedRows
    /\ verdict # "none" => resource # "none"
    /\ verdict = "qualified" => resource = "passed"

Inv ==
    /\ Types
    /\ \A o \in Operations : ControlSound(op[o])
    /\ \A o \in Operations : ClaimSound(op[o])
    /\ RowsSound
    /\ OneOwner
    /\ PhasesSound

-----------------------------------------------------------------------------
(* Steps that leave the durable rows of the attempts alone.                *)

\* From m to n, an operation takes no attempt and forgets no failure.
KeepsClaim(n, m) ==
    \/ ~Holds(n) /\ n.next = 1
    \/ /\ n.next = m.next
       /\ Holds(n) => Holds(m)
       /\ m.terminal => n.terminal
       /\ n.pc = "running" => m.pc = "running"
       /\ n.pc = "sent" \/ n.pending # "none" => m.pc = "sent" \/ m.pending # "none"

Follows(n, m) ==
    /\ n \in Memory
    /\ ControlSound(n)
    /\ KeepsClaim(n, m)
    /\ n.settled \in {0, m.settled}

\* The move of operation o to memory n.
Moves(o, n) == op' = [op EXCEPT ![o] = n]

\* One operation moves, the others stay.
LEMMA MoveType ==
    ASSUME Types, NEW o \in Operations, NEW n \in Memory, Moves(o, n)
    PROVE  /\ op' \in [Operations -> Memory]
           /\ op'[o] = n
           /\ \A p \in Operations \ {o} : op'[p] = op[p]
  BY DEF Types, Moves

\* A move that keeps the claim of its operation, with the rows of the attempts
\* unchanged, keeps every claim sound and the owner unique.
LEMMA QuietClaims ==
    ASSUME Inv, NEW o \in Operations, NEW n \in Memory, ControlSound(n),
           KeepsClaim(n, op[o]), Moves(o, n), UNCHANGED <<precursors, record, sent>>
    PROVE  /\ \A p \in Operations : ControlSound(op[p])'
           /\ \A p \in Operations : ClaimSound(op[p])'
           /\ OneOwner'
<1>1. /\ op'[o] = n
      /\ \A p \in Operations \ {o} : op'[p] = op[p]
  BY MoveType DEF Inv
<1>2. ControlSound(n) /\ KeepsClaim(n, op[o])
  OBVIOUS
<1>3. \A p \in Operations : ControlSound(op[p])'
  BY <1>1, <1>2 DEF Inv, ControlSound, Holds
<1>4. ClaimSound(op[o])'
  <2>1. CASE ~Holds(n) /\ n.next = 1
    <3>1. n.pc # "running" /\ n.pc # "sent" /\ n.pending = "none"
      BY <1>2, <2>1 DEF ControlSound, Holds, CandidatePcs
    <3> QED
      BY <1>1, <2>1, <3>1 DEF ClaimSound, Holds
  <2>2. CASE ~(~Holds(n) /\ n.next = 1)
    <3>1. ClaimSound(op[o])
      BY DEF Inv
    <3> QED
      BY <1>1, <1>2, <2>2, <3>1 DEF KeepsClaim, ClaimSound, Holds
  <2> QED
    BY <2>1, <2>2
<1>5. \A p \in Operations : ClaimSound(op[p])'
  <2>1. ASSUME NEW p \in Operations \ {o}
        PROVE  ClaimSound(op[p])'
    <3>1. ClaimSound(op[p]) /\ op'[p] = op[p]
      BY <1>1 DEF Inv
    <3> QED
      BY <3>1 DEF ClaimSound, Holds
  <2> QED
    BY <1>4, <2>1
<1>6. Owns(o)' => Owns(o)
  BY <1>1, <1>2 DEF Owns, KeepsClaim, Holds
<1>7. \A p \in Operations \ {o} : Owns(p)' => Owns(p)
  BY <1>1 DEF Owns
<1>8. OneOwner'
  BY <1>6, <1>7 DEF Inv, OneOwner
<1> QED
  BY <1>3, <1>5, <1>8

\* A completed record stays, and what a settled repetition stands on.
LEMMA QuietPhases ==
    ASSUME Inv, NEW o \in Operations, NEW n \in Memory, Moves(o, n),
           n.settled \in {0, op[o].settled}, UNCHANGED phaseVars,
           \A a \in Attempts : record[a] = "completed" => record'[a] = "completed"
    PROVE  PhasesSound'
<1>1. /\ op'[o] = n
      /\ \A p \in Operations \ {o} : op'[p] = op[p]
  BY MoveType DEF Inv
<1>2. \A p \in Operations : op'[p].settled \in {0, op[p].settled}
  BY <1>1
<1>3. PhasesSound
  BY DEF Inv
<1>4. UNCHANGED <<evidence, published, resource, verdict>>
  BY DEF phaseVars
<1>5. \A p \in Operations : \A r \in Repetitions :
        r <= op'[p].settled => evidence'[r] = Judged
  BY <1>2, <1>3, <1>4 DEF PhasesSound
<1> QED
  BY <1>3, <1>4, <1>5 DEF PhasesSound

\* A step that moves one operation, and touches the directory of no attempt
\* but an unsettled one, keeps the invariant.
LEMMA Quiet ==
    ASSUME Inv, NEW o \in Operations, NEW n, Follows(n, op[o]), Moves(o, n),
           UNCHANGED <<precursors, record, sent, phaseVars>>,
           directory' \in [Attempts -> {"absent", "empty", "other", "bundle"}],
           \A a \in Attempts : record[a] = "completed" => directory'[a] = directory[a]
    PROVE  Inv'
<1>1. Types'
  <2>1. op' \in [Operations -> Memory]
    BY MoveType DEF Inv, Follows
  <2> QED
    BY <2>1 DEF Inv, Types, phaseVars
<1>2. /\ \A p \in Operations : ControlSound(op[p])'
      /\ \A p \in Operations : ClaimSound(op[p])'
      /\ OneOwner'
  BY QuietClaims DEF Follows
<1>3. RowsSound'
  BY DEF Inv, RowsSound
<1>4. PhasesSound'
  <2>1. n \in Memory /\ n.settled \in {0, op[o].settled}
    BY DEF Follows
  <2> QED
    BY <2>1, QuietPhases
<1> QED
  BY <1>1, <1>2, <1>3, <1>4 DEF Inv

\* The same, with the directories unchanged as well.
LEMMA StillQuiet ==
    ASSUME Inv, NEW o \in Operations, NEW n, Follows(n, op[o]), Moves(o, n),
           UNCHANGED <<candidateVars, phaseVars>>
    PROVE  Inv'
<1>1. /\ directory' \in [Attempts -> {"absent", "empty", "other", "bundle"}]
      /\ \A a \in Attempts : record[a] = "completed" => directory'[a] = directory[a]
  BY DEF Inv, Types, candidateVars
<1> QED
  BY <1>1, Quiet DEF candidateVars

\* An operation that is admitted, refused or gone starts without claims.
LEMMA FreshFollows ==
    ASSUME NEW m \in Memory, NEW pc \in {"refused", "idle", "gone"}
    PROVE  Follows(Fresh(pc), m)
<1>1. Fresh(pc) \in Memory
  BY DEF Fresh, Memory, Pcs, Refusals, Classes
<1>2. /\ ControlSound(Fresh(pc)) /\ KeepsClaim(Fresh(pc), m)
      /\ Fresh(pc).settled = 0
  BY DEF Fresh, ControlSound, KeepsClaim, Holds, CandidatePcs, CloseoutPcs
<1> QED
  BY <1>1, <1>2 DEF Follows

\* A refused activation keeps nothing (admission.rs).
LEMMA RefusedFollows ==
    ASSUME NEW m \in Memory, NEW why \in Refusals, NEW at \in 0..N
    PROVE  Follows(Refused(why, at), m)
<1> DEFINE n == Refused(why, at)
<1>1. n \in Memory
  <2>1. Fresh("refused") \in Memory
    BY DEF Fresh, Memory, Pcs, Refusals, Classes
  <2>2. at \in 0..(N + R + 4)
    OBVIOUS
  <2>3. n = [Fresh("refused") EXCEPT !.refusal = why, !.at = at]
    BY DEF Refused
  <2> HIDE DEF n
  <2> QED
    BY <2>1, <2>2, <2>3, Zenon DEF Memory
<1>2. /\ n.pc = "refused" /\ ~n.started /\ n.pending = "none"
      /\ n.next = 1 /\ n.settled = 0
  BY DEF Refused, Fresh
<1>3. ControlSound(n) /\ KeepsClaim(n, m) /\ n.settled \in {0, m.settled}
  BY <1>2 DEF ControlSound, KeepsClaim, Holds, CandidatePcs, CloseoutPcs
<1> QED
  BY <1>1, <1>3 DEF Follows

\* An owner that terminates holds what it held (active.rs).
LEMMA StopFollows ==
    ASSUME NEW m \in Memory, ControlSound(m)
    PROVE  Follows(Stop(m), m)
<1> DEFINE n == Stop(m)
<1>1. n \in Memory
  BY Zenon DEF Stop, Memory, Pcs
<1>2. /\ n.pc = "idle" /\ n.terminal
      /\ n.next = m.next /\ n.settled = m.settled
      /\ n.started = m.started /\ n.pending = m.pending
  BY DEF Stop, Memory
<1> HIDE DEF n
<1>3. ControlSound(n) /\ KeepsClaim(n, m) /\ n.settled \in {0, m.settled}
  BY <1>2 DEF ControlSound, KeepsClaim, Holds, CandidatePcs, CloseoutPcs
<1> QED
  BY <1>1, <1>3 DEF Follows, n

-----------------------------------------------------------------------------
(* Activation, runs and publication.                                       *)

\* Admission reads and decides; it writes nothing.
LEMMA ActivationStep ==
    ASSUME Inv, NEW o \in Operations,
           \/ ReadAdmission(o) \/ RequireClearStaging(o) \/ ScanAttempt(o)
           \/ RefuseActivation(o)
    PROVE  Inv'
<1> DEFINE m == op[o]
<1>m. m \in Memory /\ ControlSound(m)
  BY DEF Inv, Types
<1>0. /\ 0 \in 0..N /\ 1 \in Attempts /\ 1 \in 0..(N + R + 4)
      /\ "UnexpectedStaging" \in Refusals /\ "unavailable" \in Refusals
  <2>1. 0 \in 0..N /\ 1 \in Attempts /\ 1 \in 0..(N + R + 4)
    OBVIOUS
  <2> QED
    BY <2>1 DEF Refusals
<1>1. CASE ReadAdmission(o)
  <2> DEFINE c == [a \in Attempts |-> StoreClass(a)]
             n == [m EXCEPT !.pc = "staging", !.classes = c]
  <2>1. c \in [Attempts -> Classes]
    BY DEF StoreClass, Classes
  <2> HIDE DEF c
  <2>2. /\ n \in Memory /\ n.pc = "staging"
        /\ n.next = m.next /\ n.settled = m.settled /\ n.terminal = m.terminal
        /\ n.started = m.started /\ n.pending = m.pending
    BY <1>m, <2>1, Zenon DEF Memory, Pcs
  <2>3. Moves(o, n)
    BY <1>1, Zenon DEF ReadAdmission, Moves, c
  <2> HIDE DEF n
  <2>4. Follows(n, m)
    BY <1>m, <2>2, Zenon
       DEF Follows, KeepsClaim, ControlSound, Holds, CandidatePcs, CloseoutPcs
  <2> QED
    BY <1>1, <2>3, <2>4, StillQuiet DEF ReadAdmission
<1>2. CASE RequireClearStaging(o)
  <2> DEFINE n == [m EXCEPT !.pc = "scan", !.at = 1]
             x == Refused("UnexpectedStaging", 0)
  <2>1. /\ n \in Memory /\ n.pc = "scan" /\ n.at = 1
        /\ n.next = m.next /\ n.settled = m.settled /\ n.terminal = m.terminal
        /\ n.started = m.started /\ n.pending = m.pending
    BY <1>0, <1>m, Zenon DEF Memory, Pcs
  <2>2. Moves(o, n) \/ Moves(o, x)
    BY <1>2, Zenon DEF RequireClearStaging, Moves
  <2> HIDE DEF n
  <2>3. Follows(n, m)
    BY <1>0, <1>m, <2>1
       DEF Follows, KeepsClaim, ControlSound, Holds, CandidatePcs, CloseoutPcs
  <2>4. Follows(x, m)
    BY <1>0, <1>m, RefusedFollows
  <2> QED
    BY <1>2, <2>2, <2>3, <2>4, StillQuiet DEF RequireClearStaging
<1>3. CASE ScanAttempt(o)
  <2> DEFINE a == m.at
             why == DecideAttempt(m.classes[a], directory[a])
             n == [m EXCEPT !.at = a + 1]
             x == Refused(why, a)
  <2>1. a \in Attempts /\ m.pc = "scan"
    BY <1>3, <1>m DEF ScanAttempt, ControlSound
  <2>2. why \in Refusals
    BY DEF DecideAttempt, Refusals
  <2>3. \/ Moves(o, x)
        \/ Moves(o, Fresh("idle"))
        \/ Moves(o, n) /\ a # N
    BY <1>3, Zenon DEF ScanAttempt, Moves
  <2>4. Follows(x, m)
    <3>1. a \in 0..N
      BY <2>1
    <3> QED
      BY <1>m, <2>2, <3>1, RefusedFollows
  <2>5. Follows(Fresh("idle"), m)
    BY <1>m, FreshFollows
  <2>6. ASSUME a # N PROVE Follows(n, m)
    <3>1. a + 1 \in Attempts /\ a + 1 \in 0..(N + R + 4)
      BY <2>1, <2>6
    <3>2. /\ n \in Memory /\ n.pc = "scan" /\ n.at = a + 1
          /\ n.next = m.next /\ n.settled = m.settled /\ n.terminal = m.terminal
          /\ n.started = m.started /\ n.pending = m.pending
      BY <1>m, <2>1, <3>1, Zenon DEF Memory
    <3> HIDE DEF n
    <3> QED
      BY <1>m, <3>1, <3>2, Zenon
         DEF Follows, KeepsClaim, ControlSound, Holds, CandidatePcs, CloseoutPcs
  <2> QED
    BY <1>3, <2>3, <2>4, <2>5, <2>6, StillQuiet DEF ScanAttempt
<1>4. CASE RefuseActivation(o)
  <2>1. Moves(o, Refused("unavailable", 0))
    BY <1>4 DEF RefuseActivation, Moves
  <2>2. Follows(Refused("unavailable", 0), m)
    BY <1>0, <1>m, RefusedFollows
  <2> QED
    BY <1>4, <2>1, <2>2, StillQuiet DEF RefuseActivation
<1> QED
  BY <1>1, <1>2, <1>3, <1>4

\* A step of the control within the run, or within the closeout, of the held
\* attempt, or back to idle.
LEMMA ControlFollows ==
    ASSUME NEW m \in Memory, ControlSound(m),
           NEW pc \in {"idle", "persistFailed"} \cup CloseoutPcs,
           pc = "persistFailed" => m.pc \in CandidatePcs,
           pc \in CloseoutPcs => m.pc \in CloseoutPcs
    PROVE  Follows([m EXCEPT !.pc = pc], m)
<1> DEFINE n == [m EXCEPT !.pc = pc]
<1>1. pc \in Pcs
  BY DEF Pcs, CandidatePcs
<1>2. /\ n \in Memory /\ n.pc = pc
      /\ n.next = m.next /\ n.settled = m.settled /\ n.terminal = m.terminal
      /\ n.started = m.started /\ n.pending = m.pending
  BY <1>1, Zenon DEF Memory
<1> HIDE DEF n
<1>3. ControlSound(n)
  BY <1>2 DEF ControlSound, Holds, CandidatePcs, CloseoutPcs
<1>4. KeepsClaim(n, m)
  BY <1>2 DEF KeepsClaim, Holds, CloseoutPcs
<1> QED
  BY <1>2, <1>3, <1>4 DEF Follows, n

\* The steps of a run that write no row of the attempt.
LEMMA RunStep ==
    ASSUME Inv, NEW o \in Operations,
           \/ CheckpointReplay(o) \/ DropRun(o) \/ RunError(o) \/ RunCompleted(o)
           \/ RunFailed(o) \/ VerifyCloseout(o)
    PROVE  Inv'
<1> DEFINE m == op[o]
<1>m. m \in Memory /\ ControlSound(m)
  BY DEF Inv, Types
<1>s. Follows(Stop(m), m)
  BY <1>m, StopFollows
<1>1. CASE CheckpointReplay(o)
  <2>1. Moves(o, Stop(m))
    BY <1>1 DEF CheckpointReplay, Moves
  <2> QED
    BY <1>1, <1>s, <2>1, StillQuiet DEF CheckpointReplay
<1>2. CASE DropRun(o)
  <2>1. Moves(o, [m EXCEPT !.pc = "idle"])
    BY <1>2 DEF DropRun, Moves
  <2>2. Follows([m EXCEPT !.pc = "idle"], m)
    BY <1>m, ControlFollows, Zenon DEF CloseoutPcs
  <2> QED
    BY <1>2, <2>1, <2>2, StillQuiet DEF DropRun
<1>3. CASE RunError(o)
  <2>1. Moves(o, Stop(m))
    BY <1>3 DEF RunError, Moves
  <2> QED
    BY <1>3, <1>s, <2>1, StillQuiet DEF RunError
<1>4. CASE RunCompleted(o)
  <2> DEFINE n == [m EXCEPT !.pc = "idle", !.started = FALSE, !.pending = "full"]
  <2>1. Moves(o, n)
    BY <1>4, Zenon DEF RunCompleted, Moves
  <2>2. /\ n \in Memory /\ n.pc = "idle" /\ ~n.started /\ n.pending = "full"
        /\ n.next = m.next /\ n.settled = m.settled /\ n.terminal = m.terminal
    BY <1>m, Zenon DEF Memory, Pcs
  <2> HIDE DEF n
  <2>3. m.pc = "sent" /\ m.started
    BY <1>4, <1>m DEF RunCompleted, ControlSound, CandidatePcs
  <2>4. Follows(n, m)
    BY <1>m, <2>2, <2>3
       DEF Follows, ControlSound, KeepsClaim, Holds, CandidatePcs, CloseoutPcs
  <2> QED
    BY <1>4, <2>1, <2>4, StillQuiet DEF RunCompleted
<1>5. CASE RunFailed(o)
  <2>1. Moves(o, [m EXCEPT !.pc = "persistFailed"]) /\ m.pc \in CandidatePcs
    BY <1>5 DEF RunFailed, Moves, CandidatePcs
  <2>2. Follows([m EXCEPT !.pc = "persistFailed"], m)
    BY <1>m, <2>1, ControlFollows, Zenon DEF CloseoutPcs
  <2> QED
    BY <1>5, <2>1, <2>2, StillQuiet DEF RunFailed
<1>6. CASE VerifyCloseout(o)
  <2>1. Moves(o, [m EXCEPT !.pc = "persistCompleted"])
    BY <1>6 DEF VerifyCloseout, Moves
  <2>2. Follows([m EXCEPT !.pc = "persistCompleted"], m)
    BY <1>6, <1>m, ControlFollows, Zenon DEF CloseoutPcs, VerifyCloseout
  <2> QED
    BY <1>6, <2>1, <2>2, StillQuiet DEF VerifyCloseout
<1> QED
  BY <1>1, <1>2, <1>3, <1>4, <1>5, <1>6

\* Publication writes only the directory of the held, unsettled attempt.
LEMMA PublicationStep ==
    ASSUME Inv, NEW o \in Operations,
           \/ BeginCloseout(o) \/ CreateParent(o) \/ StageTree(o) \/ PublishTree(o)
           \/ RemoveProbe(o) \/ CloseoutError(o)
    PROVE  Inv'
<1> DEFINE m == op[o]
<1>m. m \in Memory /\ ControlSound(m)
  BY DEF Inv, Types
<1>1. CASE BeginCloseout(o)
  <2> DEFINE n(matches) ==
          [m EXCEPT !.pc = IF matches THEN "parent" ELSE "failCloseout",
                    !.pending = IF matches THEN "taken" ELSE m.pending]
  <2>1. PICK matches \in BOOLEAN : Moves(o, n(matches))
    BY <1>1, ZenonT(60) DEF BeginCloseout, Moves
  <2> DEFINE k == n(matches)
  <2>2. /\ k \in Memory /\ k.pc \in {"parent", "failCloseout"}
        /\ k.started = m.started /\ k.pending # "none"
        /\ k.next = m.next /\ k.settled = m.settled /\ k.terminal = m.terminal
    <3>1. m.pending = "full"
      BY <1>1 DEF BeginCloseout
    <3>2. CASE matches
      BY <1>m, <3>1, <3>2, Zenon DEF Memory, Pcs, CloseoutPcs
    <3>3. CASE ~matches
      BY <1>m, <3>1, <3>3, Zenon DEF Memory, Pcs, CloseoutPcs
    <3> QED
      BY <3>2, <3>3
  <2> HIDE DEF k
  <2>3. m.pending = "full" /\ ~m.terminal
    BY <1>1 DEF BeginCloseout
  <2>4. Follows(k, m)
    BY <1>m, <2>2, <2>3, Zenon
       DEF Follows, ControlSound, KeepsClaim, Holds, CandidatePcs, CloseoutPcs
  <2> QED
    BY <1>1, <2>1, <2>4, StillQuiet DEF BeginCloseout, k
<1>2. ASSUME m.pc \in CloseoutPcs,
             NEW pc \in CloseoutPcs, Moves(o, [m EXCEPT !.pc = pc]),
             UNCHANGED <<precursors, record, sent, phaseVars>>,
             \/ UNCHANGED directory
             \/ \E d \in {"empty", "other", "bundle", directory[m.next]} :
                    directory' = [directory EXCEPT ![m.next] = d]
      PROVE  Inv'
  <2>1. Follows([m EXCEPT !.pc = pc], m)
    BY <1>m, <1>2, ControlFollows, Zenon DEF CloseoutPcs
  <2>2. m.next \in Attempts /\ record[m.next] = "none"
    BY <1>m, <1>2 DEF ControlSound, Holds, Inv, ClaimSound
  <2>3. directory \in [Attempts -> {"absent", "empty", "other", "bundle"}]
    BY DEF Inv, Types
  <2>4. directory' \in [Attempts -> {"absent", "empty", "other", "bundle"}]
    BY <1>2, <2>2, <2>3
  <2>5. \A a \in Attempts : record[a] = "completed" => directory'[a] = directory[a]
    BY <1>2, <2>2, <2>3
  <2> QED
    BY <1>2, <2>1, <2>4, <2>5, Quiet
<1>3. CASE CreateParent(o)
  <2>1. Moves(o, [m EXCEPT !.pc = "probeStage"])
    BY <1>3 DEF CreateParent, Moves
  <2>2. \E d \in {"empty", "other", "bundle", directory[m.next]} :
            directory' = [directory EXCEPT ![m.next] = d]
    BY <1>3, Zenon DEF CreateParent
  <2> QED
    BY <1>2, <1>3, <2>1, <2>2, Zenon DEF CreateParent, CloseoutPcs
<1>4. CASE StageTree(o)
  <2>1. \E pc \in {"publish", "probe"} : Moves(o, [m EXCEPT !.pc = pc])
    BY <1>4, Zenon DEF StageTree, Moves
  <2> QED
    BY <1>2, <1>4, <2>1 DEF StageTree, CloseoutPcs
<1>5. CASE PublishTree(o)
  <2>1. \E pc \in {"verify", "probeRemove"} : Moves(o, [m EXCEPT !.pc = pc])
    BY <1>5, Zenon DEF PublishTree, Moves
  <2>2. \E d \in {"empty", "other", "bundle", directory[m.next]} :
            directory' = [directory EXCEPT ![m.next] = d]
    BY <1>5, Zenon DEF PublishTree
  <2> QED
    BY <1>2, <1>5, <2>1, <2>2, Zenon DEF PublishTree, CloseoutPcs
<1>6. CASE RemoveProbe(o)
  <2>1. Moves(o, [m EXCEPT !.pc = "stage"])
    BY <1>6 DEF RemoveProbe, Moves
  <2>2. \E d \in {"empty", "other", "bundle", directory[m.next]} :
            directory' = [directory EXCEPT ![m.next] = d]
    BY <1>6 DEF RemoveProbe
  <2> QED
    BY <1>2, <1>6, <2>1, <2>2 DEF RemoveProbe, CloseoutPcs
<1>7. CASE CloseoutError(o)
  <2>1. Moves(o, [m EXCEPT !.pc = "failCloseout"])
    BY <1>7 DEF CloseoutError, Moves
  <2> QED
    BY <1>2, <1>7, <2>1 DEF CloseoutError, CloseoutPcs
<1> QED
  BY <1>1, <1>3, <1>4, <1>5, <1>6, <1>7

-----------------------------------------------------------------------------
(* The steps that write the rows of an attempt: its checkpoint, its request *)
(* and its record.                                                         *)
(*                                                                         *)
(* The first checkpoint is accepted from one operation only, so only one   *)
(* ever holds attempts (OwnerClaimed); every row of an attempt is then     *)
(* written by its owner, and the others, which hold nothing, are           *)
(* indifferent to it (OthersIndifferent).                                  *)

\* Whoever owns attempts of the plan has checkpointed the first one.
LEMMA OwnerClaimed ==
    ASSUME Inv, NEW p \in Operations, Owns(p)
    PROVE  1 \in precursors
<1>m. op[p] \in Memory /\ ControlSound(op[p]) /\ ClaimSound(op[p])
  BY DEF Inv, Types
<1>1. op[p].next \in 1..(N + 1)
  BY <1>m DEF Memory
<1>2. CASE op[p].next > 1
  <2>1. 1 \in Attempts /\ 1 < op[p].next
    BY <1>1, <1>2
  <2>2. record[1] # "none"
    BY <1>m, <2>1 DEF ClaimSound
  <2> QED
    BY <2>1, <2>2 DEF Inv, RowsSound
<1>3. CASE ~(op[p].next > 1)
  <2>1. op[p].next = 1 /\ Holds(op[p])
    BY <1>1, <1>3 DEF Owns, Holds
  <2> QED
    BY <1>m, <2>1 DEF ClaimSound
<1> QED
  BY <1>2, <1>3

\* The checkpoint decides who owns the plan.
LEMMA CheckpointStep ==
    ASSUME Inv, NEW o \in Operations, Checkpoint(o)
    PROVE  Inv'
<1> DEFINE m == op[o]
           n == [m EXCEPT !.pc = "running", !.started = TRUE]
<1>m. m \in Memory /\ ControlSound(m) /\ ClaimSound(m)
  BY DEF Inv, Types
<1>1. /\ m.pc = "idle" /\ ~m.terminal /\ ~m.started /\ m.pending = "none"
      /\ m.next \in Attempts /\ m.next \notin precursors
      /\ precursors' = precursors \cup {m.next}
      /\ UNCHANGED <<record, directory, sent, phaseVars>>
  BY DEF Checkpoint, MayRunCandidate
<1>2. op' = op \/ Moves(o, n)
  BY Zenon DEF Checkpoint, Moves
<1>3. /\ n \in Memory /\ n.pc = "running" /\ n.started /\ n.pending = "none"
      /\ n.next = m.next /\ n.settled = m.settled /\ ~n.terminal
  BY <1>m, <1>1, Zenon DEF Memory, Pcs, CandidatePcs
<1> HIDE DEF n
<1>4. /\ op' \in [Operations -> Memory]
      /\ op'[o] = m \/ op'[o] = n
      /\ \A p \in Operations \ {o} : op'[p] = op[p]
  BY <1>2, <1>3, MoveType, Zenon DEF Inv, Types
<1>5. \A p \in Operations \ {o} : ~Owns(p)
  <2>1. SUFFICES ASSUME NEW p \in Operations \ {o}, Owns(p) PROVE FALSE
    OBVIOUS
  <2>2. 1 \in precursors
    BY <2>1, OwnerClaimed
  <2>3. ~Owns(o)
    BY <2>1 DEF Inv, OneOwner
  <2>4. m.next \in 1..(N + 1)
    BY <1>m DEF Memory
  <2>5. m.next = 1
    BY <2>3, <2>4 DEF Owns
  <2> QED
    BY <1>1, <2>2, <2>5
<1>6. Types'
  BY <1>1, <1>4, Zenon DEF Inv, Types, phaseVars
<1>7. \A p \in Operations : ControlSound(op[p])'
  <2>1. ControlSound(n)
    BY <1>1, <1>3 DEF ControlSound, Holds, CandidatePcs, CloseoutPcs
  <2>2. \A p \in Operations : ControlSound(op'[p])
    BY <1>m, <1>4, <2>1, Zenon DEF Inv
  <2> QED
    BY <2>2, Zenon DEF ControlSound, Holds
<1>8. RowsSound'
  BY <1>1 DEF Inv, RowsSound, Types
<1>9. \A p \in Operations : ClaimSound(op[p])'
  <2>1. sent[m.next] = 0 /\ record[m.next] = "none"
    BY <1>1 DEF Inv, RowsSound
  <2>2. ClaimSound(op[o])'
    BY <1>m, <1>1, <1>3, <1>4, <2>1 DEF ClaimSound, Holds
  <2>3. ASSUME NEW p \in Operations \ {o} PROVE ClaimSound(op[p])'
    <3>1. ClaimSound(op[p]) /\ op'[p] = op[p]
      BY <1>4 DEF Inv
    <3> QED
      BY <1>1, <3>1 DEF ClaimSound, Holds
  <2> QED
    BY <2>2, <2>3
<1>10. OneOwner'
  BY <1>4, <1>5 DEF OneOwner, Owns
<1>11. PhasesSound'
  <2>1. \A p \in Operations : op'[p].settled = op[p].settled
    BY <1>3, <1>4
  <2> QED
    BY <1>1, <2>1 DEF Inv, PhasesSound, phaseVars
<1> QED
  BY <1>6, <1>7, <1>8, <1>9, <1>10, <1>11 DEF Inv

\* When one operation owns attempts, the claims of the others are empty.
LEMMA OthersIndifferent ==
    ASSUME Inv, NEW o \in Operations, Owns(o), NEW n \in Memory, Moves(o, n)
    PROVE  /\ \A p \in Operations \ {o} : ClaimSound(op[p])' /\ ~Owns(p)'
           /\ OneOwner'
<1>1. \A p \in Operations \ {o} : op'[p] = op[p]
  BY MoveType DEF Inv
<1>2. ASSUME NEW p \in Operations \ {o}
      PROVE  ClaimSound(op[p])' /\ ~Owns(p)'
  <2>1. ~Owns(p)
    BY DEF Inv, OneOwner
  <2>2. op[p] \in Memory /\ ControlSound(op[p])
    BY DEF Inv, Types
  <2>3. ~Holds(op[p]) /\ op[p].next = 1
    <3>1. op[p].next \in 1..(N + 1)
      BY <2>2, Zenon DEF Memory
    <3> QED
      BY <2>1, <3>1 DEF Owns, Holds
  <2>4. op[p].pc # "running" /\ op[p].pc # "sent" /\ op[p].pending = "none"
    BY <2>2, <2>3 DEF ControlSound, Holds, CandidatePcs
  <2> QED
    BY <1>1, <2>1, <2>3, <2>4 DEF ClaimSound, Holds, Owns
<1> QED
  BY <1>2 DEF OneOwner

\* A running owner sends the attempt it checkpointed, for the first time.
LEMMA SendStep ==
    ASSUME Inv, NEW o \in Operations, SendCandidate(o)
    PROVE  Inv'
<1> DEFINE m == op[o]
           n == [m EXCEPT !.pc = "sent"]
<1>m. m \in Memory /\ ControlSound(m) /\ ClaimSound(m)
  BY DEF Inv, Types
<1>1. /\ m.pc = "running"
      /\ sent' = [sent EXCEPT ![m.next] = sent[m.next] + 1]
      /\ UNCHANGED <<precursors, record, directory, phaseVars>>
  BY DEF SendCandidate
<1>2. Moves(o, n)
  BY DEF SendCandidate, Moves
<1>3. /\ m.started /\ ~m.terminal /\ m.next \in Attempts
      /\ m.next \in precursors /\ record[m.next] = "none" /\ sent[m.next] = 0
  <2>1. m.started /\ ~m.terminal
    BY <1>m, <1>1 DEF ControlSound, CandidatePcs
  <2>2. Holds(m) /\ m.next \in Attempts
    BY <1>m, <2>1 DEF ControlSound, Holds
  <2> QED
    BY <1>m, <1>1, <2>1, <2>2 DEF ClaimSound
<1>4. /\ n \in Memory /\ n.pc = "sent" /\ n.started /\ n.pending = m.pending
      /\ n.next = m.next /\ n.settled = m.settled /\ ~n.terminal
  <2>1. /\ n \in Memory /\ n.pc = "sent" /\ n.started = m.started
        /\ n.pending = m.pending /\ n.next = m.next /\ n.settled = m.settled
        /\ n.terminal = m.terminal
    BY <1>m, Zenon DEF Memory, Pcs, CandidatePcs
  <2> QED
    BY <1>3, <2>1
<1> HIDE DEF n
<1>5. /\ op' \in [Operations -> Memory] /\ op'[o] = n
      /\ \A p \in Operations \ {o} : op'[p] = op[p]
  BY <1>2, <1>4, MoveType DEF Inv
<1>6. sent \in [Attempts -> Nat] /\ sent' \in [Attempts -> Nat] /\ sent'[m.next] = 1
  BY <1>1, <1>3 DEF Inv, Types
<1>7. Types'
  BY <1>1, <1>5, <1>6, Zenon DEF Inv, Types, phaseVars
<1>8. \A p \in Operations : ControlSound(op[p])'
  <2>1. ControlSound(n)
    BY <1>3, <1>4 DEF ControlSound, Holds, CandidatePcs, CloseoutPcs
  <2>2. ASSUME NEW p \in Operations PROVE ControlSound(op[p])'
    <3>1. PICK k : op'[p] = k /\ ControlSound(k)
      BY <1>5, <2>1, Zenon DEF Inv
    <3> QED
      BY <3>1, Zenon DEF ControlSound, Holds
  <2> QED
    BY <2>2, Zenon
<1>9. RowsSound'
  BY <1>1, <1>3, <1>6 DEF Inv, RowsSound
<1>10. ClaimSound(op[o])'
  BY <1>m, <1>1, <1>3, <1>4, <1>5, <1>6, Zenon DEF ClaimSound, Holds
<1>11. \A p \in Operations : ClaimSound(op[p])'
  BY <1>2, <1>3, <1>4, <1>10, OthersIndifferent, Zenon DEF Owns
<1>12. OneOwner'
  BY <1>2, <1>3, <1>4, OthersIndifferent DEF Owns
<1>13. PhasesSound'
  BY <1>1, <1>2, <1>4, QuietPhases
<1> QED
  BY <1>7, <1>8, <1>9, <1>11, <1>12, <1>13 DEF Inv

\* The held attempt is settled in memory, or the owner stops with it.
Settles(n, m, outcome) ==
    \/ /\ n.next = m.next + 1 /\ ~n.started /\ n.pending = "none"
       /\ n.terminal = (outcome = "failed")
    \/ /\ n.next = m.next /\ n.terminal
       /\ n.started = m.started /\ n.pending = m.pending

\* The record of a held attempt becomes durable.
LEMMA RecordStep ==
    ASSUME Inv, NEW o \in Operations, Holds(op[o]), ~op[o].terminal,
           NEW outcome \in {"failed", "completed"},
           outcome = "completed" =>
               directory[op[o].next] = "bundle" /\ sent[op[o].next] = 1,
           record' = [record EXCEPT ![op[o].next] = outcome],
           UNCHANGED <<precursors, directory, sent, phaseVars>>,
           NEW n \in Memory, Moves(o, n), n.pc = "idle", n.settled = op[o].settled,
           Settles(n, op[o], outcome)
    PROVE  Inv'
<1> DEFINE m == op[o]
<1>m. m \in Memory /\ ControlSound(m) /\ ClaimSound(m)
  BY DEF Inv, Types
<1>1. /\ m.next \in Attempts /\ m.next \in precursors /\ record[m.next] = "none"
      /\ m.pending # "none" => sent[m.next] = 1
  BY <1>m, Zenon DEF ControlSound, ClaimSound
<1>2. /\ op' \in [Operations -> Memory] /\ op'[o] = n
      /\ \A p \in Operations \ {o} : op'[p] = op[p]
  BY MoveType DEF Inv
<1>3. /\ record \in [Attempts -> {"none", "failed", "completed"}]
      /\ record' \in [Attempts -> {"none", "failed", "completed"}]
      /\ record'[m.next] = outcome
      /\ \A a \in Attempts \ {m.next} : record'[a] = record[a]
  BY <1>1 DEF Inv, Types
<1>4. Types'
  BY <1>2, <1>3, Zenon DEF Inv, Types, phaseVars
<1>5. \A p \in Operations : ControlSound(op[p])'
  <2>1. ControlSound(n)
    BY <1>1 DEF Settles, ControlSound, Holds, CandidatePcs, CloseoutPcs
  <2>2. \A p \in Operations : ControlSound(op'[p])
    BY <1>2, <2>1, Zenon DEF Inv
  <2> QED
    BY <2>2, Zenon DEF ControlSound, Holds
<1>6. RowsSound'
  BY <1>1, <1>3 DEF Inv, RowsSound
<1>7. ClaimSound(op[o])'
  <2>1. \A a \in Attempts : a < m.next =>
            record[a] # "none" /\ record[a] # "failed"
    BY <1>m DEF ClaimSound
  <2>2. CASE n.next = m.next + 1 /\ ~n.started /\ n.pending = "none"
             /\ n.terminal = (outcome = "failed")
    <3>1. \A a \in Attempts : a < n.next => a < m.next \/ a = m.next
      BY <1>1, <2>2
    <3>2. \A a \in Attempts : a < n.next =>
              record'[a] # "none" /\ (record'[a] = "failed" => n.terminal)
      BY <1>1, <1>3, <2>1, <2>2, <3>1, Zenon
    <3> QED
      BY <1>2, <2>2, <3>2 DEF ClaimSound, Holds
  <2>3. CASE n.next = m.next /\ n.terminal
             /\ n.started = m.started /\ n.pending = m.pending
    <3>1. \A a \in Attempts : a < n.next => record'[a] # "none"
      BY <1>1, <1>3, <2>1, <2>3, Zenon
    <3> QED
      BY <1>1, <1>2, <2>3, <3>1 DEF ClaimSound, Holds
  <2> QED
    BY <2>2, <2>3 DEF Settles
<1>8. Owns(o)
  BY DEF Owns, Holds
<1>9. OneOwner' /\ \A p \in Operations : ClaimSound(op[p])'
  BY <1>7, <1>8, OthersIndifferent, Zenon
<1>10. PhasesSound'
  BY <1>1, <1>3, QuietPhases, Zenon
<1> QED
  BY <1>4, <1>5, <1>6, <1>9, <1>10, Zenon DEF Inv

\* What Settle makes of a memory.
LEMMA SettleFields ==
    ASSUME NEW m \in Memory, m.next \in Attempts,
           NEW outcome \in {"failed", "completed"}
    PROVE  /\ Settle(m, outcome) \in Memory
           /\ Settle(m, outcome).pc = "idle"
           /\ Settle(m, outcome).settled = m.settled
           /\ Settles(Settle(m, outcome), m, outcome)
<1> DEFINE recs == IF m.next \in Targets THEN Append(m.records, outcome)
                   ELSE m.records
           n == [m EXCEPT !.pc = "idle", !.next = m.next + 1, !.started = FALSE,
                          !.pending = "none", !.records = recs,
                          !.terminal = (outcome = "failed")]
<1>1. recs \in Seq({"failed", "completed"})
  BY DEF Memory
<1>2. m.next + 1 \in 1..(N + 1) /\ (outcome = "failed") \in BOOLEAN
  OBVIOUS
<1>3. Settle(m, outcome) = n
  BY DEF Settle
<1> HIDE DEF recs
<1>4. n \in Memory
  BY <1>1, <1>2, ZenonT(60) DEF Memory, Pcs
<1>5. /\ n.pc = "idle" /\ n.settled = m.settled /\ n.next = m.next + 1
      /\ ~n.started /\ n.pending = "none" /\ n.terminal = (outcome = "failed")
  BY DEF Memory
<1> QED
  BY <1>3, <1>4, <1>5 DEF Settles

\* An owner that stops after the commit keeps the attempt and is terminal.
LEMMA StopSettles ==
    ASSUME NEW m \in Memory, NEW outcome
    PROVE  /\ Stop(m) \in Memory /\ Stop(m).pc = "idle"
           /\ Stop(m).settled = m.settled /\ Settles(Stop(m), m, outcome)
  BY Zenon DEF Stop, Memory, Pcs, Settles

\* The three transactions that settle an attempt (outcome.rs:101,
\* candidate_closeout.rs:155 and 246).
LEMMA OutcomeStep ==
    ASSUME Inv, NEW o \in Operations,
           PersistFailedCandidate(o) \/ PersistCompleted(o) \/ FailCloseout(o)
    PROVE  Inv'
<1> DEFINE m == op[o]
<1>m. m \in Memory /\ ControlSound(m) /\ ClaimSound(m)
  BY DEF Inv, Types
<1>1. Holds(m) /\ ~m.terminal
  BY <1>m DEF PersistFailedCandidate, PersistCompleted, FailCloseout,
              ControlSound, Holds, CandidatePcs, CloseoutPcs
<1>2. m.next \in Attempts
  BY <1>m, <1>1 DEF ControlSound
<1>3. ASSUME record' = record, Moves(o, Stop(m)),
             UNCHANGED <<precursors, directory, staging, sent, phaseVars>>
      PROVE  Inv'
  BY <1>m, <1>3, StopFollows, StillQuiet DEF candidateVars
<1>4. CASE PersistFailedCandidate(o)
  <2>1. UNCHANGED <<precursors, directory, staging, sent, phaseVars>>
    BY <1>4 DEF PersistFailedCandidate
  <2>2. PICK ok \in BOOLEAN :
          \/ ~ok /\ record' = record /\ Moves(o, Stop(m))
          \/ /\ record' = [record EXCEPT ![m.next] = "failed"]
             /\ Moves(o, IF ok THEN Settle(m, "failed") ELSE Stop(m))
    BY <1>4, Zenon DEF PersistFailedCandidate, Moves
  <2>3. CASE record' = record /\ Moves(o, Stop(m))
    BY <1>3, <2>1, <2>3
  <2>4. CASE record' = [record EXCEPT ![m.next] = "failed"]
             /\ Moves(o, Settle(m, "failed"))
    BY <1>m, <1>1, <1>2, <2>1, <2>4, RecordStep, SettleFields, Zenon
  <2>5. CASE record' = [record EXCEPT ![m.next] = "failed"]
             /\ Moves(o, Stop(m))
    BY <1>m, <1>1, <2>1, <2>5, RecordStep, StopSettles, Zenon
  <2> QED
    BY <2>2, <2>3, <2>4, <2>5
<1>5. CASE PersistCompleted(o)
  <2>1. /\ UNCHANGED <<precursors, directory, staging, sent, phaseVars>>
        /\ sent[m.next] = 1
    BY <1>5, <1>m, Zenon DEF PersistCompleted, ControlSound, ClaimSound, CloseoutPcs
  <2>2. PICK ok \in BOOLEAN :
          \/ ~ok /\ record' = record /\ Moves(o, Stop(m))
          \/ /\ record' = [record EXCEPT ![m.next] = "completed"]
             /\ directory[m.next] = "bundle"
             /\ Moves(o, IF ok THEN Settle(m, "completed") ELSE Stop(m))
    BY <1>5, Zenon DEF PersistCompleted, Moves
  <2>3. CASE record' = record /\ Moves(o, Stop(m))
    BY <1>3, <2>1, <2>3, Zenon
  <2>4. CASE record' = [record EXCEPT ![m.next] = "completed"]
             /\ directory[m.next] = "bundle" /\ Moves(o, Settle(m, "completed"))
    BY <1>m, <1>1, <1>2, <2>1, <2>4, RecordStep, SettleFields, Zenon
  <2>5. CASE record' = [record EXCEPT ![m.next] = "completed"]
             /\ directory[m.next] = "bundle" /\ Moves(o, Stop(m))
    BY <1>m, <1>1, <2>1, <2>5, RecordStep, StopSettles, Zenon
  <2> QED
    BY <2>2, <2>3, <2>4, <2>5
<1>6. CASE FailCloseout(o)
  <2> DEFINE s == Settle(m, "failed")
             n(i) == [s EXCEPT !.interrupted = i]
  <2>1. UNCHANGED <<precursors, directory, staging, sent, phaseVars>>
    BY <1>6 DEF FailCloseout
  <2>2. \/ record' = record /\ Moves(o, Stop(m))
        \/ /\ record' = [record EXCEPT ![m.next] = "failed"]
           /\ \/ \E i \in BOOLEAN : Moves(o, n(i))
              \/ Moves(o, Stop(m))
    <3>1. PICK committed \in BOOLEAN, ok \in BOOLEAN, compiled \in BOOLEAN :
             /\ ok => committed
             /\ record' = IF committed THEN [record EXCEPT ![m.next] = "failed"]
                          ELSE record
             /\ op' = [op EXCEPT ![o] =
                         IF ok THEN n(compiled /\ DeriveStatus(s) # "passed")
                         ELSE Stop(m)]
      BY <1>6, Zenon DEF FailCloseout
    <3>2. (compiled /\ DeriveStatus(s) # "passed") \in BOOLEAN
      OBVIOUS
    <3> HIDE DEF n, s
    <3> QED
      BY <3>1, <3>2, Zenon DEF Moves
  <2>3. CASE record' = record /\ Moves(o, Stop(m))
    BY <1>3, <2>1, <2>3
  <2>4. ASSUME record' = [record EXCEPT ![m.next] = "failed"],
               NEW i \in BOOLEAN, Moves(o, n(i))
        PROVE  Inv'
    <3>1. /\ s \in Memory /\ s.pc = "idle" /\ s.settled = m.settled
          /\ Settles(s, m, "failed")
      BY <1>m, <1>2, SettleFields
    <3> HIDE DEF s
    <3>2. /\ n(i) \in Memory /\ n(i).pc = "idle" /\ n(i).settled = m.settled
          /\ n(i).next = s.next /\ n(i).started = s.started
          /\ n(i).pending = s.pending /\ n(i).terminal = s.terminal
      BY <3>1, Zenon DEF Memory
    <3> HIDE DEF n
    <3>3. Settles(n(i), m, "failed")
      BY <3>1, <3>2 DEF Settles
    <3> QED
      BY <1>m, <1>1, <2>1, <2>4, <3>2, <3>3, RecordStep, Zenon
  <2>5. CASE record' = [record EXCEPT ![m.next] = "failed"]
             /\ Moves(o, Stop(m))
    BY <1>m, <1>1, <2>1, <2>5, RecordStep, StopSettles, Zenon
  <2> QED
    BY <2>2, <2>3, <2>4, <2>5, Zenon
<1> QED
  BY <1>4, <1>5, <1>6

-----------------------------------------------------------------------------
(* The steps after the candidates: ledger, judge, settlements, the         *)
(* publication of the phases and the verdict.                              *)

\* An owner whose attempts are all settled without a failure has them all
\* durably completed.
LEMMA AllCompleted ==
    ASSUME Inv, NEW o \in Operations, op[o].next = N + 1, ~op[o].terminal
    PROVE  \A a \in Attempts : record[a] = "completed"
<1>1. ClaimSound(op[o]) /\ record \in [Attempts -> {"none", "failed", "completed"}]
  BY DEF Inv, Types
<1>2. \A a \in Attempts : a < N + 1
  OBVIOUS
<1> QED
  BY <1>1, <1>2 DEF ClaimSound

\* Ledger, judge and the beginnings of the settlements write no row.
LEMMA JudgeStep ==
    ASSUME Inv, NEW o \in Operations,
           \/ SealLedger(o) \/ Terminate(o) \/ RunJudge(o) \/ JudgeEnds(o)
           \/ (\E r \in Repetitions : BeginDeterministic(o, r))
           \/ BeginRepeatability(o) \/ Crash(o)
    PROVE  Inv'
<1> DEFINE m == op[o]
<1>m. m \in Memory /\ ControlSound(m)
  BY DEF Inv, Types
<1>s. Follows(Stop(m), m)
  BY <1>m, StopFollows
<1>1. CASE SealLedger(o)
  <2> DEFINE d == DeriveStatus(m)
             n == [m EXCEPT !.ledger = d]
  <2>1. Moves(o, n) /\ m.pc = "idle"
    BY <1>1 DEF SealLedger, Moves
  <2>2. d \in {"none", "passed", "failed", "skipped"}
    BY DEF DeriveStatus
  <2> HIDE DEF d
  <2>3. /\ n \in Memory /\ n.pc = m.pc /\ n.started = m.started
        /\ n.pending = m.pending /\ n.next = m.next /\ n.settled = m.settled
        /\ n.terminal = m.terminal
    BY <1>m, <2>2, Zenon DEF Memory
  <2> HIDE DEF n
  <2>4. Follows(n, m)
    BY <1>m, <2>1, <2>3, Zenon
       DEF Follows, ControlSound, KeepsClaim, Holds, CandidatePcs, CloseoutPcs
  <2> QED
    BY <1>1, <2>1, <2>4, StillQuiet DEF SealLedger
<1>2. CASE Terminate(o)
  <2>1. Moves(o, Stop(m))
    BY <1>2 DEF Terminate, Moves
  <2> QED
    BY <1>2, <1>s, <2>1, StillQuiet DEF Terminate
<1>3. CASE RunJudge(o)
  <2> DEFINE n == [m EXCEPT !.pc = "judging"]
  <2>1. Moves(o, n) /\ ~m.terminal /\ m.next > N /\ m.judged < R
    BY <1>3 DEF RunJudge, Moves
  <2>2. /\ n \in Memory /\ n.pc = "judging" /\ n.started = m.started
        /\ n.pending = m.pending /\ n.next = m.next /\ n.settled = m.settled
        /\ n.terminal = m.terminal /\ n.judged = m.judged /\ m.next \in 1..(N + 1)
    BY <1>m, Zenon DEF Memory, Pcs
  <2>3. m.next = N + 1
    BY <2>1, <2>2
  <2> HIDE DEF n
  <2>4. Follows(n, m)
    BY <1>m, <2>1, <2>2, <2>3, Zenon
       DEF Follows, ControlSound, KeepsClaim, Holds, CandidatePcs, CloseoutPcs
  <2> QED
    BY <1>3, <2>1, <2>4, StillQuiet DEF RunJudge
<1>4. CASE JudgeEnds(o)
  <2> DEFINE n == [m EXCEPT !.pc = "idle", !.judged = m.judged + 1]
             k == [m EXCEPT !.pc = "idle"]
  <2>1. \/ Moves(o, n) \/ Moves(o, Stop(m)) \/ Moves(o, k)
    BY <1>4 DEF JudgeEnds, Moves
  <2>2. Follows(k, m)
    BY <1>m, ControlFollows, Zenon DEF CloseoutPcs
  <2>3. Follows(n, m)
    <3>1. m.judged + 1 \in 0..R
      <4>1. m.judged \in 0..R /\ m.judged < R
        BY <1>4, <1>m DEF JudgeEnds, ControlSound, Memory
      <4> QED
        BY <4>1
    <3>2. /\ n \in Memory /\ n.pc = "idle" /\ n.started = m.started
          /\ n.pending = m.pending /\ n.next = m.next /\ n.settled = m.settled
          /\ n.terminal = m.terminal
      BY <1>m, <3>1, Zenon DEF Memory, Pcs
    <3> HIDE DEF n
    <3> QED
      BY <1>m, <3>2, Zenon
         DEF Follows, ControlSound, KeepsClaim, Holds, CandidatePcs, CloseoutPcs
  <2> QED
    BY <1>4, <1>s, <2>1, <2>2, <2>3, StillQuiet DEF JudgeEnds
<1>5. ASSUME NEW r \in Repetitions, BeginDeterministic(o, r)
      PROVE  Inv'
  <2> DEFINE n == [m EXCEPT !.pc = "settling", !.repetition = r, !.at = TargetReceipts]
  <2>1. Moves(o, n) /\ ~m.terminal /\ m.next = N + 1
    BY <1>5, Zenon DEF BeginDeterministic, MaySettle, Moves
  <2>2. TargetReceipts \in 0..(N + R + 4) /\ TargetReceipts \in 1..Evaluated
    BY DEF TargetReceipts, Evaluated
  <2>3. /\ n \in Memory /\ n.pc = "settling" /\ n.started = m.started
        /\ n.pending = m.pending /\ n.next = m.next /\ n.settled = m.settled
        /\ n.terminal = m.terminal /\ n.at = TargetReceipts
    BY <1>m, <2>2, Zenon DEF Memory, Pcs
  <2> HIDE DEF n
  <2>4. Follows(n, m)
    BY <1>m, <2>1, <2>2, <2>3, Zenon
       DEF Follows, ControlSound, KeepsClaim, Holds, CandidatePcs, CloseoutPcs
  <2> QED
    BY <1>5, <2>1, <2>4, StillQuiet, Zenon DEF BeginDeterministic
<1>6. CASE BeginRepeatability(o)
  <2> DEFINE n == [m EXCEPT !.pc = "publishing", !.at = 1]
  <2>1. Moves(o, n) /\ ~m.terminal /\ m.next = N + 1 /\ m.settled = R
    BY <1>6, Zenon DEF BeginRepeatability, AllSettled, MaySettle, Moves
  <2>2. 1 \in 0..(N + R + 4) /\ 1 \in 1..PublishedRows
    BY DEF PublishedRows
  <2>3. /\ n \in Memory /\ n.pc = "publishing" /\ n.started = m.started
        /\ n.pending = m.pending /\ n.next = m.next /\ n.settled = m.settled
        /\ n.terminal = m.terminal /\ n.at = 1
    BY <1>m, <2>2, Zenon DEF Memory, Pcs
  <2> HIDE DEF n
  <2>4. Follows(n, m)
    BY <1>m, <2>1, <2>2, <2>3, Zenon
       DEF Follows, ControlSound, KeepsClaim, Holds, CandidatePcs, CloseoutPcs
  <2> QED
    BY <1>6, <2>1, <2>4, StillQuiet DEF BeginRepeatability
<1>7. CASE Crash(o)
  <2>1. Moves(o, Fresh("gone"))
    BY <1>7 DEF Crash, Moves
  <2> QED
    BY <1>7, <1>m, <2>1, FreshFollows, StillQuiet DEF Crash
<1> QED
  BY <1>1, <1>2, <1>3, <1>4, <1>5, <1>6, <1>7

\* A step that writes rows of the phases only.
LEMMA PhaseMove ==
    ASSUME Inv, NEW o \in Operations, NEW n \in Memory, ControlSound(n),
           KeepsClaim(n, op[o]), Moves(o, n), UNCHANGED candidateVars,
           evidence' \in [Repetitions -> 0..Judged],
           published' \in 0..PublishedRows,
           resource' \in {"none", "passed", "failed"},
           verdict' \in {"none", "qualified", "rejected"},
           PhasesSound'
    PROVE  Inv'
<1>1. UNCHANGED <<precursors, record, directory, sent>>
  BY DEF candidateVars
<1>2. /\ \A p \in Operations : ControlSound(op[p])'
      /\ \A p \in Operations : ClaimSound(op[p])'
      /\ OneOwner'
  BY <1>1, QuietClaims
<1>3. Types'
  <2>1. op' \in [Operations -> Memory]
    BY MoveType DEF Inv
  <2> QED
    BY <1>1, <2>1 DEF Inv, Types
<1>4. RowsSound'
  BY <1>1 DEF Inv, RowsSound
<1> QED
  BY <1>2, <1>3, <1>4 DEF Inv

\* Rows of evidence only grow, over completed attempts.
LEMMA EvidenceGrows ==
    ASSUME Inv, NEW o \in Operations, NEW n \in Memory, Moves(o, n),
           op[o].next = N + 1, ~op[o].terminal,
           NEW r \in Repetitions, NEW row \in 1..Judged,
           \/ evidence' = evidence
           \/ evidence' = [evidence EXCEPT ![r] = Later(evidence[r], row)],
           \A q \in Repetitions :
               q <= n.settled => q <= op[o].settled \/ evidence'[q] = Judged,
           UNCHANGED <<candidateVars, published, resource, verdict>>
    PROVE  evidence' \in [Repetitions -> 0..Judged] /\ PhasesSound'
<1>1. evidence \in [Repetitions -> 0..Judged] /\ Judged \in Nat
  BY DEF Inv, Types, Judged
<1> DEFINE v == Later(evidence[r], row)
<1>2. v \in 0..Judged /\ (evidence[r] = Judged => v = Judged)
  BY <1>1 DEF Later
<1>3. /\ evidence' \in [Repetitions -> 0..Judged]
      /\ \A q \in Repetitions : evidence[q] = Judged => evidence'[q] = Judged
  <2> HIDE DEF v
  <2>1. evidence' = evidence \/ evidence' = [evidence EXCEPT ![r] = v]
    BY DEF v
  <2> QED
    BY <1>1, <1>2, <2>1, Zenon
<1>4. \A a \in Attempts : record'[a] = "completed"
  BY AllCompleted DEF candidateVars
<1>5. /\ op'[o] = n
      /\ \A p \in Operations \ {o} : op'[p] = op[p]
  BY MoveType DEF Inv
<1>6. PhasesSound
  BY Zenon DEF Inv
<1>7. \A p \in Operations : \A q \in Repetitions :
        q <= op'[p].settled => evidence'[q] = Judged
  BY <1>3, <1>5, <1>6 DEF PhasesSound
<1> QED
  BY <1>3, <1>4, <1>6, <1>7, Zenon DEF PhasesSound

\* The deterministic settlement writes its rows over completed attempts.
LEMMA DeterministicStep ==
    ASSUME Inv, NEW o \in Operations, SettleDeterministic(o)
    PROVE  Inv'
<1> DEFINE m == op[o]
           i == [m EXCEPT !.pc = "idle"]
           k == [m EXCEPT !.at = m.at + 1]
<1>m. m \in Memory /\ ControlSound(m)
  BY DEF Inv, Types
<1>1. /\ m.pc = "settling" /\ m.next = N + 1 /\ ~m.terminal
      /\ m.at \in 1..Evaluated /\ m.repetition \in Repetitions
      /\ UNCHANGED <<candidateVars, published, resource, verdict>>
  BY <1>m DEF SettleDeterministic, ControlSound, Memory
<1>2. \/ evidence' = evidence
      \/ evidence' =
             [evidence EXCEPT ![m.repetition] = Later(evidence[m.repetition], m.at)]
  BY DEF SettleDeterministic
<1>3. \/ Moves(o, Stop(m))
      \/ Moves(o, i)
      \/ Moves(o, k) /\ m.at # Evaluated
  BY Zenon DEF SettleDeterministic, Moves
<1>4. m.at \in 1..Judged
  BY <1>1 DEF Evaluated, Judged
<1>5. Follows(Stop(m), m) /\ Stop(m).settled = m.settled
  BY <1>m, StopFollows, StopSettles
<1>6. Follows(i, m) /\ i.settled = m.settled
  <2>1. i.settled = m.settled
    BY <1>m DEF Memory
  <2> QED
    BY <1>m, <2>1, ControlFollows, Zenon DEF CloseoutPcs
<1>7. ASSUME m.at # Evaluated PROVE Follows(k, m) /\ k.settled = m.settled
  <2>1. m.at + 1 \in 1..Evaluated /\ m.at + 1 \in 0..(N + R + 4)
    BY <1>1, <1>7 DEF Evaluated
  <2>2. /\ k \in Memory /\ k.pc = m.pc /\ k.started = m.started
        /\ k.pending = m.pending /\ k.next = m.next /\ k.settled = m.settled
        /\ k.terminal = m.terminal /\ k.at = m.at + 1
    BY <1>m, <2>1, Zenon DEF Memory
  <2> HIDE DEF k
  <2> QED
    BY <1>m, <1>1, <2>1, <2>2, Zenon
       DEF Follows, ControlSound, KeepsClaim, Holds, CandidatePcs, CloseoutPcs
<1> HIDE DEF i, k
<1>8. ASSUME NEW n, Moves(o, n), Follows(n, m), n.settled = m.settled
      PROVE  Inv'
  <2>1. n \in Memory /\ ControlSound(n) /\ KeepsClaim(n, m)
    BY <1>8 DEF Follows
  <2>2. evidence' \in [Repetitions -> 0..Judged] /\ PhasesSound'
    BY <1>1, <1>2, <1>4, <1>8, <2>1, EvidenceGrows, Zenon
  <2>3. /\ published' \in 0..PublishedRows
        /\ resource' \in {"none", "passed", "failed"}
        /\ verdict' \in {"none", "qualified", "rejected"}
    BY <1>1 DEF Inv, Types
  <2> QED
    BY <1>1, <1>8, <2>1, <2>2, <2>3, PhaseMove
<1> QED
  BY <1>3, <1>5, <1>6, <1>7, <1>8, Zenon

\* A target receipt set on its own is written over completed attempts too
\* (receipt_set.rs:71).
LEMMA ReceiptSetStep ==
    ASSUME Inv, NEW o \in Operations, NEW r \in Repetitions, PersistTargetReceiptSet(o, r)
    PROVE  Inv'
<1> DEFINE m == op[o]
<1>m. m \in Memory /\ ControlSound(m)
  BY DEF Inv, Types
<1>1. /\ m.next = N + 1 /\ ~m.terminal
      /\ UNCHANGED <<candidateVars, published, resource, verdict>>
  BY Zenon DEF PersistTargetReceiptSet, MaySettle
<1>2. \/ evidence' = evidence
      \/ evidence' = [evidence EXCEPT ![r] = Later(evidence[r], TargetReceipts)]
  BY Zenon DEF PersistTargetReceiptSet
<1>3. Moves(o, Stop(m)) \/ Moves(o, m)
  BY Zenon DEF PersistTargetReceiptSet, Moves
<1>4. TargetReceipts \in 1..Judged
  BY DEF TargetReceipts, Judged
<1>5. Follows(Stop(m), m) /\ Stop(m).settled = m.settled
  BY <1>m, StopFollows, StopSettles
<1>6. Follows(m, m)
  BY <1>m, Zenon DEF Follows, KeepsClaim
<1>7. ASSUME NEW n, Moves(o, n), Follows(n, m), n.settled = m.settled
      PROVE  Inv'
  <2>1. n \in Memory /\ ControlSound(n) /\ KeepsClaim(n, m)
    BY <1>7, Zenon DEF Follows
  <2>2. evidence' \in [Repetitions -> 0..Judged] /\ PhasesSound'
    BY <1>1, <1>2, <1>4, <1>7, <2>1, EvidenceGrows, Zenon
  <2>3. /\ published' \in 0..PublishedRows
        /\ resource' \in {"none", "passed", "failed"}
        /\ verdict' \in {"none", "qualified", "rejected"}
    BY <1>1 DEF Inv, Types
  <2> QED
    BY <1>1, <1>7, <2>1, <2>2, <2>3, PhaseMove
<1> QED
  BY <1>3, <1>5, <1>6, <1>7, Zenon

\* A judge settlement counts a repetition only with its row durable, in order
\* (judge_settlement.rs:137).
LEMMA JudgeSettlementStep ==
    ASSUME Inv, NEW o \in Operations, NEW r \in Repetitions, SettleJudge(o, r)
    PROVE  Inv'
<1> DEFINE m == op[o]
           k == [m EXCEPT !.settled = Later(m.settled, r)]
<1>m. m \in Memory /\ ControlSound(m)
  BY DEF Inv, Types
<1>1. /\ m.pc = "idle" /\ m.next = N + 1 /\ ~m.terminal /\ r <= m.settled + 1
      /\ m.settled \in 0..R
      /\ UNCHANGED <<candidateVars, published, resource, verdict>>
  BY <1>m DEF SettleJudge, MaySettle, Memory
<1>2. Judged \in 1..Judged /\ evidence \in [Repetitions -> 0..Judged]
  BY DEF Judged, Inv, Types
<1>3. /\ \/ evidence' = evidence
         \/ evidence' = [evidence EXCEPT ![r] = Later(evidence[r], Judged)]
      /\ \/ Moves(o, Stop(m))
         \/ Moves(o, k) /\ evidence'[r] = Judged
  <2>1. Later(evidence[r], Judged) = Judged
    BY <1>2 DEF Later
  <2>2. PICK committed \in BOOLEAN, ok \in BOOLEAN :
          /\ ok => committed
          /\ committed => evidence[r] >= Evaluated
          /\ evidence' = IF committed THEN [evidence EXCEPT ![r] = Judged]
                         ELSE evidence
          /\ op' = [op EXCEPT ![o] = IF ~ok THEN Stop(m) ELSE k]
    BY Zenon DEF SettleJudge
  <2>3. committed => evidence'[r] = Judged
    BY <1>2, <2>2
  <2> HIDE DEF k
  <2> QED
    BY <2>1, <2>2, <2>3, Zenon DEF Moves
<1>4. CASE Moves(o, Stop(m))
  <2>1. Follows(Stop(m), m) /\ Stop(m).settled = m.settled
    BY <1>m, StopFollows, StopSettles
  <2>2. Stop(m) \in Memory /\ ControlSound(Stop(m)) /\ KeepsClaim(Stop(m), m)
    BY <2>1 DEF Follows
  <2>3. evidence' \in [Repetitions -> 0..Judged] /\ PhasesSound'
    BY <1>1, <1>2, <1>3, <1>4, <2>1, <2>2, EvidenceGrows, Zenon
  <2>4. /\ published' \in 0..PublishedRows
        /\ resource' \in {"none", "passed", "failed"}
        /\ verdict' \in {"none", "qualified", "rejected"}
    BY <1>1 DEF Inv, Types
  <2> QED
    BY <1>1, <1>4, <2>2, <2>3, <2>4, PhaseMove
<1>5. CASE Moves(o, k) /\ evidence'[r] = Judged
  <2>1. /\ Later(m.settled, r) \in 0..R
        /\ \A q \in Repetitions : q <= Later(m.settled, r) => q <= m.settled \/ q = r
    BY <1>1 DEF Later
  <2>2. /\ k \in Memory /\ k.pc = m.pc /\ k.started = m.started
        /\ k.pending = m.pending /\ k.next = m.next
        /\ k.settled = Later(m.settled, r) /\ k.terminal = m.terminal
    BY <1>m, <2>1, Zenon DEF Memory
  <2> HIDE DEF k
  <2>3. ControlSound(k) /\ KeepsClaim(k, m)
    BY <1>m, <1>1, <2>2, Zenon
       DEF ControlSound, KeepsClaim, Holds, CandidatePcs, CloseoutPcs
  <2>4. evidence' \in [Repetitions -> 0..Judged] /\ PhasesSound'
    <3>1. \A q \in Repetitions :
            q <= k.settled => q <= op[o].settled \/ evidence'[q] = Judged
      BY <1>5, <2>1, <2>2, Zenon
    <3>2. k \in Memory
      BY <2>2
    <3>3. Moves(o, k)
      BY <1>5
    <3>4. op[o].next = N + 1 /\ ~op[o].terminal
      BY <1>1
    <3>5. Judged \in 1..Judged
      BY DEF Judged
    <3>6. UNCHANGED <<candidateVars, published, resource, verdict>>
      BY <1>1, Zenon
    <3> HIDE DEF m
    <3>7. CASE evidence' = evidence
      BY <3>1, <3>2, <3>3, <3>4, <3>5, <3>6, <3>7, EvidenceGrows, Zenon
    <3>8. CASE evidence' = [evidence EXCEPT ![r] = Later(evidence[r], Judged)]
      BY <3>1, <3>2, <3>3, <3>4, <3>5, <3>6, <3>8, EvidenceGrows, Zenon
    <3> QED
      BY <1>3, <3>7, <3>8, Zenon
  <2>5. /\ published' \in 0..PublishedRows
        /\ resource' \in {"none", "passed", "failed"}
        /\ verdict' \in {"none", "qualified", "rejected"}
    BY <1>1 DEF Inv, Types
  <2> QED
    BY <1>1, <1>5, <2>2, <2>3, <2>4, <2>5, PhaseMove, Zenon
<1> QED
  BY <1>3, <1>4, <1>5

\* The repeatability publication follows all judge settlements.
LEMMA PublishStep ==
    ASSUME Inv, NEW o \in Operations, PublishRepeatability(o)
    PROVE  Inv'
<1> DEFINE m == op[o]
           i == [m EXCEPT !.pc = "idle"]
           k == [m EXCEPT !.at = m.at + 1]
<1>m. m \in Memory /\ ControlSound(m)
  BY DEF Inv, Types
<1>1. /\ m.pc = "publishing" /\ m.next = N + 1 /\ ~m.terminal
      /\ m.at \in 1..PublishedRows /\ m.settled = R
      /\ UNCHANGED <<candidateVars, evidence, resource, verdict>>
  BY <1>m DEF PublishRepeatability, ControlSound
<1>2. published' = published \/ published' = Later(published, m.at)
  BY DEF PublishRepeatability
<1>3. \/ Moves(o, Stop(m))
      \/ Moves(o, i)
      \/ Moves(o, k) /\ m.at # PublishedRows
  BY Zenon DEF PublishRepeatability, Moves
<1>4. PublishedRows \in Nat /\ PublishedRows <= N + R + 4
  BY DEF PublishedRows
<1>5. /\ published \in 0..PublishedRows /\ published' \in 0..PublishedRows
      /\ published = PublishedRows => published' = PublishedRows
  <2>1. published \in 0..PublishedRows
    BY DEF Inv, Types
  <2> QED
    BY <1>1, <1>2, <1>4, <2>1 DEF Later
<1>6. \A r \in Repetitions : evidence[r] = Judged
  <2>1. \A r \in Repetitions : r <= m.settled
    BY <1>1
  <2> QED
    BY <2>1 DEF Inv, PhasesSound
<1>7. Follows(Stop(m), m)
  BY <1>m, StopFollows
<1>8. Follows(i, m)
  BY <1>m, ControlFollows, Zenon DEF CloseoutPcs
<1>9. ASSUME m.at # PublishedRows PROVE Follows(k, m)
  <2>1. m.at + 1 \in 1..PublishedRows /\ m.at + 1 \in 0..(N + R + 4)
    BY <1>1, <1>4, <1>9
  <2>2. /\ k \in Memory /\ k.pc = m.pc /\ k.started = m.started
        /\ k.pending = m.pending /\ k.next = m.next /\ k.settled = m.settled
        /\ k.terminal = m.terminal /\ k.at = m.at + 1
    BY <1>m, <2>1, Zenon DEF Memory
  <2> HIDE DEF k
  <2> QED
    BY <1>m, <1>1, <2>1, <2>2, Zenon
       DEF Follows, ControlSound, KeepsClaim, Holds, CandidatePcs, CloseoutPcs
<1> HIDE DEF i, k
<1>10. ASSUME NEW n, Moves(o, n), Follows(n, m)
       PROVE  Inv'
  <2>1. n \in Memory /\ ControlSound(n) /\ KeepsClaim(n, m)
    BY <1>10 DEF Follows
  <2>2. PhasesSound
    BY DEF Inv
  <2>3. PhasesSound'
    <3>1. UNCHANGED <<record, evidence, resource, verdict>>
      BY <1>1 DEF candidateVars
    <3>2. \A p \in Operations : \A r \in Repetitions :
            r <= op'[p].settled => evidence'[r] = Judged
      BY <1>6, <3>1
    <3> QED
      BY <1>5, <1>6, <2>2, <3>1, <3>2 DEF PhasesSound
  <2>4. /\ evidence' \in [Repetitions -> 0..Judged]
        /\ resource' \in {"none", "passed", "failed"}
        /\ verdict' \in {"none", "qualified", "rejected"}
    BY <1>1 DEF Inv, Types
  <2> QED
    BY <1>1, <1>5, <1>10, <2>1, <2>3, <2>4, PhaseMove, Zenon
<1> QED
  BY <1>3, <1>7, <1>8, <1>9, <1>10

\* The resource phase follows the whole repeatability publication.
LEMMA ResourceStep ==
    ASSUME Inv, NEW o \in Operations, NEW status \in {"passed", "failed"},
           SettleResource(o, status)
    PROVE  Inv'
<1> DEFINE m == op[o]
<1>m. m \in Memory /\ ControlSound(m)
  BY DEF Inv, Types
<1>1. UNCHANGED <<candidateVars, evidence, published, verdict>>
  BY DEF SettleResource
<1>2. \/ resource' = resource
      \/ resource' = status /\ published = PublishedRows /\ resource \in {"none", status}
  BY DEF SettleResource
<1>3. Moves(o, Stop(m)) \/ Moves(o, m)
  BY Zenon DEF SettleResource, Moves
<1>4. Follows(Stop(m), m) /\ Follows(m, m)
  BY <1>m, StopFollows, Zenon DEF Follows, KeepsClaim
<1>5. PICK n : Moves(o, n) /\ Follows(n, m)
  BY <1>3, <1>4
<1>6. n \in Memory /\ ControlSound(n) /\ KeepsClaim(n, m) /\ n.settled \in {0, m.settled}
  BY <1>5 DEF Follows
<1>7. PhasesSound'
  <2>1. /\ op'[o] = n
        /\ \A p \in Operations \ {o} : op'[p] = op[p]
    BY <1>5, <1>6, MoveType, Zenon DEF Inv
  <2>2. \A p \in Operations : op'[p].settled \in {0, op[p].settled}
    BY <1>6, <2>1
  <2>3. PhasesSound /\ UNCHANGED <<record, evidence, published, verdict>>
    BY <1>1 DEF Inv, candidateVars
  <2>4. \A p \in Operations : \A r \in Repetitions :
          r <= op'[p].settled => evidence'[r] = Judged
    BY <2>2, <2>3 DEF PhasesSound
  <2> QED
    BY <1>2, <2>3, <2>4 DEF PhasesSound
<1>8. /\ evidence' \in [Repetitions -> 0..Judged]
      /\ published' \in 0..PublishedRows
      /\ resource' \in {"none", "passed", "failed"}
      /\ verdict' \in {"none", "qualified", "rejected"}
  BY <1>1, <1>2 DEF Inv, Types
<1> QED
  BY <1>1, <1>5, <1>6, <1>7, <1>8, PhaseMove, Zenon

\* A verdict follows the resource phase it is derived from.
LEMMA CloseStep ==
    ASSUME Inv, NEW o \in Operations, Close(o)
    PROVE  Inv'
<1> DEFINE m == op[o]
           n == Fresh("gone")
<1>m. m \in Memory
  BY DEF Inv, Types
<1>1. UNCHANGED <<candidateVars, evidence, published, resource>> /\ Moves(o, n)
  BY DEF Close, Moves
<1>2. \/ verdict' = verdict
      \/ resource = "passed" /\ verdict' \in {"qualified", "rejected"}
      \/ resource = "failed" /\ verdict' = "rejected"
  BY DEF Close
<1>3. n \in Memory /\ ControlSound(n) /\ KeepsClaim(n, m) /\ n.settled \in {0, m.settled}
  BY <1>m, FreshFollows DEF Follows
<1> HIDE DEF n
<1>4. PhasesSound'
  <2>1. /\ op'[o] = n
        /\ \A p \in Operations \ {o} : op'[p] = op[p]
    BY <1>1, <1>3, MoveType, Zenon DEF Inv
  <2>2. \A p \in Operations : op'[p].settled \in {0, op[p].settled}
    BY <1>3, <2>1
  <2>3. PhasesSound /\ UNCHANGED <<record, evidence, published, resource>>
    BY <1>1 DEF Inv, candidateVars
  <2>4. \A p \in Operations : \A r \in Repetitions :
          r <= op'[p].settled => evidence'[r] = Judged
    BY <2>2, <2>3 DEF PhasesSound
  <2> QED
    BY <1>2, <2>3, <2>4 DEF PhasesSound
<1>5. /\ evidence' \in [Repetitions -> 0..Judged]
      /\ published' \in 0..PublishedRows
      /\ resource' \in {"none", "passed", "failed"}
      /\ verdict' \in {"none", "qualified", "rejected"}
  BY <1>1, <1>2 DEF Inv, Types
<1> QED
  BY <1>1, <1>3, <1>4, <1>5, PhaseMove, Zenon

-----------------------------------------------------------------------------
(* The invariant holds.                                                    *)

\* The invariant holds before any operation is admitted.
LEMMA InitInv == Init => Inv
<1> SUFFICES ASSUME Init PROVE Inv
  OBVIOUS
<1>1. Fresh("prepared") \in Memory
  BY DEF Fresh, Memory, Pcs, Refusals, Classes
<1>2. \A o \in Operations : op[o] = Fresh("prepared")
  BY DEF Init
<1>3. Types
  <2>1. op \in [Operations -> Memory]
    BY <1>1 DEF Init
  <2>2. 0 \in 0..Judged /\ 0 \in 0..PublishedRows
    BY DEF Judged, PublishedRows
  <2> QED
    BY <2>1, <2>2 DEF Init, Types
<1>f. /\ Fresh("prepared").pc = "prepared" /\ ~Holds(Fresh("prepared"))
      /\ Fresh("prepared").pending = "none" /\ Fresh("prepared").next = 1
  BY DEF Fresh, Holds
<1>4. \A o \in Operations : ControlSound(op[o])
  <2>1. ControlSound(Fresh("prepared"))
    BY <1>f, Zenon DEF ControlSound, CandidatePcs, CloseoutPcs
  <2> QED
    BY <1>2, <2>1, Zenon
<1>5. \A o \in Operations : ClaimSound(op[o])
  <2>1. \A a \in Attempts : ~(a < 1)
    BY DEF Attempts
  <2>2. ClaimSound(Fresh("prepared"))
    BY <1>f, <2>1, Zenon DEF ClaimSound
  <2> QED
    BY <1>2, <2>2, Zenon
<1>6. RowsSound
  BY DEF Init, RowsSound
<1>7. OneOwner
  BY <1>2, SMTT(30) DEF OneOwner, Owns, Fresh
<1>8. PhasesSound
  BY <1>2 DEF Init, PhasesSound, Fresh
<1> QED
  BY <1>3, <1>4, <1>5, <1>6, <1>7, <1>8 DEF Inv

\* Every step of every operation keeps the invariant.
LEMMA NextInv == Inv /\ [Next]_vars => Inv'
<1> SUFFICES ASSUME Inv, [Next]_vars PROVE Inv'
  OBVIOUS
<1>1. ASSUME NEW o \in Operations, Step(o) PROVE Inv'
  BY <1>1, ActivationStep, CheckpointStep, SendStep, RunStep, PublicationStep,
     OutcomeStep, JudgeStep, JudgeSettlementStep, DeterministicStep, ReceiptSetStep,
     PublishStep, ResourceStep, CloseStep, Zenon DEF Step
<1>2. CASE UNCHANGED vars
  <2>1. /\ UNCHANGED <<precursors, record, directory, sent, evidence>>
        /\ UNCHANGED <<published, resource, verdict, op>>
    BY <1>2 DEF vars, candidateVars, phaseVars
  <2>2. Types' /\ RowsSound' /\ PhasesSound'
    BY <2>1, Zenon DEF Inv, Types, RowsSound, PhasesSound
  <2>3. /\ \A o \in Operations : ControlSound(op[o])'
        /\ \A o \in Operations : ClaimSound(op[o])'
    BY <2>1, Zenon DEF Inv, ControlSound, ClaimSound, Holds
  <2>4. OneOwner'
    BY <2>1, Zenon DEF Inv, OneOwner, Owns
  <2> QED
    BY <2>2, <2>3, <2>4, Zenon DEF Inv
<1> QED
  BY <1>1, <1>2 DEF Next

\* Inv is an invariant of the operations (active.rs and its modules).
THEOREM Invariance == Spec => []Inv
<1>1. Init => Inv
  BY InitInv
<1>2. Inv /\ [Next]_vars => Inv'
  BY NextInv
<1> QED
  BY <1>1, <1>2, PTL DEF Spec

\* No attempt is sent twice and no two operations own attempts, for any number
\* of operations prepared, dropped or killed: the checkpoint of
\* run_next_candidate decides (candidate.rs:241).
THEOREM AttemptsSentOnce == Spec => [](TrafficOnce /\ OneOwner)
<1>1. Inv => TrafficOnce /\ OneOwner
  BY DEF Inv, RowsSound, TrafficOnce
<1> QED
  BY <1>1, Invariance, PTL

\* Every durable completed record has its checkpoint, its traffic and its bundle
\* (candidate_closeout.rs:301).
THEOREM CompletedBundles == Spec => []CompletedHasBundle
<1>1. Inv => CompletedHasBundle
  BY DEF Inv, RowsSound, CompletedHasBundle
<1> QED
  BY <1>1, Invariance, PTL

\* Judges run and evidence exists only over completed attempts, and a verdict
\* only over all of its evidence (judge.rs:184, closeout.rs:181).
THEOREM VerdictEvidence == Spec => []VerdictStandsOnEvidence
<1>1. Inv => VerdictStandsOnEvidence
  <2> SUFFICES ASSUME Inv PROVE VerdictStandsOnEvidence
    OBVIOUS
  <2>1. ASSUME NEW o \in Operations, op[o].pc = "judging"
        PROVE  \A a \in Attempts : record[a] = "completed"
    <3>1. op[o].next = N + 1 /\ ~op[o].terminal
      BY <2>1, Zenon DEF Inv, ControlSound
    <3> QED
      BY <3>1, AllCompleted
  <2>2. PhasesSound /\ PublishedRows > 0
    BY DEF Inv, PublishedRows
  <2> QED
    BY <2>1, <2>2 DEF PhasesSound, VerdictStandsOnEvidence
<1> QED
  BY <1>1, Invariance, PTL

-----------------------------------------------------------------------------
(* The refinement of AttemptPlan.                                          *)

\* The held attempt of a live owner is claimed in the plan, and all before it
\* are completed.
LEMMA PlanPosition ==
    ASSUME Inv, NEW o \in Operations, ~op[o].terminal, op[o].next \in Attempts
    PROVE  /\ \A b \in 1..(op[o].next - 1) : PlanState[b] = "completed"
           /\ Holds(op[o]) => PlanState[op[o].next] = "claimed"
<1> DEFINE m == op[o]
<1>1. /\ ClaimSound(m)
      /\ record \in [Attempts -> {"none", "failed", "completed"}]
  BY DEF Inv, Types
<1>2. \A b \in 1..(m.next - 1) : b \in Attempts /\ b < m.next
  OBVIOUS
<1>3. \A b \in 1..(m.next - 1) : record[b] = "completed"
  BY <1>1, <1>2 DEF ClaimSound
<1> QED
  BY <1>1, <1>2, <1>3, Zenon DEF PlanState, ClaimSound

\* A durable outcome of a held attempt is a step of the plan.
LEMMA PlanOutcome ==
    ASSUME Inv, NEW o \in Operations, Holds(op[o]), ~op[o].terminal,
           NEW outcome \in {"failed", "completed"},
           outcome = "completed" => sent[op[o].next] = 1,
           record' = [record EXCEPT ![op[o].next] = outcome],
           UNCHANGED <<precursors, sent, verdict>>
    PROVE  Plan!PlanNext
<1> DEFINE a == op[o].next
<1>1. a \in Attempts
  BY Zenon DEF Inv, ControlSound
<1>2. PlanState[a] = "claimed"
  BY <1>1, PlanPosition
<1>3. PlanState' = [PlanState EXCEPT ![a] = outcome]
  <2>1. record \in [Attempts -> {"none", "failed", "completed"}]
    BY DEF Inv, Types
  <2> QED
    BY <1>1, <2>1, Zenon DEF PlanState
<1>4. outcome = "failed" => Plan!Fail(a)
  BY <1>2, <1>3 DEF Plan!Fail
<1>5. outcome = "completed" => Plan!Complete(a)
  BY <1>2, <1>3 DEF Plan!Complete
<1> QED
  BY <1>1, <1>4, <1>5 DEF Plan!PlanNext, Plan!Attempts

\* Every step of an operation is a step of the plan or leaves it alone.
LEMMA PlanStep ==
    ASSUME Inv, NEW o \in Operations, Step(o)
    PROVE  [Plan!PlanNext]_(Plan!planVars)
<1> DEFINE m == op[o]
           Quiet0 == UNCHANGED <<precursors, record, sent, verdict>>
<1>m. m \in Memory /\ ControlSound(m) /\ ClaimSound(m)
  BY DEF Inv, Types
<1>1. ASSUME Quiet0 PROVE UNCHANGED Plan!planVars
  BY <1>1 DEF Plan!planVars, PlanState
<1>2. CASE Checkpoint(o)
  <2>1. /\ m.next \in Attempts /\ m.next \notin precursors /\ ~m.terminal
        /\ precursors' = precursors \cup {m.next}
        /\ UNCHANGED <<record, sent, verdict>>
    BY <1>2 DEF Checkpoint, MayRunCandidate, phaseVars
  <2>2. record[m.next] = "none"
    BY <2>1, Zenon DEF Inv, RowsSound
  <2>3. PlanState[m.next] = "open"
    BY <2>1, <2>2, Zenon DEF PlanState
  <2>4. PlanState' = [PlanState EXCEPT ![m.next] = "claimed"]
    BY <2>1, <2>2, Zenon DEF PlanState
  <2>5. \A b \in 1..(m.next - 1) : PlanState[b] = "completed"
    BY <2>1, PlanPosition, Zenon
  <2> QED
    BY <2>1, <2>3, <2>4, <2>5, Zenon DEF Plan!PlanNext, Plan!Claim, Plan!Attempts
<1>3. CASE SendCandidate(o)
  <2>1. /\ m.pc = "running"
        /\ sent' = [sent EXCEPT ![m.next] = sent[m.next] + 1]
        /\ UNCHANGED <<precursors, record, verdict>>
    BY <1>3 DEF SendCandidate, phaseVars
  <2>2. Holds(m) /\ ~m.terminal
    BY <1>m, <2>1, Zenon DEF ControlSound, Holds, CandidatePcs
  <2>3. m.next \in Attempts /\ sent[m.next] = 0
    BY <1>m, <2>1, <2>2, Zenon DEF ControlSound, ClaimSound
  <2>4. PlanState[m.next] = "claimed"
    BY <2>2, <2>3, PlanPosition, Zenon
  <2>5. PlanState' = PlanState /\ sent' = [sent EXCEPT ![m.next] = 1]
    <3>1. PlanState' = PlanState
      BY <2>1, Zenon DEF PlanState
    <3>2. sent[m.next] + 1 = 1
      BY <2>3, SMT
    <3>3. sent' = [sent EXCEPT ![m.next] = 1]
      BY <2>1, <3>2, Zenon
    <3> QED
      BY <3>1, <3>3, Zenon
  <2> QED
    BY <2>1, <2>3, <2>4, <2>5, Zenon DEF Plan!PlanNext, Plan!Send, Plan!Attempts
<1>4. CASE PersistFailedCandidate(o)
  <2>1. /\ record' = record \/ record' = [record EXCEPT ![m.next] = "failed"]
        /\ UNCHANGED <<precursors, sent, verdict>>
    BY <1>4 DEF PersistFailedCandidate, phaseVars
  <2>2. Holds(m) /\ ~m.terminal
    BY <1>4, <1>m DEF PersistFailedCandidate, ControlSound, Holds, CandidatePcs
  <2> QED
    BY <1>1, <2>1, <2>2, PlanOutcome, Zenon
<1>5. CASE PersistCompleted(o)
  <2>1. /\ record' = record \/ record' = [record EXCEPT ![m.next] = "completed"]
        /\ UNCHANGED <<precursors, sent, verdict>>
    BY <1>5, Zenon DEF PersistCompleted, phaseVars
  <2>2. m.pending # "none" /\ ~m.terminal
    BY <1>5, <1>m DEF PersistCompleted, ControlSound, CloseoutPcs
  <2>3. Holds(m) /\ sent[m.next] = 1
    BY <1>m, <2>2, Zenon DEF ClaimSound, Holds
  <2> QED
    BY <1>1, <2>1, <2>2, <2>3, PlanOutcome, Zenon
<1>6. CASE FailCloseout(o)
  <2>1. /\ record' = record \/ record' = [record EXCEPT ![m.next] = "failed"]
        /\ UNCHANGED <<precursors, sent, verdict>>
    BY <1>6 DEF FailCloseout, phaseVars
  <2>2. Holds(m) /\ ~m.terminal
    BY <1>6, <1>m DEF FailCloseout, ControlSound, Holds, CloseoutPcs
  <2> QED
    BY <1>1, <2>1, <2>2, PlanOutcome, Zenon
<1>7. CASE Close(o)
  <2>1. UNCHANGED <<precursors, record, sent>>
    BY <1>7 DEF Close, candidateVars
  <2>2. CASE verdict' = verdict
    BY <1>1, <2>1, <2>2
  <2>3. CASE verdict' # verdict
    <3>1. /\ m.next = N + 1 /\ ~m.terminal
          /\ verdict' \in {"qualified", "rejected"} /\ verdict = "none"
      BY <1>7, <2>3 DEF Close, AllSettled, MaySettle
    <3>2. \A a \in Attempts : PlanState[a] = "completed"
      BY <3>1, AllCompleted DEF PlanState
    <3>3. PlanState' = PlanState
      BY <2>1 DEF PlanState
    <3> QED
      BY <2>1, <3>1, <3>2, <3>3 DEF Plan!PlanNext, Plan!Decide, Plan!Attempts
  <2> QED
    BY <2>2, <2>3
<1>8. CASE \/ ReadAdmission(o) \/ RequireClearStaging(o) \/ ScanAttempt(o)
           \/ RefuseActivation(o) \/ CheckpointReplay(o) \/ DropRun(o)
           \/ RunError(o) \/ RunCompleted(o) \/ RunFailed(o) \/ BeginCloseout(o)
  <2>1. Quiet0
    BY <1>8, Zenon DEF ReadAdmission, RequireClearStaging, ScanAttempt, RefuseActivation,
                CheckpointReplay, DropRun, RunError, RunCompleted, RunFailed,
                BeginCloseout, candidateVars, phaseVars
  <2> QED
    BY <1>1, <2>1
<1>9. CASE \/ CreateParent(o) \/ StageTree(o) \/ PublishTree(o) \/ RemoveProbe(o)
           \/ VerifyCloseout(o) \/ CloseoutError(o) \/ SealLedger(o)
           \/ Terminate(o) \/ RunJudge(o) \/ JudgeEnds(o) \/ Crash(o)
  <2>1. Quiet0
    BY <1>9, Zenon DEF CreateParent, StageTree, PublishTree, RemoveProbe, VerifyCloseout,
                CloseoutError, SealLedger, Terminate, RunJudge, JudgeEnds, Crash,
                candidateVars, phaseVars
  <2> QED
    BY <1>1, <2>1
<1>10. CASE \/ (\E r \in Repetitions : PersistTargetReceiptSet(o, r))
            \/ (\E r \in Repetitions : BeginDeterministic(o, r) \/ SettleJudge(o, r))
            \/ SettleDeterministic(o) \/ BeginRepeatability(o)
            \/ PublishRepeatability(o)
            \/ (\E status \in {"passed", "failed"} : SettleResource(o, status))
  <2>1. Quiet0
    BY <1>10, Zenon DEF PersistTargetReceiptSet,
                 BeginDeterministic, SettleJudge, SettleDeterministic,
                 BeginRepeatability, PublishRepeatability, SettleResource,
                 candidateVars, phaseVars
  <2> QED
    BY <1>1, <2>1
<1> QED
  BY <1>2, <1>3, <1>4, <1>5, <1>6, <1>7, <1>8, <1>9, <1>10 DEF Step

\* All operations together implement one AttemptPlan (active/candidate.rs,
\* active/candidate_closeout.rs, active/closeout.rs).
THEOREM PlanRefinement == Spec => ImplementsPlan
<1>1. Init => Plan!PlanInit
  BY DEF Init, PlanState, Plan!PlanInit, Plan!Attempts
<1>2. Inv /\ [Next]_vars => [Plan!PlanNext]_(Plan!planVars)
  <2> SUFFICES ASSUME Inv, [Next]_vars PROVE [Plan!PlanNext]_(Plan!planVars)
    OBVIOUS
  <2>1. CASE Next
    BY <2>1, PlanStep DEF Next
  <2>2. CASE UNCHANGED vars
    BY <2>2 DEF vars, candidateVars, phaseVars, Plan!planVars, PlanState
  <2> QED
    BY <2>1, <2>2
<1> QED
  BY <1>1, <1>2, Invariance, PTL DEF Spec, ImplementsPlan, Plan!PlanSpec

-----------------------------------------------------------------------------
(* What an owner retains for its target ledger is what is durable, for any *)
(* choice of targets: the proof of SettledDurably.                         *)

\* The number of target attempts among the first k.
TargetCount(k) == Cardinality((1..k) \cap Targets)

\* The outcomes a memory retains are the records of the targets it settled,
\* in plan order, and a failure is the last thing it settled.
LedgerSound(m) ==
    /\ \A a \in Attempts : a < m.next /\ record[a] = "failed" => a = m.next - 1
    /\ Len(m.records) = TargetCount(m.next - 1)
    /\ \A a \in (1..(m.next - 1)) \cap Targets :
          m.records[TargetCount(a)] = record[a]

LedgerInv ==
    /\ staging \subseteq Operations
    /\ \A a \in Attempts : sent[a] = 0 \/ Operations # {}
    /\ \A o \in Operations : LedgerSound(op[o])

-----------------------------------------------------------------------------
(* Counting targets.                                                       *)

\* Counts are natural numbers; a target adds one to the count, and the count
\* of a target is positive and never above that of a later attempt.
LEMMA TargetCounts ==
    /\ TargetCount(0) = 0
    /\ \A k \in 0..N : TargetCount(k) \in Nat
    /\ \A k \in Attempts : TargetCount(k) =
          IF k \in Targets THEN TargetCount(k - 1) + 1 ELSE TargetCount(k - 1)
    /\ \A k \in 0..N : \A a \in (1..k) \cap Targets :
          TargetCount(a) \in 1..TargetCount(k)
<1>1. ASSUME NEW k \in 0..N
      PROVE  IsFiniteSet((1..k) \cap Targets) /\ TargetCount(k) \in Nat
  <2>1. IsFiniteSet(1..k)
    BY FS_Interval
  <2>2. IsFiniteSet((1..k) \cap Targets)
    BY <2>1, FS_Intersection, Zenon
  <2> QED
    BY <2>2, FS_CardinalityType DEF TargetCount
<1>2. TargetCount(0) = 0
  <2>1. (1..0) \cap Targets = {}
    OBVIOUS
  <2> QED
    BY <2>1, FS_EmptySet DEF TargetCount
<1>3. ASSUME NEW k \in Attempts
      PROVE  TargetCount(k) =
               IF k \in Targets THEN TargetCount(k - 1) + 1 ELSE TargetCount(k - 1)
  <2> DEFINE S == (1..(k - 1)) \cap Targets
  <2>1. k - 1 \in 0..N
    OBVIOUS
  <2>2. IsFiniteSet(S)
    BY <1>1, <2>1
  <2>3. CASE k \in Targets
    <3>1. (1..k) \cap Targets = S \cup {k} /\ k \notin S
      BY <2>3
    <3> HIDE DEF S
    <3>2. Cardinality(S \cup {k}) = Cardinality(S) + 1
      BY <2>2, <3>1, FS_AddElement, Zenon
    <3> QED
      BY <2>3, <3>1, <3>2, Zenon DEF TargetCount, S
  <2>4. CASE k \notin Targets
    <3>1. (1..k) \cap Targets = S
      BY <2>4
    <3> QED
      BY <2>4, <3>1, Zenon DEF TargetCount
  <2> QED
    BY <2>3, <2>4
<1>4. ASSUME NEW k \in 0..N, NEW a \in (1..k) \cap Targets
      PROVE  TargetCount(a) \in 1..TargetCount(k)
  <2>1. a \in Attempts /\ a \in 0..N /\ a - 1 \in 0..N
    OBVIOUS
  <2>2. TargetCount(a) = TargetCount(a - 1) + 1
    BY <1>3, <2>1
  <2>3. TargetCount(a - 1) \in Nat /\ TargetCount(k) \in Nat
    BY <1>1, <2>1, Zenon
  <2>4. (1..a) \cap Targets \subseteq (1..k) \cap Targets
    OBVIOUS
  <2>5. TargetCount(a) <= TargetCount(k)
    BY <1>1, <2>4, FS_Subset DEF TargetCount
  <2> QED
    BY <2>2, <2>3, <2>5
<1> QED
  BY <1>1, <1>2, <1>3, <1>4, Zenon

-----------------------------------------------------------------------------
(* Steps.                                                                  *)

\* What a step may do to the ledger of its operation when it writes no record.
SameLedger(n, m) ==
    \/ n.next = m.next /\ n.records = m.records
    \/ n.next = 1 /\ n.records = <<>>

\* What it may do when it writes the record of the held attempt.
MoreLedger(n, m, outcome) ==
    \/ n.next = m.next /\ n.records = m.records
    \/ /\ n.next = m.next + 1
       /\ n.records = IF m.next \in Targets THEN Append(m.records, outcome)
                      ELSE m.records

\* The ledger of an operation after a step.
LEMMA LedgerAfter ==
    ASSUME NEW o \in Operations, NEW k, op'[o].next - 1 = k,
           \A a \in Attempts : a < op'[o].next /\ record'[a] = "failed" => a = k,
           Len(op'[o].records) = TargetCount(k),
           \A a \in (1..k) \cap Targets :
               op'[o].records[TargetCount(a)] = record'[a]
    PROVE  LedgerSound(op[o])'
  BY Zenon DEF LedgerSound, TargetCount

\* Steps that write no record keep what the owners retain.
LEMMA QuietLedger ==
    ASSUME Inv, LedgerInv, NEW o \in Operations,
           \A p \in Operations \ {o} : op'[p] = op[p],
           SameLedger(op'[o], op[o]), record' = record
    PROVE  \A p \in Operations : LedgerSound(op[p])'
<1> DEFINE n == op'[o]
           m == op[o]
<1>1. LedgerSound(op[o])'
  <2>1. CASE n.next = m.next /\ n.records = m.records
    <3>1. LedgerSound(m)
      BY Zenon DEF LedgerInv
    <3> QED
      BY <2>1, <3>1, Zenon DEF LedgerSound, TargetCount
  <2>2. CASE n.next = 1 /\ n.records = <<>>
    <3>1. /\ n.next - 1 = 0 /\ TargetCount(0) = 0 /\ Len(n.records) = 0
          /\ 1..(n.next - 1) = {} /\ \A a \in Attempts : ~(a < n.next)
      BY <2>2, TargetCounts
    <3> QED
      BY <3>1, Zenon DEF LedgerSound, TargetCount
  <2> QED
    BY <2>1, <2>2 DEF SameLedger
<1>2. ASSUME NEW p \in Operations \ {o} PROVE LedgerSound(op[p])'
  <2>1. LedgerSound(op[p]) /\ op'[p] = op[p]
    BY DEF LedgerInv
  <2> QED
    BY <2>1, Zenon DEF LedgerSound, TargetCount
<1> QED
  BY <1>1, <1>2

\* What comes before an attempt are attempts of the plan.
LEMMA EarlierAttempts ==
    ASSUME NEW t \in Attempts
    PROVE  t - 1 \in 0..N /\ \A a \in 1..(t - 1) : a \in Attempts /\ a < t /\ a # t
  OBVIOUS

\* The step that writes a record retains it with the ordinal it consumes.
LEMMA RecordLedger ==
    ASSUME Inv, LedgerInv, NEW o \in Operations,
           \A p \in Operations \ {o} : op'[p] = op[p],
           Holds(op[o]), ~op[o].terminal, NEW outcome \in {"failed", "completed"},
           record' = [record EXCEPT ![op[o].next] = outcome],
           MoreLedger(op'[o], op[o], outcome)
    PROVE  \A p \in Operations : LedgerSound(op[p])'
<1> DEFINE n == op'[o]
           m == op[o]
           t == m.next
<1>m. /\ m \in Memory /\ ControlSound(m) /\ ClaimSound(m) /\ LedgerSound(m)
      /\ record \in [Attempts -> {"none", "failed", "completed"}]
  BY Zenon DEF Inv, Types, LedgerInv
<1>1. t \in Attempts
  BY <1>m, Zenon DEF ControlSound
<1>2. /\ record'[t] = outcome
      /\ \A a \in Attempts \ {t} : record'[a] = record[a]
  BY <1>m, <1>1, Zenon
<1>3. m.records \in Seq({"failed", "completed"})
  BY <1>m, Zenon DEF Memory
<1>4. \A a \in Attempts : a < t => record[a] # "failed"
  BY <1>m, Zenon DEF ClaimSound
<1>5. /\ Len(m.records) = TargetCount(t - 1)
      /\ \A a \in (1..(t - 1)) \cap Targets : m.records[TargetCount(a)] = record[a]
  BY <1>m, Zenon DEF LedgerSound
<1>6. t - 1 \in 0..N /\ \A a \in 1..(t - 1) : a \in Attempts /\ a < t /\ a # t
  BY <1>1, EarlierAttempts, Zenon
<1>7. ASSUME n.next = t, n.records = m.records
      PROVE  LedgerSound(op[o])'
  <2>1. \A a \in Attempts : a < t => record'[a] # "failed"
    BY <1>1, <1>2, <1>4, SMTT(30)
  <2>2. \A a \in (1..(t - 1)) \cap Targets : m.records[TargetCount(a)] = record'[a]
    BY <1>2, <1>5, <1>6, Zenon
  <2>3. op'[o].next - 1 = t - 1
    BY <1>7
  <2>4. \A a \in Attempts : a < op'[o].next /\ record'[a] = "failed" => a = t - 1
    BY <1>7, <2>1, Zenon
  <2>5. Len(op'[o].records) = TargetCount(t - 1)
    BY <1>5, <1>7, Zenon
  <2>6. \A a \in (1..(t - 1)) \cap Targets :
          op'[o].records[TargetCount(a)] = record'[a]
    BY <1>7, <2>2, Zenon
  <2> QED
    BY <2>3, <2>4, <2>5, <2>6, LedgerAfter, Zenon
<1>8. ASSUME n.next = t + 1,
             n.records = IF t \in Targets THEN Append(m.records, outcome) ELSE m.records
      PROVE  LedgerSound(op[o])'
  <2>1. n.next - 1 = t
    <3>1. (t + 1) - 1 = t
      BY <1>1
    <3> QED
      BY <1>8, <3>1, Zenon
  <2>2. \A a \in Attempts : a < n.next /\ record'[a] = "failed" => a = t
    BY <1>1, <1>2, <1>4, <1>8, SMTT(30)
  <2>3. \A a \in (1..t) \cap Targets : a = t \/ a \in (1..(t - 1)) \cap Targets
    BY <1>1, SMTT(30)
  <2>4. CASE t \in Targets
    <3>1. n.records = Append(m.records, outcome)
      BY <1>8, <2>4, Zenon
    <3>2. TargetCount(t) = Len(m.records) + 1
      BY <1>1, <1>5, <2>4, TargetCounts, Zenon
    <3>3. /\ Len(n.records) = Len(m.records) + 1
          /\ n.records[Len(m.records) + 1] = outcome
          /\ \A i \in 1..Len(m.records) : n.records[i] = m.records[i]
      BY <1>3, <3>1, SMTT(30)
    <3>4. \A a \in (1..(t - 1)) \cap Targets : TargetCount(a) \in 1..Len(m.records)
      BY <1>5, <1>6, TargetCounts, Zenon
    <3>5. \A a \in (1..t) \cap Targets : n.records[TargetCount(a)] = record'[a]
      BY <1>2, <1>5, <1>6, <2>3, <3>2, <3>3, <3>4, Zenon
    <3>6. Len(n.records) = TargetCount(t)
      BY <3>2, <3>3, Zenon
    <3> QED
      BY <2>1, <2>2, <3>5, <3>6, LedgerAfter, Zenon
  <2>5. CASE t \notin Targets
    <3>1. n.records = m.records
      BY <1>8, <2>5, Zenon
    <3>2. TargetCount(t) = Len(m.records)
      BY <1>1, <1>5, <2>5, TargetCounts, Zenon
    <3>3. \A a \in (1..t) \cap Targets : n.records[TargetCount(a)] = record'[a]
      BY <1>2, <1>5, <1>6, <2>3, <2>5, <3>1, Zenon
    <3>4. Len(n.records) = TargetCount(t)
      BY <3>1, <3>2, Zenon
    <3> QED
      BY <2>1, <2>2, <3>3, <3>4, LedgerAfter, Zenon
  <2> QED
    BY <2>4, <2>5, Zenon
<1>9. LedgerSound(op[o])'
  BY <1>7, <1>8, Zenon DEF MoreLedger
<1>10. ASSUME NEW p \in Operations \ {o} PROVE LedgerSound(op[p])'
  <2>1. ~Owns(p)
    BY Zenon DEF Inv, OneOwner, Owns, Holds
  <2>2. op[p].next \in 1..(N + 1) /\ LedgerSound(op[p]) /\ op'[p] = op[p]
    BY Zenon DEF Inv, Types, Memory, LedgerInv
  <2>3. op[p].next = 1
    BY <2>1, <2>2, SMTT(30) DEF Owns
  <2>4. 1..(op[p].next - 1) = {} /\ \A a \in Attempts : ~(a < op[p].next)
    BY <2>3, SMTT(30)
  <2> QED
    BY <2>2, <2>4, Zenon DEF LedgerSound, TargetCount
<1> QED
  BY <1>9, <1>10

\* Every step moves one operation, keeps staging to the operations, and either
\* writes no record or writes that of the attempt its operation holds.
LedgerStep(o) ==
    /\ \A p \in Operations \ {o} : op'[p] = op[p]
    /\ staging' \subseteq Operations
    /\ \/ record' = record /\ SameLedger(op'[o], op[o])
       \/ \E outcome \in {"failed", "completed"} :
             /\ Holds(op[o]) /\ ~op[o].terminal
             /\ record' = [record EXCEPT ![op[o].next] = outcome]
             /\ MoreLedger(op'[o], op[o], outcome)

\* Stopping an owner keeps the ledger it retains.
LEMMA StopLedger ==
    ASSUME NEW m \in Memory
    PROVE  Stop(m).next = m.next /\ Stop(m).records = m.records
  BY DEF Stop, Memory

\* Settling the held attempt consumes its ordinal and retains a target outcome.
LEMMA SettleLedger ==
    ASSUME NEW m \in Memory, NEW outcome \in {"failed", "completed"}
    PROVE  /\ Settle(m, outcome).next = m.next + 1
           /\ Settle(m, outcome).records =
                IF m.next \in Targets THEN Append(m.records, outcome) ELSE m.records
  BY DEF Settle, Memory

\* A move that writes no record, to the same ledger or to a fresh one.
LEMMA MoveLedger ==
    ASSUME Inv, staging' \subseteq Operations, NEW o \in Operations,
           record' = record, NEW n, op' = [op EXCEPT ![o] = n], SameLedger(n, op[o])
    PROVE  LedgerStep(o)
<1>1. op'[o] = n /\ \A p \in Operations \ {o} : op'[p] = op[p]
  BY Zenon DEF Inv, Types
<1> QED
  BY <1>1, Zenon DEF LedgerStep

\* A fresh memory retains nothing.
LEMMA FreshLedger ==
    ASSUME NEW m, NEW pc
    PROVE  SameLedger(Fresh(pc), m)
  BY Zenon DEF Fresh, SameLedger

\* Nor does the memory of a refused activation.
LEMMA RefusedLedger ==
    ASSUME NEW m, NEW why, NEW at
    PROVE  SameLedger(Refused(why, at), m)
  BY DEF Refused, Fresh, SameLedger

\* Every step of an operation is such a step.
LEMMA LedgerSteps ==
    ASSUME Inv, LedgerInv, NEW o \in Operations, Step(o)
    PROVE  LedgerStep(o)
<1> DEFINE m == op[o]
<1>m. m \in Memory /\ ControlSound(m)
  BY DEF Inv, Types
<1>g. staging \subseteq Operations
  BY DEF LedgerInv
<1>s. SameLedger(Stop(m), m)
  BY <1>m, StopLedger, Zenon DEF SameLedger
<1>1. CASE ReadAdmission(o)
  <2> DEFINE n == [m EXCEPT !.pc = "staging",
                            !.classes = [a \in Attempts |-> StoreClass(a)]]
  <2>1. op' = [op EXCEPT ![o] = n] /\ UNCHANGED <<record, staging>>
    BY <1>1, Zenon DEF ReadAdmission, candidateVars
  <2>2. SameLedger(n, m)
    BY <1>m DEF Memory, SameLedger
  <2> QED
    BY <1>g, <2>1, <2>2, MoveLedger, Zenon
<1>2. CASE RequireClearStaging(o)
  <2> DEFINE n == [m EXCEPT !.pc = "scan", !.at = 1]
             x == Refused("UnexpectedStaging", 0)
  <2>1. /\ op' = [op EXCEPT ![o] = n] \/ op' = [op EXCEPT ![o] = x]
        /\ UNCHANGED <<record, staging>>
    BY <1>2, Zenon DEF RequireClearStaging, candidateVars
  <2>2. SameLedger(n, m) /\ SameLedger(x, m)
    BY <1>m, RefusedLedger DEF Memory, SameLedger
  <2> QED
    BY <1>g, <2>1, <2>2, MoveLedger
<1>3. CASE ScanAttempt(o)
  <2> DEFINE a == m.at
             n == [m EXCEPT !.at = a + 1]
             x == Refused(DecideAttempt(m.classes[a], directory[a]), a)
  <2>1. /\ \/ op' = [op EXCEPT ![o] = n]
           \/ op' = [op EXCEPT ![o] = Fresh("idle")]
           \/ op' = [op EXCEPT ![o] = x]
        /\ UNCHANGED <<record, staging>>
    BY <1>3, Zenon DEF ScanAttempt, candidateVars
  <2>2. SameLedger(n, m)
    BY <1>m DEF Memory, SameLedger
  <2>3. SameLedger(Fresh("idle"), m) /\ SameLedger(x, m)
    BY FreshLedger, RefusedLedger, Zenon
  <2> QED
    BY <1>g, <2>1, <2>2, <2>3, MoveLedger
<1>4. CASE RefuseActivation(o)
  BY <1>4, <1>g, MoveLedger, RefusedLedger, Zenon DEF RefuseActivation, candidateVars
<1>5. CASE Checkpoint(o)
  <2> DEFINE n == [m EXCEPT !.pc = "running", !.started = TRUE]
  <2>1. /\ op' = [op EXCEPT ![o] = n] \/ op' = [op EXCEPT ![o] = m]
        /\ UNCHANGED <<record, staging>>
    <3>1. op = [op EXCEPT ![o] = m]
      BY DEF Inv, Types
    <3> QED
      BY <1>5, <3>1, Zenon DEF Checkpoint
  <2>2. SameLedger(n, m) /\ SameLedger(m, m)
    BY <1>m DEF Memory, SameLedger
  <2> QED
    BY <1>g, <2>1, <2>2, MoveLedger
<1>6. CASE CheckpointReplay(o) \/ RunError(o) \/ Terminate(o)
  BY <1>6, <1>g, <1>s, MoveLedger
     DEF CheckpointReplay, RunError, Terminate, candidateVars
<1>7. ASSUME NEW pc, op' = [op EXCEPT ![o] = [m EXCEPT !.pc = pc]],
             staging' \subseteq Operations, record' = record
      PROVE  LedgerStep(o)
  <2>1. SameLedger([m EXCEPT !.pc = pc], m)
    BY <1>m DEF Memory, SameLedger
  <2> QED
    BY <1>7, <2>1, MoveLedger, Zenon
<1>8. CASE SendCandidate(o) \/ DropRun(o) \/ RunFailed(o) \/ VerifyCloseout(o)
  BY <1>8, <1>g, <1>7
     DEF SendCandidate, DropRun, RunFailed, VerifyCloseout, candidateVars
<1>9. CASE CreateParent(o) \/ RemoveProbe(o) \/ RunJudge(o)
  BY <1>9, <1>g, <1>7 DEF CreateParent, RemoveProbe, RunJudge, candidateVars
<1>10. CASE StageTree(o) \/ PublishTree(o) \/ CloseoutError(o)
  <2>1. /\ \E pc : op' = [op EXCEPT ![o] = [m EXCEPT !.pc = pc]]
        /\ record' = record
    BY <1>10 DEF StageTree, PublishTree, CloseoutError
  <2>2. staging' \subseteq Operations
    BY <1>10, <1>g DEF StageTree, PublishTree, CloseoutError
  <2> QED
    BY <1>7, <2>1, <2>2, Zenon
<1>11. CASE RunCompleted(o)
  <2> DEFINE n == [m EXCEPT !.pc = "idle", !.started = FALSE, !.pending = "full"]
  <2>1. op' = [op EXCEPT ![o] = n] /\ UNCHANGED <<record, staging>>
    BY <1>11, Zenon DEF RunCompleted, candidateVars
  <2>2. SameLedger(n, m)
    BY <1>m DEF Memory, SameLedger
  <2> QED
    BY <1>g, <2>1, <2>2, MoveLedger, Zenon
<1>12. CASE BeginCloseout(o)
  <2> DEFINE n(matches) ==
          [m EXCEPT !.pc = IF matches THEN "parent" ELSE "failCloseout",
                    !.pending = IF matches THEN "taken" ELSE m.pending]
  <2>1. /\ \E matches \in BOOLEAN : op' = [op EXCEPT ![o] = n(matches)]
        /\ UNCHANGED <<record, staging>>
    BY <1>12, ZenonT(60) DEF BeginCloseout, candidateVars
  <2>2. \A matches \in BOOLEAN : SameLedger(n(matches), m)
    BY <1>m DEF Memory, SameLedger
  <2> QED
    BY <1>g, <2>1, <2>2, MoveLedger, Zenon
<1>13. CASE SealLedger(o)
  <2> DEFINE n == [m EXCEPT !.ledger = DeriveStatus(m)]
  <2>1. op' = [op EXCEPT ![o] = n] /\ UNCHANGED <<record, staging>>
    BY <1>13 DEF SealLedger, candidateVars
  <2>2. SameLedger(n, m)
    BY <1>m DEF Memory, SameLedger
  <2> QED
    BY <1>g, <2>1, <2>2, MoveLedger, Zenon
<1>14. CASE JudgeEnds(o)
  <2> DEFINE n == [m EXCEPT !.pc = "idle", !.judged = m.judged + 1]
             k == [m EXCEPT !.pc = "idle"]
  <2>1. /\ \/ op' = [op EXCEPT ![o] = n]
           \/ op' = [op EXCEPT ![o] = Stop(m)]
           \/ op' = [op EXCEPT ![o] = k]
        /\ UNCHANGED <<record, staging>>
    BY <1>14 DEF JudgeEnds, candidateVars
  <2>2. SameLedger(n, m) /\ SameLedger(k, m)
    BY <1>m DEF Memory, SameLedger
  <2> QED
    BY <1>g, <1>s, <2>1, <2>2, MoveLedger
<1>15. ASSUME NEW r \in Repetitions, BeginDeterministic(o, r)
       PROVE  LedgerStep(o)
  <2> DEFINE n == [m EXCEPT !.pc = "settling", !.repetition = r, !.at = TargetReceipts]
  <2>1. op' = [op EXCEPT ![o] = n] /\ UNCHANGED <<record, staging>>
    BY <1>15, Zenon DEF BeginDeterministic, candidateVars
  <2>2. SameLedger(n, m)
    BY <1>m DEF Memory, SameLedger
  <2> QED
    BY <1>g, <2>1, <2>2, MoveLedger, Zenon
<1>16. ASSUME NEW r \in Repetitions, SettleJudge(o, r)
       PROVE  LedgerStep(o)
  <2> DEFINE n == [m EXCEPT !.settled = Later(m.settled, r)]
  <2>1. /\ op' = [op EXCEPT ![o] = n] \/ op' = [op EXCEPT ![o] = Stop(m)]
        /\ UNCHANGED <<record, staging>>
    BY <1>16, Zenon DEF SettleJudge, candidateVars
  <2>2. SameLedger(n, m)
    BY <1>m DEF Memory, SameLedger
  <2> QED
    BY <1>g, <1>s, <2>1, <2>2, MoveLedger
<1>17. CASE SettleDeterministic(o) \/ PublishRepeatability(o)
  <2> DEFINE n == [m EXCEPT !.at = m.at + 1]
             k == [m EXCEPT !.pc = "idle"]
  <2>1. /\ \/ op' = [op EXCEPT ![o] = n]
           \/ op' = [op EXCEPT ![o] = Stop(m)]
           \/ op' = [op EXCEPT ![o] = k]
        /\ UNCHANGED <<record, staging>>
    BY <1>17 DEF SettleDeterministic, PublishRepeatability, candidateVars
  <2>2. SameLedger(n, m) /\ SameLedger(k, m)
    BY <1>m DEF Memory, SameLedger
  <2> QED
    BY <1>g, <1>s, <2>1, <2>2, MoveLedger
<1>18. CASE BeginRepeatability(o)
  <2> DEFINE n == [m EXCEPT !.pc = "publishing", !.at = 1]
  <2>1. op' = [op EXCEPT ![o] = n] /\ UNCHANGED <<record, staging>>
    BY <1>18, Zenon DEF BeginRepeatability, candidateVars
  <2>2. SameLedger(n, m)
    BY <1>m DEF Memory, SameLedger
  <2> QED
    BY <1>g, <2>1, <2>2, MoveLedger, Zenon
<1>19. ASSUME NEW status, SettleResource(o, status)
       PROVE  LedgerStep(o)
  <2>1. /\ op' = [op EXCEPT ![o] = m] \/ op' = [op EXCEPT ![o] = Stop(m)]
        /\ UNCHANGED <<record, staging>>
    BY <1>19, Zenon DEF SettleResource, candidateVars
  <2>2. SameLedger(m, m)
    BY Zenon DEF SameLedger
  <2> QED
    BY <1>g, <1>s, <2>1, <2>2, MoveLedger
<1>22. ASSUME NEW r \in Repetitions, PersistTargetReceiptSet(o, r)
       PROVE  LedgerStep(o)
  <2>1. /\ op' = [op EXCEPT ![o] = m] \/ op' = [op EXCEPT ![o] = Stop(m)]
        /\ UNCHANGED <<record, staging>>
    BY <1>22, Zenon DEF PersistTargetReceiptSet, candidateVars
  <2>2. SameLedger(m, m)
    BY Zenon DEF SameLedger
  <2> QED
    BY <1>g, <1>s, <2>1, <2>2, MoveLedger
<1>20. CASE Close(o) \/ Crash(o)
  BY <1>20, <1>g, MoveLedger, FreshLedger DEF Close, Crash, candidateVars
<1>21. CASE PersistFailedCandidate(o) \/ PersistCompleted(o) \/ FailCloseout(o)
  <2>1. Holds(m) /\ ~m.terminal
    BY <1>21, <1>m, Zenon DEF PersistFailedCandidate, PersistCompleted, FailCloseout,
                       ControlSound, Holds, CandidatePcs, CloseoutPcs
  <2>2. UNCHANGED staging
    BY <1>21 DEF PersistFailedCandidate, PersistCompleted, FailCloseout
  <2>3. ASSUME NEW outcome \in {"failed", "completed"}, NEW n, Moves(o, n),
               record' = [record EXCEPT ![m.next] = outcome],
               MoreLedger(n, m, outcome)
        PROVE  LedgerStep(o)
    <3>1. op'[o] = n /\ \A p \in Operations \ {o} : op'[p] = op[p]
      BY <2>3 DEF Moves, Inv, Types
    <3> QED
      BY <1>g, <2>1, <2>2, <2>3, <3>1, Zenon DEF LedgerStep
  <2>4. ASSUME record' = record, Moves(o, Stop(m)) PROVE LedgerStep(o)
    BY <1>g, <1>s, <2>2, <2>4, MoveLedger, Zenon DEF Moves
  <2>5. ASSUME NEW outcome \in {"failed", "completed"}
        PROVE  /\ MoreLedger(Stop(m), m, outcome)
               /\ MoreLedger(Settle(m, outcome), m, outcome)
    BY <1>m, StopLedger, SettleLedger, Zenon DEF MoreLedger
  <2>6. CASE PersistFailedCandidate(o)
    <3>1. \/ record' = record /\ Moves(o, Stop(m))
          \/ /\ record' = [record EXCEPT ![m.next] = "failed"]
             /\ Moves(o, Stop(m)) \/ Moves(o, Settle(m, "failed"))
      BY <2>6, Zenon DEF PersistFailedCandidate, Moves
    <3> QED
      BY <2>3, <2>4, <2>5, <3>1
  <2>7. CASE PersistCompleted(o)
    <3>1. \/ record' = record /\ Moves(o, Stop(m))
          \/ /\ record' = [record EXCEPT ![m.next] = "completed"]
             /\ Moves(o, Stop(m)) \/ Moves(o, Settle(m, "completed"))
      BY <2>7, Zenon DEF PersistCompleted, Moves
    <3> QED
      BY <2>3, <2>4, <2>5, <3>1
  <2>8. CASE FailCloseout(o)
    <3> DEFINE k == Settle(m, "failed")
               n(i) == [k EXCEPT !.interrupted = i]
    <3>1. \/ record' = record /\ Moves(o, Stop(m))
          \/ /\ record' = [record EXCEPT ![m.next] = "failed"]
             /\ Moves(o, Stop(m)) \/ \E i \in BOOLEAN : Moves(o, n(i))
      BY <2>8, Zenon DEF FailCloseout, Moves
    <3>2. \A i \in BOOLEAN : n(i).next = k.next /\ n(i).records = k.records
      BY <1>m DEF Settle, Memory
    <3>3. \A i \in BOOLEAN : MoreLedger(n(i), m, "failed")
      BY <2>5, <3>2 DEF MoreLedger
    <3> QED
      BY <2>3, <2>4, <2>5, <3>1, <3>3, Zenon
  <2> QED
    BY <1>21, <2>6, <2>7, <2>8
<1> QED
  BY <1>1, <1>2, <1>3, <1>4, <1>5, <1>6, <1>8, <1>9, <1>10, <1>11, <1>12, <1>13,
     <1>14, <1>15, <1>16, <1>17, <1>18, <1>19, <1>20, <1>21, <1>22, Zenon DEF Step

-----------------------------------------------------------------------------
(* The theorem.                                                            *)

\* Nothing is settled, sent or staged initially.
LEMMA InitLedger == Init => LedgerInv
<1> SUFFICES ASSUME Init PROVE LedgerInv
  OBVIOUS
<1>1. staging = {} /\ \A a \in Attempts : sent[a] = 0
  BY DEF Init
<1>2. ASSUME NEW o \in Operations PROVE LedgerSound(op[o])
  <2>1. op[o].next = 1 /\ op[o].records = <<>>
    BY Zenon DEF Init, Fresh
  <2>2. /\ op[o].next - 1 = 0 /\ TargetCount(0) = 0 /\ Len(op[o].records) = 0
        /\ 1..(op[o].next - 1) = {} /\ \A a \in Attempts : ~(a < op[o].next)
    BY <2>1, TargetCounts
  <2> QED
    BY <2>2 DEF LedgerSound
<1> QED
  BY <1>1, <1>2 DEF LedgerInv

\* Every step keeps what the owners retain in line with what is durable.
LEMMA NextLedger == Inv /\ LedgerInv /\ [Next]_vars => LedgerInv'
<1> SUFFICES ASSUME Inv, LedgerInv, [Next]_vars PROVE LedgerInv'
  OBVIOUS
<1>1. ASSUME NEW o \in Operations, Step(o) PROVE LedgerInv'
  <2>1. LedgerStep(o)
    BY <1>1, LedgerSteps
  <2>2. \A p \in Operations : LedgerSound(op[p])'
    <3>1. CASE record' = record /\ SameLedger(op'[o], op[o])
      BY <2>1, <3>1, QuietLedger, Zenon DEF LedgerStep
    <3>2. ASSUME NEW outcome \in {"failed", "completed"},
                 Holds(op[o]), ~op[o].terminal,
                 record' = [record EXCEPT ![op[o].next] = outcome],
                 MoreLedger(op'[o], op[o], outcome)
          PROVE  \A p \in Operations : LedgerSound(op[p])'
      BY <2>1, <3>2, RecordLedger, Zenon DEF LedgerStep
    <3> QED
      BY <2>1, <3>1, <3>2, Zenon DEF LedgerStep
  <2>3. staging' \subseteq Operations
    BY <2>1, Zenon DEF LedgerStep
  <2> QED
    BY <2>2, <2>3 DEF LedgerInv
<1>2. CASE UNCHANGED vars
  <2>1. UNCHANGED <<record, staging, sent, op>>
    BY <1>2 DEF vars, candidateVars
  <2> QED
    BY <2>1, Zenon DEF LedgerInv, LedgerSound, TargetCount
<1> QED
  BY <1>1, <1>2 DEF Next

\* The invariants say what SettledDurably says.
LEMMA LedgerDurable == Inv /\ LedgerInv => SettledDurably
<1> SUFFICES ASSUME Inv, LedgerInv PROVE SettledDurably
  OBVIOUS
<1>1. TypeOK
  <2>1. ASSUME NEW a \in Attempts PROVE sent[a] \in 0..Cardinality(Operations)
    <3>1. Cardinality(Operations) \in Nat
      BY FS_CardinalityType
    <3>2. CASE sent[a] = 0
      BY <3>1, <3>2
    <3>3. CASE Operations # {}
      <4>1. Cardinality(Operations) # 0
        BY <3>3, FS_EmptySet
      <4>2. sent[a] \in Nat /\ sent[a] <= 1
        BY DEF Inv, Types, RowsSound
      <4> QED
        BY <3>1, <4>1, <4>2
    <3> QED
      BY <3>2, <3>3 DEF LedgerInv
  <2>2. sent \in [Attempts -> 0..Cardinality(Operations)]
    BY <2>1 DEF Inv, Types
  <2> QED
    BY <2>2 DEF Inv, Types, TypeOK, LedgerInv
<1>2. ASSUME NEW o \in Operations
      PROVE  /\ op[o].next \in 1..(N + 1) /\ ClaimSound(op[o]) /\ LedgerSound(op[o])
             /\ \A a \in 1..(op[o].next - 1) : a \in Attempts /\ a < op[o].next
  <2>1. op[o].next \in 1..(N + 1)
    <3>1. op[o] \in Memory
      BY DEF Inv, Types
    <3> QED
      BY <3>1 DEF Memory
  <2>2. ClaimSound(op[o]) /\ LedgerSound(op[o])
    BY DEF Inv, LedgerInv
  <2> QED
    BY <2>1, <2>2, SMTT(30)
<1>3. ASSUME NEW o \in Operations, NEW a \in 1..(op[o].next - 1)
      PROVE  /\ record[a] # "none"
             /\ record[a] = "failed" => a = op[o].next - 1 /\ op[o].terminal
  BY <1>2, Zenon DEF ClaimSound, LedgerSound
<1>4. ASSUME NEW o \in Operations
      PROVE  /\ Len(op[o].records) = Cardinality((1..(op[o].next - 1)) \cap Targets)
             /\ \A a \in (1..(op[o].next - 1)) \cap Targets :
                   op[o].records[Cardinality((1..a) \cap Targets)] = record[a]
  BY <1>2, Zenon DEF LedgerSound, TargetCount
<1> QED
  BY <1>1, <1>3, <1>4, Zenon DEF SettledDurably

\* What an owner has settled is durable and what it retains for the ledger is
\* what was committed, for any number of operations and attempts and any
\* choice of targets (active.rs:247, outcome.rs:101, candidate_closeout.rs:155).
THEOREM SettledLedger == Spec => []SettledDurably
<1>1. Init => Inv /\ LedgerInv
  BY InitInv, InitLedger
<1>2. Inv /\ LedgerInv /\ [Next]_vars => (Inv /\ LedgerInv)'
  BY NextInv, NextLedger
<1>3. Inv /\ LedgerInv => SettledDurably
  BY LedgerDurable
<1> QED
  BY <1>1, <1>2, <1>3, PTL DEF Spec

-----------------------------------------------------------------------------
(* Publication: an operation meets no file and no row of another one.      *)

\* An operation has published nothing of the attempt it runs, and what its own
\* last step left of the attempt it closes out.
DirectorySound(m) ==
    /\ m.started => m.pending = "none"
    /\ m.pc \in CloseoutPcs \ {"failCloseout"} => m.pending = "taken"
    /\ m.started \/ m.pending = "full" \/ m.pc = "parent" => directory[m.next] = "absent"
    /\ m.pc \in {"probeStage", "probe", "stage", "publish"} => directory[m.next] = "empty"
    /\ m.pc = "probeRemove" => directory[m.next] = "other"
    /\ m.pc \in {"verify", "persistCompleted"} => directory[m.next] = "bundle"

\* Directories come after checkpoints.
DirectoriesClaimed == \A a \in Attempts : a \notin precursors => directory[a] = "absent"

DInv == Inv /\ DirectoriesClaimed /\ \A o \in Operations : DirectorySound(op[o])

\* What a closeout relies on still holds where it relies on it, although nothing
\* locks the evidence repository: the rename of the probe and that of the bundle
\* find the name free, the probe that is removed is its own, and the settlement
\* finds the bundle that was verified and no record of the attempt
\* (generation_evidence_bundle/publish.rs:163, 201, candidate_closeout.rs:155,
\* 301, outcome.rs:101).
PublishesAlone ==
    \A o \in Operations :
        LET a == op[o].next IN
        /\ op[o].pc \in {"probe", "publish"} => directory[a] = "empty"
        /\ op[o].pc = "probeRemove" => directory[a] = "other"
        /\ op[o].pc \in {"verify", "persistCompleted"} => directory[a] = "bundle"
        /\ op[o].pc \in {"persistCompleted", "persistFailed", "failCloseout"} =>
              record[a] = "none"

\* Durable evidence is only added to: no operation takes back a checkpoint, a
\* record, a bundle or a row of a phase, or writes another outcome over it (bundles
\* are published without replacing, generation_evidence_bundle/publish.rs:201, and
\* rows inserted in transactions, generation_qualification_preregistration/
\* repository.rs:140).
EvidenceForGood ==
    [][/\ precursors \subseteq precursors'
       /\ \A a \in Attempts : /\ record[a] # "none" => record'[a] = record[a]
                              /\ directory[a] = "bundle" => directory'[a] = "bundle"
       /\ \A r \in Repetitions : evidence[r] <= evidence'[r]
       /\ published <= published'
       /\ resource # "none" => resource' = resource
       /\ verdict # "none" => verdict' = verdict]_vars

\* From m to n, an operation keeps what it holds or lets go of it, outside the
\* publication.
Leaves(n, m) ==
    /\ n.pc \notin CloseoutPcs \ {"failCloseout"}
    /\ \/ ~n.started /\ n.pending = "none"
       \/ n.next = m.next /\ n.started = m.started /\ n.pending = m.pending

\* A step of operation o, seen from the directories.
DirectoryStep(o) ==
    /\ \A p \in Operations \ {o} : op'[p] = op[p]
    /\ precursors \subseteq precursors'
    /\ \/ directory' = directory
       \/ /\ Holds(op[o]) /\ directory[op[o].next] # "bundle"
          /\ \E d : directory' = [directory EXCEPT ![op[o].next] = d]
    /\ DirectorySound(op[o])'

\* A step outside the publication.
LEMMA LeavesDirectory ==
    ASSUME DInv, NEW o \in Operations, NEW n, op' = [op EXCEPT ![o] = n],
           directory' = directory, precursors \subseteq precursors', Leaves(n, op[o])
    PROVE  DirectoryStep(o)
<1>1. op'[o] = n /\ \A p \in Operations \ {o} : op'[p] = op[p]
  BY DEF DInv, Inv, Types
<1>2. DirectorySound(op[o])
  BY DEF DInv
<1>3. DirectorySound(op[o])'
  BY <1>1, <1>2, Zenon DEF Leaves, DirectorySound, CloseoutPcs
<1> QED
  BY <1>1, <1>3 DEF DirectoryStep

\* Stopping keeps what is held.
LEMMA StopLeaves ==
    ASSUME NEW m \in Memory
    PROVE  Leaves(Stop(m), m)
  BY DEF Stop, Memory, Leaves, CloseoutPcs

\* A settled attempt is no longer held.
LEMMA SettleLeaves ==
    ASSUME NEW m \in Memory, NEW outcome
    PROVE  Leaves(Settle(m, outcome), m)
  BY DEF Settle, Memory, Leaves, CloseoutPcs

\* A fresh or refused operation holds nothing.
LEMMA FreshLeaves ==
    ASSUME NEW m
    PROVE  /\ \A pc \in {"idle", "gone"} : Leaves(Fresh(pc), m)
           /\ \A why, at : Leaves(Refused(why, at), m)
  BY DEF Fresh, Refused, Leaves, CloseoutPcs

\* A step of the publication itself.
LEMMA PublicationDirectory ==
    ASSUME DInv, NEW o \in Operations,
           \/ CreateParent(o) \/ StageTree(o) \/ PublishTree(o) \/ RemoveProbe(o)
           \/ VerifyCloseout(o)
    PROVE  DirectoryStep(o)
<1> DEFINE m == op[o]
           a == op[o].next
<1>1. m \in Memory /\ ControlSound(m) /\ DirectorySound(m) /\ UNCHANGED precursors
  BY DEF DInv, Inv, Types, CreateParent, StageTree, PublishTree, RemoveProbe, VerifyCloseout,
     candidateVars
<1>2. m.pc \in CloseoutPcs \ {"failCloseout"}
  BY DEF CreateParent, StageTree, PublishTree, RemoveProbe, VerifyCloseout, CloseoutPcs
<1>3. Holds(m) /\ m.pending = "taken" /\ ~m.started /\ a \in Attempts
  BY <1>1, <1>2, Zenon DEF ControlSound, DirectorySound, Holds
<1>4. directory \in [Attempts -> {"absent", "empty", "other", "bundle"}]
  BY DEF DInv, Inv, Types
<1>5. ASSUME NEW pc \in Pcs, op' = [op EXCEPT ![o].pc = pc]
      PROVE  /\ op'[o].pc = pc /\ op'[o].next = a /\ op'[o].pending = "taken"
             /\ ~op'[o].started /\ \A p \in Operations \ {o} : op'[p] = op[p]
  BY <1>1, <1>3, <1>5 DEF DInv, Inv, Types, Memory
<1>6. ASSUME DirectorySound(op[o])', \A p \in Operations \ {o} : op'[p] = op[p],
             NEW d, directory' = [directory EXCEPT ![a] = d], directory[a] # "bundle"
      PROVE  DirectoryStep(o)
  BY <1>1, <1>3, <1>6, Zenon DEF DirectoryStep
<1>7. ASSUME DirectorySound(op[o])', \A p \in Operations \ {o} : op'[p] = op[p],
             directory' = directory
      PROVE  DirectoryStep(o)
  BY <1>1, <1>7, Zenon DEF DirectoryStep
<1>8. CASE CreateParent(o)
  <2>1. /\ directory' = [directory EXCEPT ![a] = IF @ = "absent" THEN "empty" ELSE @]
        /\ op' = [op EXCEPT ![o].pc = "probeStage"] /\ m.pc = "parent"
    BY <1>8 DEF CreateParent
  <2>2. directory[a] = "absent"
    BY <1>1, <2>1 DEF DirectorySound
  <2>3. directory' = [directory EXCEPT ![a] = "empty"] /\ directory'[a] = "empty"
    BY <1>3, <1>4, <2>1, <2>2
  <2>4. /\ op'[o].pc = "probeStage" /\ op'[o].next = a /\ op'[o].pending = "taken"
        /\ ~op'[o].started /\ \A p \in Operations \ {o} : op'[p] = op[p]
    BY <1>5, <2>1, Zenon DEF Pcs, CloseoutPcs
  <2>5. DirectorySound(op[o])'
    BY <2>3, <2>4, Zenon DEF DirectorySound
  <2> QED
    BY <1>6, <2>2, <2>3, <2>4, <2>5, Zenon
<1>9. CASE StageTree(o)
  <2> DEFINE pc == IF m.pc = "stage" THEN "publish" ELSE "probe"
  <2>1. /\ directory' = directory /\ m.pc \in {"probeStage", "stage"}
        /\ op' = [op EXCEPT ![o].pc = pc] /\ pc \in {"publish", "probe"}
    BY <1>9 DEF StageTree
  <2>2. directory[a] = "empty"
    BY <1>1, <2>1 DEF DirectorySound
  <2> HIDE DEF pc
  <2>3. /\ op'[o].pc = pc /\ op'[o].next = a /\ op'[o].pending = "taken"
        /\ ~op'[o].started /\ \A p \in Operations \ {o} : op'[p] = op[p]
    BY <1>5, <2>1, Zenon DEF Pcs, CloseoutPcs
  <2>4. DirectorySound(op[o])'
    BY <2>1, <2>2, <2>3 DEF DirectorySound
  <2> QED
    BY <1>7, <2>1, <2>3, <2>4
<1>10. CASE PublishTree(o)
  <2> DEFINE d == IF m.pc = "publish" THEN "bundle" ELSE "other"
             pc == IF m.pc = "publish" THEN "verify" ELSE "probeRemove"
  <2>1. /\ directory' = [directory EXCEPT ![a] = d] /\ op' = [op EXCEPT ![o].pc = pc]
        /\ directory[a] # "bundle"
        /\ (pc = "verify" /\ d = "bundle") \/ (pc = "probeRemove" /\ d = "other")
    BY <1>10 DEF PublishTree
  <2> HIDE DEF d, pc
  <2>2. directory'[a] = d
    BY <1>3, <1>4, <2>1
  <2>3. /\ op'[o].pc = pc /\ op'[o].next = a /\ op'[o].pending = "taken"
        /\ ~op'[o].started /\ \A p \in Operations \ {o} : op'[p] = op[p]
    BY <1>5, <2>1, Zenon DEF Pcs, CloseoutPcs
  <2>4. DirectorySound(op[o])'
    BY <2>1, <2>2, <2>3 DEF DirectorySound
  <2> QED
    BY <1>6, <2>1, <2>3, <2>4, Zenon
<1>11. CASE RemoveProbe(o)
  <2>1. /\ directory' = [directory EXCEPT ![a] = "empty"] /\ m.pc = "probeRemove"
        /\ op' = [op EXCEPT ![o].pc = "stage"]
    BY <1>11 DEF RemoveProbe
  <2>2. directory[a] = "other" /\ directory'[a] = "empty"
    BY <1>1, <1>3, <1>4, <2>1 DEF DirectorySound
  <2>3. /\ op'[o].pc = "stage" /\ op'[o].next = a /\ op'[o].pending = "taken"
        /\ ~op'[o].started /\ \A p \in Operations \ {o} : op'[p] = op[p]
    BY <1>5, <2>1, Zenon DEF Pcs, CloseoutPcs
  <2>4. DirectorySound(op[o])'
    BY <2>2, <2>3, Zenon DEF DirectorySound
  <2> QED
    BY <1>6, <2>1, <2>2, <2>3, <2>4, Zenon
<1>12. CASE VerifyCloseout(o)
  <2>1. /\ directory' = directory /\ m.pc = "verify"
        /\ op' = [op EXCEPT ![o].pc = "persistCompleted"]
    BY <1>12 DEF VerifyCloseout, candidateVars
  <2>2. /\ op'[o].pc = "persistCompleted" /\ op'[o].next = a /\ op'[o].pending = "taken"
        /\ ~op'[o].started /\ \A p \in Operations \ {o} : op'[p] = op[p]
    BY <1>5, <2>1, Zenon DEF Pcs, CloseoutPcs
  <2>3. DirectorySound(op[o])'
    BY <1>1, <2>1, <2>2 DEF DirectorySound
  <2> QED
    BY <1>7, <2>1, <2>2, <2>3
<1> QED
  BY <1>8, <1>9, <1>10, <1>11, <1>12

\* An attempt that is checkpointed, or waits for its closeout, has no directory.
LEMMA ClaimDirectory ==
    ASSUME DInv, NEW o \in Operations,
           Checkpoint(o) \/ RunCompleted(o) \/ BeginCloseout(o)
    PROVE  DirectoryStep(o)
<1> DEFINE m == op[o]
<1>1. /\ m \in Memory /\ ControlSound(m) /\ DirectorySound(m) /\ DirectoriesClaimed
      /\ op \in [Operations -> Memory]
  BY DEF DInv, Inv, Types
<1>2. directory' = directory /\ precursors \subseteq precursors'
  BY DEF Checkpoint, RunCompleted, BeginCloseout, candidateVars
<1>3. ASSUME NEW n, op' = [op EXCEPT ![o] = n]
      PROVE  op'[o] = n /\ \A p \in Operations \ {o} : op'[p] = op[p]
  BY <1>1, <1>3
<1>4. CASE Checkpoint(o)
  <2> DEFINE n == [m EXCEPT !.pc = "running", !.started = TRUE]
  <2>1. op' = [op EXCEPT ![o] = n] \/ op' = [op EXCEPT ![o] = m]
    <3>1. op = [op EXCEPT ![o] = m]
      BY <1>1
    <3> QED
      BY <1>4, <3>1, Zenon DEF Checkpoint
  <2>2. m.pc = "idle" /\ m.pending = "none" /\ m.next \in Attempts /\ m.next \notin precursors
    BY <1>4 DEF Checkpoint, MayRunCandidate
  <2>3. CASE op' = [op EXCEPT ![o] = m]
    <3>1. Leaves(m, m)
      BY <2>2 DEF Leaves, CloseoutPcs
    <3> QED
      BY <1>2, <2>3, <3>1, LeavesDirectory, Zenon
  <2>4. CASE op' = [op EXCEPT ![o] = n]
    <3>1. n.pc = "running" /\ n.started /\ n.pending = "none" /\ n.next = m.next
      BY <1>1, <2>2 DEF Memory
    <3>2. directory[m.next] = "absent"
      BY <1>1, <2>2 DEF DirectoriesClaimed
    <3> HIDE DEF n
    <3> QED
      BY <1>2, <1>3, <2>4, <3>1, <3>2, Zenon DEF DirectoryStep, DirectorySound, CloseoutPcs
  <2> QED
    BY <2>1, <2>3, <2>4
<1>5. CASE RunCompleted(o)
  <2> DEFINE n == [m EXCEPT !.pc = "idle", !.started = FALSE, !.pending = "full"]
  <2>1. op' = [op EXCEPT ![o] = n] /\ m.pc = "sent"
    BY <1>5, Zenon DEF RunCompleted
  <2>2. n.pc = "idle" /\ ~n.started /\ n.pending = "full" /\ n.next = m.next
    BY <1>1, Zenon DEF Memory
  <2>3. directory[m.next] = "absent"
    BY <1>1, <2>1 DEF ControlSound, CandidatePcs, DirectorySound
  <2> HIDE DEF n
  <2> QED
    BY <1>2, <1>3, <2>1, <2>2, <2>3, Zenon DEF DirectoryStep, DirectorySound, CloseoutPcs
<1>6. CASE BeginCloseout(o)
  <2> DEFINE n(matches) ==
          [m EXCEPT !.pc = IF matches THEN "parent" ELSE "failCloseout",
                    !.pending = IF matches THEN "taken" ELSE m.pending]
  <2>1. PICK matches \in BOOLEAN : op' = [op EXCEPT ![o] = n(matches)]
    BY <1>6, ZenonT(60) DEF BeginCloseout
  <2>2. m.pending = "full" /\ ~m.started /\ directory[m.next] = "absent"
    BY <1>1, <1>6, Zenon DEF BeginCloseout, DirectorySound
  <2> DEFINE k == n(matches)
  <2>3. /\ k.pc = IF matches THEN "parent" ELSE "failCloseout"
        /\ k.pending = IF matches THEN "taken" ELSE m.pending
        /\ k.started = m.started /\ k.next = m.next
    BY <1>1, Zenon DEF Memory
  <2> HIDE DEF k
  <2>4. op'[o] = k /\ \A p \in Operations \ {o} : op'[p] = op[p]
    BY <1>3, <2>1, Zenon DEF k
  <2>5. DirectorySound(op[o])'
    BY <1>2, <2>2, <2>3, <2>4 DEF DirectorySound, CloseoutPcs
  <2> QED
    BY <1>2, <2>4, <2>5, Zenon DEF DirectoryStep
<1> QED
  BY <1>4, <1>5, <1>6

\* Every step of an operation is such a step.
LEMMA DirectorySteps ==
    ASSUME DInv, NEW o \in Operations, Step(o)
    PROVE  DirectoryStep(o)
<1> DEFINE m == op[o]
<1>m. m \in Memory /\ op \in [Operations -> Memory]
  BY DEF DInv, Inv, Types
<1>s. Leaves(Stop(m), m)
  BY <1>m, StopLeaves
<1>0. ASSUME UNCHANGED <<directory, precursors>>, NEW n, op' = [op EXCEPT ![o] = n],
             Leaves(n, m)
      PROVE  DirectoryStep(o)
  BY <1>0, LeavesDirectory, Zenon
<1>1. CASE ReadAdmission(o)
  <2> DEFINE n == [m EXCEPT !.pc = "staging",
                            !.classes = [a \in Attempts |-> StoreClass(a)]]
  <2>1. op' = [op EXCEPT ![o] = n] /\ UNCHANGED <<directory, precursors>>
    BY <1>1, Zenon DEF ReadAdmission, candidateVars
  <2>2. Leaves(n, m)
    BY <1>m DEF Memory, Leaves, CloseoutPcs
  <2> QED
    BY <1>0, <2>1, <2>2, Zenon
<1>2. CASE RequireClearStaging(o)
  <2> DEFINE n == [m EXCEPT !.pc = "scan", !.at = 1]
             x == Refused("UnexpectedStaging", 0)
  <2>1. /\ op' = [op EXCEPT ![o] = n] \/ op' = [op EXCEPT ![o] = x]
        /\ UNCHANGED <<directory, precursors>>
    BY <1>2, Zenon DEF RequireClearStaging, candidateVars
  <2>2. Leaves(n, m)
    BY <1>m DEF Memory, Leaves, CloseoutPcs
  <2>3. Leaves(x, m)
    BY FreshLeaves, Zenon
  <2> QED
    BY <1>0, <2>1, <2>2, <2>3, Zenon
<1>3. CASE ScanAttempt(o)
  <2> DEFINE a == m.at
             n == [m EXCEPT !.at = a + 1]
             x == Refused(DecideAttempt(m.classes[a], directory[a]), a)
  <2>1. /\ \/ op' = [op EXCEPT ![o] = n]
           \/ op' = [op EXCEPT ![o] = Fresh("idle")]
           \/ op' = [op EXCEPT ![o] = x]
        /\ UNCHANGED <<directory, precursors>>
    BY <1>3, Zenon DEF ScanAttempt, candidateVars
  <2>2. Leaves(n, m)
    BY <1>m, <1>3 DEF ScanAttempt, Memory, Leaves, CloseoutPcs
  <2>3. Leaves(Fresh("idle"), m) /\ Leaves(x, m)
    BY FreshLeaves, Zenon
  <2> QED
    BY <1>0, <2>1, <2>2, <2>3, Zenon
<1>4. CASE RefuseActivation(o)
  BY <1>4, <1>0, FreshLeaves, Zenon DEF RefuseActivation, candidateVars
<1>5. CASE Checkpoint(o) \/ RunCompleted(o) \/ BeginCloseout(o)
  BY <1>5, ClaimDirectory, Zenon
<1>6. CASE CheckpointReplay(o) \/ RunError(o) \/ Terminate(o)
  BY <1>6, <1>0, <1>s, Zenon DEF CheckpointReplay, RunError, Terminate, candidateVars
<1>7. ASSUME NEW pc \in {"sent", "idle", "persistFailed", "judging", "failCloseout"},
             op' = [op EXCEPT ![o] = [m EXCEPT !.pc = pc]],
             UNCHANGED <<directory, precursors>>
      PROVE  DirectoryStep(o)
  <2>1. Leaves([m EXCEPT !.pc = pc], m)
    BY <1>m DEF Memory, Leaves, CloseoutPcs
  <2> QED
    BY <1>0, <1>7, <2>1, Zenon
<1>8. CASE SendCandidate(o) \/ DropRun(o) \/ RunFailed(o) \/ RunJudge(o) \/ CloseoutError(o)
  <2>1. PICK pc \in {"sent", "idle", "persistFailed", "judging", "failCloseout"} :
           op' = [op EXCEPT ![o] = [m EXCEPT !.pc = pc]]
    BY <1>8, Zenon DEF SendCandidate, DropRun, RunFailed, RunJudge, CloseoutError
  <2>2. UNCHANGED <<directory, precursors>>
    BY <1>8 DEF SendCandidate, DropRun, RunFailed, RunJudge, CloseoutError, candidateVars
  <2> QED
    BY <1>7, <2>1, <2>2, Zenon
<1>9. CASE CreateParent(o) \/ StageTree(o) \/ PublishTree(o) \/ RemoveProbe(o)
           \/ VerifyCloseout(o)
  BY <1>9, PublicationDirectory, Zenon
<1>10. ASSUME NEW ledger, op' = [op EXCEPT ![o] = [m EXCEPT !.ledger = ledger]], SealLedger(o)
       PROVE  DirectoryStep(o)
  <2>1. m.pc = "idle" /\ UNCHANGED <<directory, precursors>>
    BY <1>10 DEF SealLedger, candidateVars
  <2>2. Leaves([m EXCEPT !.ledger = ledger], m)
    BY <1>m, <2>1 DEF Memory, Leaves, CloseoutPcs
  <2> QED
    BY <1>0, <1>10, <2>1, <2>2, Zenon
<1>11. CASE SealLedger(o)
  <2>1. op' = [op EXCEPT ![o] = [m EXCEPT !.ledger = DeriveStatus(m)]]
    BY <1>11 DEF SealLedger
  <2> QED
    BY <1>10, <1>11, <2>1, Zenon
<1>12. CASE JudgeEnds(o)
  <2> DEFINE n == [m EXCEPT !.pc = "idle", !.judged = m.judged + 1]
             k == [m EXCEPT !.pc = "idle"]
  <2>1. /\ \/ op' = [op EXCEPT ![o] = n]
           \/ op' = [op EXCEPT ![o] = Stop(m)]
           \/ op' = [op EXCEPT ![o] = k]
        /\ UNCHANGED <<directory, precursors>>
    BY <1>12 DEF JudgeEnds, candidateVars
  <2>2. Leaves(n, m) /\ Leaves(k, m)
    BY <1>m DEF Memory, Leaves, CloseoutPcs
  <2> QED
    BY <1>0, <1>s, <2>1, <2>2, Zenon
<1>13. ASSUME NEW r \in Repetitions, BeginDeterministic(o, r)
       PROVE  DirectoryStep(o)
  <2> DEFINE n == [m EXCEPT !.pc = "settling", !.repetition = r, !.at = TargetReceipts]
  <2>1. op' = [op EXCEPT ![o] = n] /\ UNCHANGED <<directory, precursors>>
    BY <1>13, Zenon DEF BeginDeterministic, candidateVars
  <2>2. Leaves(n, m)
    BY <1>m DEF Memory, Leaves, CloseoutPcs
  <2> QED
    BY <1>0, <2>1, <2>2, Zenon
<1>14. ASSUME NEW r \in Repetitions, SettleJudge(o, r)
       PROVE  DirectoryStep(o)
  <2> DEFINE n == [m EXCEPT !.settled = Later(m.settled, r)]
  <2>1. /\ op' = [op EXCEPT ![o] = n] \/ op' = [op EXCEPT ![o] = Stop(m)]
        /\ UNCHANGED <<directory, precursors>> /\ m.pc = "idle"
    BY <1>14, Zenon DEF SettleJudge, MaySettle, candidateVars
  <2>2. Leaves(n, m)
    BY <1>m, <2>1 DEF Memory, Leaves, CloseoutPcs
  <2> QED
    BY <1>0, <1>s, <2>1, <2>2, Zenon
<1>15. CASE SettleDeterministic(o) \/ PublishRepeatability(o)
  <2> DEFINE n == [m EXCEPT !.at = m.at + 1]
             k == [m EXCEPT !.pc = "idle"]
  <2>1. /\ \/ op' = [op EXCEPT ![o] = n]
           \/ op' = [op EXCEPT ![o] = Stop(m)]
           \/ op' = [op EXCEPT ![o] = k]
        /\ UNCHANGED <<directory, precursors>> /\ m.pc \in {"settling", "publishing"}
    BY <1>15 DEF SettleDeterministic, PublishRepeatability, candidateVars
  <2>2. Leaves(n, m) /\ Leaves(k, m)
    BY <1>m, <2>1 DEF Memory, Leaves, CloseoutPcs
  <2> QED
    BY <1>0, <1>s, <2>1, <2>2, Zenon
<1>16. CASE BeginRepeatability(o)
  <2> DEFINE n == [m EXCEPT !.pc = "publishing", !.at = 1]
  <2>1. op' = [op EXCEPT ![o] = n] /\ UNCHANGED <<directory, precursors>>
    BY <1>16, Zenon DEF BeginRepeatability, candidateVars
  <2>2. Leaves(n, m)
    BY <1>m DEF Memory, Leaves, CloseoutPcs
  <2> QED
    BY <1>0, <2>1, <2>2, Zenon
<1>17. ASSUME NEW status, SettleResource(o, status)
       PROVE  DirectoryStep(o)
  <2>1. /\ op' = [op EXCEPT ![o] = m] \/ op' = [op EXCEPT ![o] = Stop(m)]
        /\ UNCHANGED <<directory, precursors>> /\ m.pc = "idle"
    BY <1>17, Zenon DEF SettleResource, AllSettled, MaySettle, candidateVars
  <2>2. Leaves(m, m)
    BY <2>1 DEF Leaves, CloseoutPcs
  <2> QED
    BY <1>0, <1>s, <2>1, <2>2, Zenon
<1>20. ASSUME NEW r \in Repetitions, PersistTargetReceiptSet(o, r)
       PROVE  DirectoryStep(o)
  <2>1. /\ op' = [op EXCEPT ![o] = m] \/ op' = [op EXCEPT ![o] = Stop(m)]
        /\ UNCHANGED <<directory, precursors>> /\ m.pc = "idle"
    BY <1>20, Zenon DEF PersistTargetReceiptSet, MaySettle, candidateVars
  <2>2. Leaves(m, m)
    BY <2>1 DEF Leaves, CloseoutPcs
  <2> QED
    BY <1>0, <1>s, <2>1, <2>2, Zenon
<1>18. CASE Close(o) \/ Crash(o)
  BY <1>18, <1>0, FreshLeaves, Zenon DEF Close, Crash, candidateVars
<1>19. CASE PersistFailedCandidate(o) \/ PersistCompleted(o) \/ FailCloseout(o)
  <2> DEFINE n(i) == [Settle(m, "failed") EXCEPT !.interrupted = i]
  <2>1. UNCHANGED <<directory, precursors>>
    BY <1>19 DEF PersistFailedCandidate, PersistCompleted, FailCloseout
  <2>2. \/ op' = [op EXCEPT ![o] = Stop(m)]
        \/ \E outcome : op' = [op EXCEPT ![o] = Settle(m, outcome)]
        \/ \E i : op' = [op EXCEPT ![o] = n(i)]
    BY <1>19, Zenon DEF PersistFailedCandidate, PersistCompleted, FailCloseout
  <2>3. \A outcome : Leaves(Settle(m, outcome), m)
    BY <1>m, SettleLeaves
  <2>4. \A i : Leaves(n(i), m)
    BY <1>m DEF Settle, Memory, Leaves, CloseoutPcs
  <2> HIDE DEF n
  <2> QED
    BY <1>0, <1>s, <2>1, <2>2, <2>3, <2>4, Zenon
<1> QED
  BY <1>1, <1>2, <1>3, <1>4, <1>5, <1>6, <1>8, <1>9, <1>11, <1>12, <1>13, <1>14, <1>15,
     <1>16, <1>17, <1>18, <1>19, <1>20, Zenon DEF Step

\* Every step keeps what the directories hold in line with the operations: only
\* the one owner of the plan changes a directory, that of the attempt it holds.
LEMMA NextDInv ==
    ASSUME DInv, [Next]_vars
    PROVE  DInv'
<1>1. Inv'
  BY NextInv DEF DInv
<1>2. CASE UNCHANGED vars
  <2>1. UNCHANGED <<directory, precursors, op>>
    BY <1>2 DEF vars, candidateVars
  <2> QED
    BY <1>1, <2>1, Zenon DEF DInv, DirectoriesClaimed, DirectorySound
<1>3. ASSUME NEW o \in Operations, Step(o)
      PROVE  DInv'
  <2>1. DirectoryStep(o)
    BY <1>3, DirectorySteps
  <2>2. Holds(op[o]) => op[o].next \in precursors
    BY Zenon DEF DInv, Inv, ClaimSound
  <2>3. DirectoriesClaimed'
    BY <2>1, <2>2, Zenon DEF DirectoryStep, DInv, DirectoriesClaimed, Inv, Types
  <2>4. ASSUME NEW p \in Operations \ {o} PROVE DirectorySound(op[p])'
    <3>1. op'[p] = op[p] /\ DirectorySound(op[p]) /\ ControlSound(op[p])
      BY <2>1, Zenon DEF DirectoryStep, DInv, Inv
    <3>2. CASE ~Holds(op[p])
      BY <3>1, <3>2, Zenon DEF DirectorySound, ControlSound, Holds, CloseoutPcs
    <3>3. CASE Holds(op[p])
      <4>1. ~Holds(op[o])
        BY <3>3, Zenon DEF DInv, Inv, OneOwner, Owns, Holds
      <4>2. directory' = directory
        BY <2>1, <4>1, Zenon DEF DirectoryStep
      <4> QED
        BY <3>1, <4>2, Zenon DEF DirectorySound
    <3> QED
      BY <3>2, <3>3
  <2>5. DirectorySound(op[o])'
    BY <2>1 DEF DirectoryStep
  <2> QED
    BY <1>1, <2>3, <2>4, <2>5 DEF DInv
<1> QED
  BY <1>2, <1>3 DEF Next

\* The invariant of publication holds in every reachable state.
THEOREM ClosingInvariant == Spec => []DInv
<1>1. ASSUME Init PROVE DInv
  <2>1. Inv
    BY <1>1, InitInv
  <2>2. DirectoriesClaimed
    BY <1>1 DEF Init, DirectoriesClaimed
  <2>3. ASSUME NEW o \in Operations PROVE DirectorySound(op[o])
    <3>1. op[o].pc = "prepared" /\ ~op[o].started /\ op[o].pending = "none"
      BY <1>1, Zenon DEF Init, Fresh
    <3> QED
      BY <3>1 DEF DirectorySound, CloseoutPcs
  <2> QED
    BY <2>1, <2>2, <2>3 DEF DInv
<1> QED
  BY <1>1, NextDInv, PTL DEF Spec

\* However many operations are prepared for a plan, a closeout never meets the
\* files or the rows of another one (generation_evidence_bundle/publish.rs:201,
\* candidate_closeout.rs:155, 301, outcome.rs:101).
THEOREM PublishesAloneTheorem == Spec => []PublishesAlone
<1>1. ASSUME DInv PROVE PublishesAlone
  <2> SUFFICES ASSUME NEW o \in Operations
               PROVE  LET a == op[o].next IN
                      /\ op[o].pc \in {"probe", "publish"} => directory[a] = "empty"
                      /\ op[o].pc = "probeRemove" => directory[a] = "other"
                      /\ op[o].pc \in {"verify", "persistCompleted"} => directory[a] = "bundle"
                      /\ op[o].pc \in {"persistCompleted", "persistFailed", "failCloseout"} =>
                            record[a] = "none"
    BY DEF PublishesAlone
  <2>1. DirectorySound(op[o]) /\ ControlSound(op[o]) /\ ClaimSound(op[o])
    BY <1>1 DEF DInv, Inv
  <2> QED
    BY <2>1, Zenon DEF DirectorySound, ControlSound, ClaimSound, Holds, CandidatePcs, CloseoutPcs
<1> QED
  BY <1>1, ClosingInvariant, PTL

\* Rows are counted by numbers.
LEMMA RowNumbers == PublishedRows \in Nat /\ Judged = 4
  BY QualificationAssumption DEF PublishedRows, Judged

\* What a step does to the rows of the attempts and of the phases.
LEMMA RowsForGood ==
    ASSUME DInv, NEW o \in Operations, Step(o)
    PROVE  /\ \A a \in Attempts : record[a] # "none" => record'[a] = record[a]
           /\ \A r \in Repetitions : evidence[r] <= evidence'[r]
           /\ published <= published'
           /\ resource # "none" => resource' = resource
           /\ verdict # "none" => verdict' = verdict
<1>1. /\ record \in [Attempts -> {"none", "failed", "completed"}]
      /\ evidence \in [Repetitions -> 0..Judged] /\ published \in 0..PublishedRows
      /\ ControlSound(op[o])
  BY Zenon DEF DInv, Inv, Types
<1>n. PublishedRows \in Nat /\ Judged = 4
  BY RowNumbers
<1>2. \A r \in Repetitions : evidence[r] \in 0..Judged /\ evidence[r] <= evidence[r]
  <2> SUFFICES ASSUME NEW r \in Repetitions
               PROVE  evidence[r] \in 0..Judged /\ evidence[r] <= evidence[r]
    OBVIOUS
  <2>1. evidence[r] \in 0..Judged
    BY <1>1, Zenon
  <2> QED
    BY <1>n, <2>1
<1>3. CASE PersistFailedCandidate(o) \/ PersistCompleted(o) \/ FailCloseout(o)
  <2>1. UNCHANGED phaseVars
    BY <1>3 DEF PersistFailedCandidate, PersistCompleted, FailCloseout
  <2>2. \/ record' = record
        \/ \E outcome \in {"failed", "completed"} :
              /\ record[op[o].next] \in {"none", outcome}
              /\ record' = [record EXCEPT ![op[o].next] = outcome]
    BY <1>3, Zenon DEF PersistFailedCandidate, PersistCompleted, FailCloseout
  <2>3. \A a \in Attempts : record[a] # "none" => record'[a] = record[a]
    BY <1>1, <2>2, Zenon
  <2> QED
    BY <1>1, <1>2, <2>1, <2>3 DEF phaseVars
<1>4. CASE SettleDeterministic(o)
  <2>1. UNCHANGED <<record, published, resource, verdict>>
    BY <1>4 DEF SettleDeterministic, candidateVars
  <2>2. \/ evidence' = evidence
        \/ evidence' = [evidence EXCEPT ![op[o].repetition] = Later(@, op[o].at)]
    BY <1>4 DEF SettleDeterministic
  <2>3. op[o].at \in 1..Evaluated
    BY <1>1, <1>4 DEF SettleDeterministic, ControlSound
  <2>4. \A r \in Repetitions : evidence[r] <= evidence'[r]
    BY <1>1, <1>2, <1>n, <2>2, <2>3 DEF Later, Evaluated
  <2> QED
    BY <1>1, <2>1, <2>4
<1>5. CASE \E r \in Repetitions : SettleJudge(o, r)
  <2>1. UNCHANGED <<record, published, resource, verdict>>
    BY <1>5 DEF SettleJudge, candidateVars
  <2>2. \/ evidence' = evidence
        \/ \E r \in Repetitions : evidence' = [evidence EXCEPT ![r] = Judged]
    BY <1>5 DEF SettleJudge
  <2>3. \A r \in Repetitions : evidence[r] <= evidence'[r]
    BY <1>1, <1>2, <1>n, <2>2
  <2> QED
    BY <1>1, <2>1, <2>3
<1>10. CASE \E r \in Repetitions : PersistTargetReceiptSet(o, r)
  <2>1. UNCHANGED <<record, published, resource, verdict>>
    BY <1>10, Zenon DEF PersistTargetReceiptSet, candidateVars
  <2>2. \/ evidence' = evidence
        \/ \E r \in Repetitions :
              evidence' = [evidence EXCEPT ![r] = Later(evidence[r], TargetReceipts)]
    BY <1>10, Zenon DEF PersistTargetReceiptSet
  <2>3. \A r \in Repetitions : evidence[r] <= evidence'[r]
    BY <1>1, <1>2, <1>n, <2>2 DEF Later, TargetReceipts
  <2> QED
    BY <1>1, <2>1, <2>3
<1>6. CASE PublishRepeatability(o)
  <2>1. UNCHANGED <<record, evidence, resource, verdict>>
    BY <1>6 DEF PublishRepeatability, candidateVars
  <2>2. published' = published \/ published' = Later(published, op[o].at)
    BY <1>6 DEF PublishRepeatability
  <2>3. op[o].at \in 1..PublishedRows
    BY <1>1, <1>6 DEF PublishRepeatability, ControlSound
  <2>4. published <= published'
    BY <1>1, <1>n, <2>2, <2>3 DEF Later
  <2> QED
    BY <1>2, <2>1, <2>4
<1>7. CASE \E status \in {"passed", "failed"} : SettleResource(o, status)
  <2>1. UNCHANGED <<record, evidence, published, verdict>>
    BY <1>7 DEF SettleResource, candidateVars
  <2>2. resource # "none" => resource' = resource
    BY <1>7 DEF SettleResource
  <2> QED
    BY <1>1, <1>2, <2>1, <2>2
<1>8. CASE Close(o)
  <2>1. UNCHANGED <<record, evidence, published, resource>>
    BY <1>8 DEF Close, candidateVars
  <2>2. verdict # "none" => verdict' = verdict
    BY <1>8 DEF Close
  <2> QED
    BY <1>1, <1>2, <2>1, <2>2
<1>9. CASE UNCHANGED <<record, phaseVars>>
  BY <1>1, <1>2, <1>9 DEF phaseVars
<1> QED
  BY <1>3, <1>4, <1>5, <1>6, <1>7, <1>8, <1>9, <1>10, Zenon DEF Step, candidateVars, ReadAdmission,
     RequireClearStaging, ScanAttempt, RefuseActivation, Checkpoint, CheckpointReplay,
     SendCandidate, DropRun, RunError, RunCompleted, RunFailed, BeginCloseout, CreateParent,
     StageTree, PublishTree, RemoveProbe, VerifyCloseout, CloseoutError, SealLedger, Terminate,
     RunJudge, JudgeEnds, BeginDeterministic, BeginRepeatability, Crash

\* What an operation has left durable stays, whatever later operations for the
\* plan do, and with it what refuses them (candidate.rs:241, admission.rs).
THEOREM EvidenceForGoodTheorem == Spec => EvidenceForGood
<1> DEFINE Kept ==
       /\ precursors \subseteq precursors'
       /\ \A a \in Attempts : /\ record[a] # "none" => record'[a] = record[a]
                              /\ directory[a] = "bundle" => directory'[a] = "bundle"
       /\ \A r \in Repetitions : evidence[r] <= evidence'[r]
       /\ published <= published'
       /\ resource # "none" => resource' = resource
       /\ verdict # "none" => verdict' = verdict
<1>1. DInv /\ [Next]_vars => [Kept]_vars
  <2> SUFFICES ASSUME DInv, NEW o \in Operations, Step(o) PROVE Kept
    BY Zenon DEF Next
  <2>1. DirectoryStep(o)
    BY DirectorySteps
  <2>2. precursors \subseteq precursors'
    BY <2>1 DEF DirectoryStep
  <2>3. \A a \in Attempts : directory[a] = "bundle" => directory'[a] = "bundle"
    BY <2>1, Zenon DEF DirectoryStep, DInv, Inv, Types
  <2> QED
    BY <2>2, <2>3, RowsForGood, Zenon
<1> QED
  BY <1>1, ClosingInvariant, PTL DEF Spec, EvidenceForGood
=============================================================================
