---------------------------- MODULE AttemptPlan ----------------------------
(***************************************************************************)
(* What the candidate attempts of one qualification plan promise to any    *)
(* observer of the state repository and of the model server, whatever the  *)
(* number of operations that were ever prepared for the plan: attempts are *)
(* claimed in plan order, a claimed attempt is sent to the model at most   *)
(* once, it is settled at most once, nothing follows a failed attempt, and *)
(* a verdict is only recorded over a plan whose attempts all completed.    *)
(*                                                                         *)
(* Abstracts crates/eval/src/generation_qualification_preregistration,     *)
(* whose detailed model is QualificationOperation.                         *)
(***************************************************************************)
EXTENDS Naturals

CONSTANT N   \* the number of planned attempts

Attempts == 1..N

VARIABLES
    state,      \* state[a]: how far attempt a got
    traffic,    \* traffic[a]: how often a was sent to the model
    verdict     \* the qualification record of the plan

planVars == <<state, traffic, verdict>>

PlanTypeOK ==
    /\ state \in [Attempts -> {"open", "claimed", "failed", "completed"}]
    /\ traffic \in [Attempts -> 0..1]
    /\ verdict \in {"none", "qualified", "rejected"}

PlanInit ==
    /\ state = [a \in Attempts |-> "open"]
    /\ traffic = [a \in Attempts |-> 0]
    /\ verdict = "none"

\* The durable checkpoint of the first open attempt.
Claim(a) ==
    /\ state[a] = "open"
    /\ \A b \in 1..(a - 1) : state[b] = "completed"
    /\ state' = [state EXCEPT ![a] = "claimed"]
    /\ UNCHANGED <<traffic, verdict>>

\* The request of a claimed attempt, at most once.
Send(a) ==
    /\ state[a] = "claimed"
    /\ traffic[a] = 0
    /\ traffic' = [traffic EXCEPT ![a] = 1]
    /\ UNCHANGED <<state, verdict>>

Fail(a) ==
    /\ state[a] = "claimed"
    /\ state' = [state EXCEPT ![a] = "failed"]
    /\ UNCHANGED <<traffic, verdict>>

\* Only an attempt that was sent can have completed.
Complete(a) ==
    /\ state[a] = "claimed"
    /\ traffic[a] = 1
    /\ state' = [state EXCEPT ![a] = "completed"]
    /\ UNCHANGED <<traffic, verdict>>

Decide ==
    /\ verdict = "none"
    /\ \A a \in Attempts : state[a] = "completed"
    /\ verdict' \in {"qualified", "rejected"}
    /\ UNCHANGED <<state, traffic>>

PlanNext ==
    \/ \E a \in Attempts : Claim(a) \/ Send(a) \/ Fail(a) \/ Complete(a)
    \/ Decide

PlanSpec == PlanInit /\ [][PlanNext]_planVars

=============================================================================
