--------------------------- MODULE OllamaSession ---------------------------
(***************************************************************************)
(* The single-connection Ollama client of crates/ollama/src/               *)
(* single_connection: the retained session (session.rs), its preflight and *)
(* completions, the one-shot preflight and the runtime probe, over one     *)
(* HTTP/1 connection whose every response is observed by a callback.       *)
(*                                                                         *)
(* The runtime's facts (version, inventory, model details, loaded models)  *)
(* drift while the session runs.  A response is the fact it reports at the *)
(* moment it is produced and its body size.  A waiting request can be      *)
(* answered, fail, time out or be cancelled.                               *)
(***************************************************************************)
EXTENDS Naturals, Sequences, Functions

CONSTANTS
    Models,         \* bound model references, in configuration order
    BodyLimit,      \* discovery_body_bytes and generation_body_bytes
    SessionBytes,   \* session_body_bytes
    MaxDrift,       \* bound on changes of the runtime's facts
    MaxOperations,  \* bound on preflights and completions asked for
    None            \* no operation, no preflight, no model

ASSUME SessionAssumption ==
    /\ Models \in Seq(Range(Models)) /\ Len(Models) > 0
    /\ \A i, j \in 1..Len(Models) : Models[i] = Models[j] => i = j
    /\ BodyLimit \in Nat \ {0} /\ SessionBytes \in Nat \ {0}
    /\ MaxDrift \in Nat /\ MaxOperations \in Nat

References == Range(Models)

VARIABLES
    facts,      \* what the runtime would answer now
    connected,  \* FALSE once the server has closed the connection
    kind,       \* "session", "preflight" or "probe": who owns the transport
    transport,  \* the transport's fields, or None once dropped
    preflight,  \* the facts of the successful preflight, or None
    attempted,  \* preflight_attempted
    op,         \* the running operation, or None
    answers,    \* history: the responses drained so far, in order
    observed,   \* history: phases given to the observer, in order
    sent,       \* history: requests written to the connection
    drained,    \* history: body bytes accepted
    receipts,   \* history: receipts returned to the caller
    failed,     \* history: an operation has returned an error
    drifts, operations  \* how often each bounded event happened

session == <<kind, transport, preflight, attempted>>
history == <<answers, observed, sent, drained, receipts, failed>>
vars == <<facts, connected, session, op, history, drifts, operations>>

Version == [path |-> "version", model |-> None]
Tags == [path |-> "tags", model |-> None]
Ps == [path |-> "ps", model |-> None]
Show(m) == [path |-> "show", model |-> m]
Generate(m) == [path |-> "generate", model |-> m]

\* Detail 2 is a model without the completion capability; version 0 is the
\* runtime reviewed for resident completions; inventory digest 0 is the bound
\* one.
Facts == [version : {0, 1}, tags : [References -> {0, 1}],
          details : [References -> {0, 1, 2}], running : SUBSET References]

Requests == {Version, Tags, Ps} \cup {Show(m) : m \in References}
                \cup {Generate(m) : m \in References}
Transports == [remaining : Nat, completed : Nat, inProgress : BOOLEAN]
Operations == [name : {"open", "preflight", "probe", "complete", "resident"},
               model : References \cup {None}, script : Seq(Requests), step : Nat,
               sent : BOOLEAN, first : Nat, cancelled : BOOLEAN]

ASSUME NoneAssumption == None \notin Facts \cup Transports \cup Operations

\* run_preflight: N+6 requests.
PreflightScript ==
    <<Version, Tags, Ps>> \o [i \in 1..Len(Models) |-> Show(Models[i])]
        \o <<Tags, Version, Ps>>

\* run_completion_inner: seven requests, nine with residency.
CompletionScript(m, resident) ==
    <<Version, Tags, Show(m), Generate(m)>>
        \o (IF resident THEN <<Ps>> ELSE <<>>)
        \o <<Version, Tags, Show(m)>>
        \o (IF resident THEN <<Ps>> ELSE <<>>)

Operation(name, m, script) ==
    [name |-> name, model |-> m, script |-> script, step |-> 1, sent |-> FALSE,
     first |-> Len(answers) + 1, cancelled |-> FALSE]

\* The probe may read one body.
Budget == IF kind = "probe" THEN BodyLimit ELSE SessionBytes

NewTransport == [remaining |-> Budget, completed |-> 0, inProgress |-> FALSE]

Init ==
    /\ facts \in [version : {0, 1}, tags : [References -> {0}],
                  details : [References -> {0, 2}],
                  running : {{}, References}]
    /\ connected = TRUE
    /\ kind \in {"session", "preflight", "probe"}
    /\ transport = None /\ preflight = None /\ attempted = FALSE
    /\ answers = <<>> /\ observed = <<>> /\ sent = 0 /\ receipts = <<>>
    /\ op = Operation("open", None, <<>>)
    /\ drained = 0 /\ failed = FALSE /\ drifts = 0 /\ operations = 0

-----------------------------------------------------------------------------
(* Ends of an operation.                                                   *)

\* The observer's phases: 0 before any request, n after response n, and
\* AfterFailedAttempt.
Before == [phase |-> "before", ordinal |-> 0]
After(n) == [phase |-> "after", ordinal |-> n]
FailedAttempt(n) == [phase |-> "failed", ordinal |-> n]

\* poison: the transport and the preflight evidence are dropped.
Poison ==
    /\ transport' = None /\ preflight' = None /\ op' = None /\ failed' = TRUE
    /\ UNCHANGED <<facts, connected, kind, drifts, operations>>

\* fail: an error that is no transport error.
Fail == Poison /\ UNCHANGED <<attempted, answers, observed, sent, drained, receipts>>

\* poison_observed and run_with_transport: an attempt that had begun is
\* observed once more, whether or not that observer call fails.  The probe
\* returns without it.
PoisonObserved ==
    /\ Poison
    /\ observed' = IF transport.inProgress /\ kind # "probe"
                   THEN Append(observed, FailedAttempt(transport.completed))
                   ELSE observed
    /\ UNCHANGED <<attempted, answers, sent, drained, receipts>>

\* A one-shot preflight or probe drops its transport when it succeeds.
Finish ==
    /\ op' = None
    /\ transport' = IF kind = "session" THEN transport ELSE None

-----------------------------------------------------------------------------
(* Opening the connection.                                                 *)

\* from_connected_stream and the first checkpoint, before any request.
Open ==
    /\ op # None /\ op.name = "open"
    /\ \/ /\ ~op.cancelled /\ connected
          /\ transport' = NewTransport
          /\ observed' = <<Before>>
          /\ op' = CASE kind = "session" -> None
                     [] kind = "preflight" -> Operation("preflight", None, PreflightScript)
                     [] kind = "probe" -> Operation("probe", None, <<Version>>)
          /\ UNCHANGED <<facts, connected, kind, preflight, attempted, answers, sent,
                         drained, receipts, failed, drifts, operations>>
       \/ /\ Poison
          /\ observed' \in {<<>>, <<Before>>}
          /\ UNCHANGED <<attempted, answers, sent, drained, receipts>>

-----------------------------------------------------------------------------
(* One request: request_json_with_response_head.                           *)

Running == op # None /\ op.name # "open" /\ op.step <= Len(op.script)

\* The attempt begins, the connection becomes ready, the request is written.
\* A completion checks its context once before its first attempt.
SendRequest ==
    /\ Running /\ ~op.sent
    /\ \/ /\ connected /\ ~op.cancelled
          /\ transport' = [transport EXCEPT !.inProgress = TRUE]
          /\ op' = [op EXCEPT !.sent = TRUE]
          /\ sent' = sent + 1
          /\ UNCHANGED <<facts, connected, kind, preflight, attempted, answers,
                         observed, drained, receipts, failed, drifts, operations>>
       \/ /\ op.cancelled /\ op.step = 1 /\ op.name \in {"complete", "resident"}
          /\ Fail
       \/ /\ ~connected \/ op.cancelled
          /\ Poison
          /\ observed' = IF kind = "probe" THEN observed
                         ELSE Append(observed, FailedAttempt(transport.completed))
          /\ UNCHANGED <<attempted, answers, sent, drained, receipts>>

\* What the runtime reports for a request.
Report(request) ==
    CASE request.path = "version" -> facts.version
      [] request.path = "tags" -> facts.tags
      [] request.path = "show" -> facts.details[request.model]
      [] request.path = "ps" -> facts.running
      [] request.path = "generate" -> None

\* Mutant: the responses of a completion are not observed.
DrainUnobserved ==
    /\ Running /\ op.sent /\ transport.inProgress /\ connected
    /\ \E size \in 1..BodyLimit :
          /\ size <= transport.remaining
          /\ drained' = drained + size
          /\ transport' = [remaining |-> transport.remaining - size,
                           completed |-> transport.completed + 1, inProgress |-> FALSE]
    /\ LET request == op.script[op.step]
       IN  answers' = Append(answers, [request |-> request, value |-> Report(request)])
    /\ observed' = IF op.name = "complete" THEN observed
                   ELSE Append(observed, After(transport.completed + 1))
    /\ UNCHANGED <<facts, connected, kind, preflight, attempted, op, sent, receipts, failed,
                   drifts, operations>>

\* The server answers; a generation may leave its model loaded.  The body is
\* drained under both limits, then the observer sees the response.
DrainResponse ==
    /\ Running /\ op.sent /\ transport.inProgress /\ connected
    /\ \E size \in 1..BodyLimit :
          /\ size <= transport.remaining
          /\ drained' = drained + size
          /\ transport' = [remaining |-> transport.remaining - size,
                           completed |-> transport.completed + 1,
                           inProgress |-> FALSE]
    /\ LET request == op.script[op.step]
       IN  /\ answers' = Append(answers, [request |-> request, value |-> Report(request)])
           /\ facts' \in IF request.path = "generate"
                         THEN {facts, [facts EXCEPT !.running = @ \cup {request.model}]}
                         ELSE {facts}
    /\ observed' = Append(observed, After(transport.completed + 1))
    /\ UNCHANGED <<connected, kind, preflight, attempted, op, sent, receipts, failed,
                   drifts, operations>>

\* Mutant: the response is awaited without a timeout.
RequestFailsWithoutTimeout ==
    /\ Running /\ op.sent /\ transport.inProgress /\ (op.cancelled \/ ~connected)
    /\ PoisonObserved

\* A timeout, a refused head, a body over a limit, a closed connection or a
\* cancellation while the response is awaited.
RequestFails == Running /\ op.sent /\ transport.inProgress /\ PoisonObserved

\* The answer to request i of the running operation.
Answer(i) == answers[op.first + i - 1].value

\* parse_ollama_inventory and confirm_inventory_digest of one target.
Confirmed(tags, m) == tags[m] = 0

\* What run_preflight requires once request i is answered: the digest of the
\* model about to be shown, and at the end equal facts before and after.
PreflightAccepts(i) ==
    LET last == Len(op.script)
    IN  /\ i < last /\ op.script[i + 1].path = "show"
              => Confirmed(Answer(2), op.script[i + 1].model)
        /\ i = last =>
              /\ Answer(1) = Answer(last - 1) /\ Answer(2) = Answer(last - 2)
              /\ Answer(3) = Answer(last)
              /\ \A m \in References : Confirmed(Answer(last - 2), m)
              /\ kind = "session" => /\ transport.completed = Len(Models) + 6
                                     /\ \A n \in 4..(last - 3) : Answer(n) # 2

\* Mutant: the inventory is not compared again after the generation.
CompletionAcceptsOnce(i) ==
    LET request == op.script[i]
    IN  /\ request.path = "version" => Answer(i) = preflight.version
        /\ request.path = "tags" /\ i < 4 => Answer(i) = preflight.tags
        /\ request.path = "show" => Answer(i) = preflight.details[op.model] /\ Answer(i) # 2
        /\ request.path = "ps" => Answer(i) = {op.model}

\* What run_completion_inner requires of each response, against the preflight.
CompletionAccepts(i) ==
    LET request == op.script[i]
    IN  /\ request.path = "version" => Answer(i) = preflight.version
        /\ request.path = "tags" => Answer(i) = preflight.tags
        /\ request.path = "show" => /\ Answer(i) = preflight.details[op.model]
                                    /\ Answer(i) # 2
        /\ request.path = "ps" => Answer(i) = {op.model}
        /\ i = Len(op.script) => transport.completed = op.first - 1 + Len(op.script)

\* The probe accepts one exact version.
Accepts(i) ==
    CASE op.name = "preflight" -> PreflightAccepts(i)
      [] op.name = "probe" -> Answer(i) = 0
      [] OTHER -> CompletionAccepts(i)

\* After the callback: the context, the decoding and the checks of the
\* response; an observer error, a malformed body or generated text outside
\* its contract fails here too.  No attempt is then in progress.
ResponseChecked == Running /\ op.sent /\ ~transport.inProgress

RejectResponse == ResponseChecked /\ Fail

NextRequest ==
    /\ ResponseChecked
    /\ ~op.cancelled /\ Accepts(op.step) /\ op.step < Len(op.script)
    /\ op' = [op EXCEPT !.step = @ + 1, !.sent = FALSE]
    /\ UNCHANGED <<facts, connected, session, history, drifts, operations>>

\* ensure_open, then the operation returns its evidence.
Complete ==
    /\ ResponseChecked
    /\ ~op.cancelled /\ Accepts(op.step) /\ op.step = Len(op.script) /\ connected
    /\ Finish
    /\ preflight' = IF op.name = "preflight"
                    THEN [version |-> Answer(1), tags |-> Answer(2), running |-> Answer(3),
                          details |-> [m \in References |->
                             Answer(CHOOSE n \in 1..Len(op.script) : op.script[n] = Show(m))]]
                    ELSE preflight
    /\ receipts' = IF op.name \in {"complete", "resident"}
                   THEN Append(receipts, [first |-> op.first, last |-> transport.completed,
                                          model |-> op.model, resident |-> op.name = "resident",
                                          preflight |-> preflight])
                   ELSE receipts
    /\ UNCHANGED <<facts, connected, kind, attempted, answers, observed, sent, drained,
                   failed, drifts, operations>>

-----------------------------------------------------------------------------
(* The caller of a retained session.                                       *)

Idle == kind = "session" /\ op = None /\ observed # <<>>

\* preflight: exactly one attempt.
Preflight ==
    /\ Idle /\ operations < MaxOperations
    /\ operations' = operations + 1
    /\ attempted' = TRUE
    /\ IF attempted
       THEN transport' = None /\ preflight' = None /\ failed' = TRUE /\ UNCHANGED op
       ELSE IF transport = None
            THEN failed' = TRUE /\ UNCHANGED <<transport, preflight, op>>
            ELSE /\ op' = Operation("preflight", None, PreflightScript)
                 /\ UNCHANGED <<transport, preflight, failed>>
    /\ UNCHANGED <<facts, connected, kind, answers, observed, sent, drained, receipts,
                   drifts>>

\* complete_structured and its resident form: refused without transport or
\* preflight, for an invalid request, and in the resident form for a runtime
\* not reviewed or not idle at the preflight.
CompleteStructured(m, resident) ==
    /\ Idle /\ operations < MaxOperations
    /\ operations' = operations + 1
    /\ \/ /\ transport # None /\ preflight # None
          /\ resident => preflight.version = 0 /\ preflight.running = {}
          /\ op' = Operation(IF resident THEN "resident" ELSE "complete", m,
                             CompletionScript(m, resident))
          /\ UNCHANGED <<transport, preflight, failed>>
       \/ /\ transport' = None /\ preflight' = None /\ failed' = TRUE
          /\ UNCHANGED op
    /\ UNCHANGED <<facts, connected, kind, attempted, answers, observed, sent, drained,
                   receipts, drifts>>

Invalidate ==
    /\ Idle
    /\ transport' = None /\ preflight' = None
    /\ UNCHANGED <<facts, connected, kind, attempted, op, history, drifts, operations>>

Cancel ==
    /\ op # None /\ ~op.cancelled
    /\ op' = [op EXCEPT !.cancelled = TRUE]
    /\ UNCHANGED <<facts, connected, session, history, drifts, operations>>

-----------------------------------------------------------------------------
(* The runtime.                                                            *)

Drift ==
    /\ drifts < MaxDrift /\ drifts' = drifts + 1
    /\ \E m \in References, value \in {0, 1, 2} :
          facts' \in {[facts EXCEPT !.version = 1 - @],
                      [facts EXCEPT !.tags[m] = 1 - @],
                      [facts EXCEPT !.details[m] = value],
                      [facts EXCEPT !.running = IF m \in @ THEN @ \ {m} ELSE @ \cup {m}]}
    /\ UNCHANGED <<connected, session, op, history, operations>>

CloseConnection ==
    /\ connected /\ drifts < MaxDrift /\ drifts' = drifts + 1
    /\ connected' = FALSE
    /\ UNCHANGED <<facts, session, op, history, operations>>

Client ==
    \/ Open \/ SendRequest \/ RequestFails \/ RejectResponse \/ NextRequest \/ Complete

Next ==
    \/ Client \/ DrainResponse
    \/ Preflight \/ Invalidate \/ Cancel
    \/ \E m \in References, resident \in BOOLEAN : CompleteStructured(m, resident)
    \/ Drift \/ CloseConnection

Spec == Init /\ [][Next]_vars

\* The client goes on, and every wait of it has a timeout; the server may stay
\* silent for ever.
FairSpec == Spec /\ WF_vars(Client)

-----------------------------------------------------------------------------
(* Properties.                                                             *)

\* Types of the variables.
TypeOK ==
    /\ facts \in Facts /\ connected \in BOOLEAN
    /\ kind \in {"session", "preflight", "probe"}
    /\ transport # None => /\ transport.remaining \in 0..Budget
                           /\ transport.completed \in Nat
                           /\ transport.inProgress \in BOOLEAN
    /\ preflight # None => preflight \in Facts
    /\ attempted \in BOOLEAN /\ failed \in BOOLEAN
    /\ op # None => op.step \in 1..(Len(op.script) + 1)

\* The transport counts exactly the responses and the bytes drained, over all
\* operations of the session and never beyond its aggregate limit; each
\* response was shown to the observer once and in order, after the checkpoint
\* before any request, and an observation of a failed attempt is the last one
\* (single_connection.rs:195-200, exchange.rs:107-118, 162-179).
Accounted ==
    /\ TypeOK
    /\ transport # None => /\ transport.completed = Len(answers)
                           /\ drained + transport.remaining = Budget
    /\ drained <= Budget
    /\ observed # <<>> => observed[1] = Before
    /\ \A i \in 2..Len(observed) :
          \/ observed[i] = After(i - 1)
          \/ i = Len(observed) /\ observed[i] = FailedAttempt(i - 2)
    /\ Len(answers) > 0 => Len(observed) > Len(answers)

\* Nothing on the connection escapes the observer: the accounts always agree,
\* and a request is written only when every earlier response has been drained
\* and observed without error, never after an operation failed or the session
\* was invalidated (session.rs:164-165, 365-373).
EveryResponseObserved ==
    [][/\ Accounted'
       /\ sent' # sent => /\ sent' = sent + 1 /\ Len(answers) = sent
                          /\ Len(observed) = sent + 1
                          /\ ~failed /\ transport # None]_vars

\* A receipt's span: consecutive, disjoint, starting right after the N+6
\* responses of the preflight, seven or nine long (session.rs:275-312,
\* residency.rs:144-243).
SpanExact(i) ==
    LET r == receipts[i]
    IN  /\ r.first = (IF i = 1 THEN Len(Models) + 6 ELSE receipts[i - 1].last) + 1
        /\ r.last = r.first + (IF r.resident THEN 9 ELSE 7) - 1
        /\ r.last <= Len(answers)

\* Every receipt has its exact span, and every response in it reports the facts
\* the preflight recorded before it and the model with the bound digest and the
\* completion capability; a resident receipt saw its model, and nothing else,
\* loaded after the generation and again at the end (completion.rs:197-264).
ReceiptFactsMatchPreflight ==
    \A i \in 1..Len(receipts) : SpanExact(i) /\ \A n \in receipts[i].first..receipts[i].last :
       LET r == receipts[i]
           request == answers[n].request
           value == answers[n].value
       IN  /\ request.path = "version" => value = answers[1].value
           /\ request.path = "tags" => value = answers[2].value /\ value[r.model] = 0
           /\ request.path = "show" =>
                 /\ request.model = r.model /\ value # 2
                 /\ \E k \in 4..(Len(Models) + 3) :
                       answers[k].request = request /\ answers[k].value = value
           /\ request.path = "ps" => value = {r.model} /\ answers[3].value = {}

\* Every operation ends: with its evidence or with an error, also
\* when the server never answers (exchange.rs:61-63, 148-160).
OperationEnds == (op # None) ~> (op = None)

=============================================================================
