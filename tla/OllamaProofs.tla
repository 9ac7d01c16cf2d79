---------------------------- MODULE OllamaProofs ----------------------------
(***************************************************************************)
(* Theorems about OllamaSession, for any list of models, any limits and    *)
(* any drift of the runtime.                                               *)
(*                                                                         *)
(* Responses are numbered over the whole session.  Accounts relates the    *)
(* numbers the client, the observer and the connection count by; Course    *)
(* says which request each response of the running operation answers and   *)
(* what was accepted of it; Recorded and Evidence what the preflight and   *)
(* the finished completions stand on.                                      *)
(***************************************************************************)
EXTENDS OllamaSession, TLAPS

-----------------------------------------------------------------------------
(* The inductive invariant.                                                *)

N == Len(Models)

\* What an answer to each kind of request reports.
Reported(request, value) ==
    /\ request.path = "version" => value \in {0, 1}
    /\ request.path = "tags" => value \in [References -> {0, 1}]
    /\ request.path = "show" => value \in {0, 1, 2}
    /\ request.path = "ps" => value \in SUBSET References

Values == {0, 1, 2} \cup [References -> {0, 1}] \cup (SUBSET References) \cup {None}
Reports == [request : Requests, value : Values]
Phases == [phase : {"before", "after", "failed"}, ordinal : Nat]
ReceiptRecords == [first : Nat, last : Nat, model : References, resident : BOOLEAN,
                   preflight : Facts]

Types ==
    /\ facts \in Facts /\ connected \in BOOLEAN
    /\ kind \in {"session", "preflight", "probe"}
    /\ transport \in Transports \cup {None}
    /\ preflight \in Facts \cup {None}
    /\ attempted \in BOOLEAN /\ failed \in BOOLEAN
    /\ op \in Operations \cup {None}
    /\ answers \in Seq(Reports) /\ observed \in Seq(Phases) /\ receipts \in Seq(ReceiptRecords)
    /\ sent \in Nat /\ drained \in Nat

Reporting == \A n \in 1..Len(answers) : Reported(answers[n].request, answers[n].value)

Opening == op # None /\ op.name = "open"
Working == op # None /\ op.name # "open"

\* A response waits to be checked.
Waiting == op.sent /\ ~transport.inProgress

\* The observations, with at most a failed attempt at the end.
Observations ==
    /\ observed # <<>> => observed[1] = Before
    /\ \A i \in 2..Len(observed) :
          \/ observed[i] = After(i - 1)
          \/ i = Len(observed) /\ observed[i] = FailedAttempt(i - 2)
    /\ Len(answers) > 0 => Len(observed) > Len(answers)

Accounts ==
    /\ drained <= Budget
    /\ transport # None =>
          /\ transport.completed = Len(answers) /\ drained + transport.remaining = Budget
          /\ ~failed
          /\ Len(observed) = Len(answers) + 1
          /\ \A i \in 2..Len(observed) : observed[i] = After(i - 1)
          /\ sent = Len(answers) + (IF transport.inProgress THEN 1 ELSE 0)

Control ==
    /\ Opening =>
          /\ transport = None /\ preflight = None /\ ~attempted /\ ~failed
          /\ answers = <<>> /\ observed = <<>> /\ receipts = <<>> /\ sent = 0 /\ drained = 0
          /\ op.script = <<>> /\ op.step = 1 /\ ~op.sent
    /\ Working => transport # None /\ (~op.sent => ~transport.inProgress)
    /\ op = None /\ transport # None => ~transport.inProgress
    /\ kind = "session" /\ ~attempted => answers = <<>> /\ preflight = None /\ receipts = <<>>

\* The running operation's place in its script.
Course ==
    Working =>
      /\ op.step \in 1..Len(op.script) /\ op.first > 0
      /\ Len(answers) = op.first + op.step - 2 + (IF Waiting THEN 1 ELSE 0)
      /\ \A i \in 1..(Len(answers) - op.first + 1) :
            answers[op.first + i - 1].request = op.script[i]
      /\ op.name = "preflight" =>
            /\ op.script = PreflightScript /\ op.first = 1 /\ preflight = None
            /\ receipts = <<>> /\ kind # "probe" /\ (kind = "session" => attempted)
      /\ op.name = "probe" =>
            op.script = <<Version>> /\ kind = "probe" /\ preflight = None
      /\ op.name \in {"complete", "resident"} =>
            /\ kind = "session" /\ preflight # None /\ op.model \in References
            /\ op.script = CompletionScript(op.model, op.name = "resident")
            /\ op.name = "resident" => preflight.running = {}

\* What a completion requires of response i, apart from the count.
Agrees(i) ==
    /\ op.script[i].path = "version" => Answer(i) = preflight.version
    /\ op.script[i].path = "tags" => Answer(i) = preflight.tags
    /\ op.script[i].path = "show" => Answer(i) = preflight.details[op.model] /\ Answer(i) # 2
    /\ op.script[i].path = "ps" => Answer(i) = {op.model}

Accepted ==
    Working /\ op.name \in {"complete", "resident"} => \A i \in 1..(op.step - 1) : Agrees(i)

\* The preflight's facts are its first responses.
Recorded ==
    preflight # None =>
      /\ Len(answers) >= N + 6
      /\ preflight.version = answers[1].value /\ preflight.tags = answers[2].value
      /\ preflight.running = answers[3].value
      /\ \A m \in References : preflight.tags[m] = 0
      /\ \A j \in 1..N : /\ answers[3 + j].request = Show(Models[j])
                         /\ preflight.details[Models[j]] = answers[3 + j].value

\* The number of the last response some evidence stands on.
LastUsed == IF receipts = <<>> THEN N + 6 ELSE receipts[Len(receipts)].last

Evidence ==
    /\ ReceiptFactsMatchPreflight
    /\ receipts # <<>> => Len(answers) >= N + 6
    /\ \A i \in 1..Len(receipts) : receipts[i].first > N + 6

Contiguous ==
    transport # None /\ preflight # None =>
       IF op = None THEN Len(answers) = LastUsed ELSE op.first = LastUsed + 1

OInv == /\ Types /\ Reporting /\ Observations /\ Accounts /\ Control /\ Course
        /\ Accepted /\ Recorded /\ Evidence /\ Contiguous

-----------------------------------------------------------------------------
(* The scripts.                                                            *)

\* Two sequences one after the other.
LEMMA Joined ==
    ASSUME NEW S, NEW a \in Seq(S), NEW b \in Seq(S)
    PROVE  /\ a \o b \in Seq(S) /\ Len(a \o b) = Len(a) + Len(b)
           /\ \A i \in 1..Len(a) : (a \o b)[i] = a[i]
  OBVIOUS

\* An element of the second of two joined sequences.
LEMMA JoinedEnd ==
    ASSUME NEW S, NEW a \in Seq(S), NEW b \in Seq(S), NEW i \in 1..Len(b)
    PROVE  (a \o b)[Len(a) + i] = b[i]
  OBVIOUS

\* The configured models are distinct and there is at least one.
LEMMA ModelFacts ==
    /\ N \in Nat /\ N > 0
    /\ \A j \in 1..N : Models[j] \in References
    /\ \A m \in References : \E j \in 1..N : m = Models[j]
    /\ \A i, j \in 1..N : Models[i] = Models[j] => i = j
<1>1. Models \in Seq(Range(Models)) /\ N \in Nat /\ N > 0 /\ DOMAIN Models = 1..N
  BY SessionAssumption DEF N
<1>2. /\ \A j \in 1..N : Models[j] \in References
      /\ \A m \in References : \E j \in 1..N : m = Models[j]
  BY <1>1 DEF References, Range
<1> QED
  BY <1>1, <1>2, SessionAssumption DEF N

\* A request's path tells what it is.
LEMMA RequestFacts ==
    /\ Version \in Requests /\ Tags \in Requests /\ Ps \in Requests
    /\ \A m \in References : Show(m) \in Requests /\ Generate(m) \in Requests
    /\ Version.path = "version" /\ Tags.path = "tags" /\ Ps.path = "ps"
    /\ \A m : Show(m).path = "show" /\ Show(m).model = m
    /\ \A m : Generate(m).path = "generate" /\ Generate(m).model = m
  BY Zenon DEF Requests, Version, Tags, Ps, Show, Generate

\* A request for a model names one of the configured ones.
LEMMA RequestModels ==
    ASSUME NEW request \in Requests, request.path \in {"show", "generate"}
    PROVE  request.model \in References
  BY DEF Requests, Version, Tags, Ps, Show, Generate

\* A preflight asks for version, tags and loaded models, shows every model in
\* order, and asks for tags, version and loaded models again.
LEMMA PreflightScriptFacts ==
    /\ PreflightScript \in Seq(Requests) /\ Len(PreflightScript) = N + 6
    /\ PreflightScript[1] = Version /\ PreflightScript[2] = Tags /\ PreflightScript[3] = Ps
    /\ \A j \in 1..N : PreflightScript[3 + j] = Show(Models[j])
    /\ PreflightScript[N + 4] = Tags /\ PreflightScript[N + 5] = Version
    /\ PreflightScript[N + 6] = Ps
<1> DEFINE head == <<Version, Tags, Ps>>
           shows == [i \in 1..N |-> Show(Models[i])]
           end == <<Tags, Version, Ps>>
<1>1. N \in Nat /\ N > 0
  BY ModelFacts
<1>2. shows \in Seq(Requests) /\ Len(shows) = N /\ \A j \in 1..N : shows[j] = Show(Models[j])
  BY <1>1, ModelFacts, RequestFacts
<1>3. /\ head \in Seq(Requests) /\ Len(head) = 3
      /\ head[1] = Version /\ head[2] = Tags /\ head[3] = Ps
  BY RequestFacts
<1>4. /\ end \in Seq(Requests) /\ Len(end) = 3
      /\ end[1] = Tags /\ end[2] = Version /\ end[3] = Ps
  BY RequestFacts
<1>5. PreflightScript = (head \o shows) \o end
  BY DEF PreflightScript, N
<1> HIDE DEF head, shows, end
<1>6. /\ head \o shows \in Seq(Requests) /\ Len(head \o shows) = N + 3
      /\ \A i \in 1..3 : (head \o shows)[i] = head[i]
      /\ \A j \in 1..N : (head \o shows)[3 + j] = shows[j]
  <2>1. /\ head \o shows \in Seq(Requests) /\ Len(head \o shows) = Len(head) + Len(shows)
        /\ \A i \in 1..Len(head) : (head \o shows)[i] = head[i]
        /\ \A i \in 1..Len(shows) : (head \o shows)[Len(head) + i] = shows[i]
    <3>1. head \in Seq(Requests) /\ shows \in Seq(Requests)
      BY <1>2, <1>3
    <3>2. head \o shows \in Seq(Requests) /\ Len(head \o shows) = Len(head) + Len(shows)
      BY <3>1, Joined, Zenon
    <3>3. ASSUME NEW i \in 1..Len(head) PROVE (head \o shows)[i] = head[i]
      BY <3>1, Joined, Zenon
    <3>4. ASSUME NEW i \in 1..Len(shows) PROVE (head \o shows)[Len(head) + i] = shows[i]
      BY <3>1, JoinedEnd
    <3> QED
      BY <3>2, <3>3, <3>4, Zenon
  <2>2. 3 + N = N + 3
    BY <1>1
  <2> QED
    BY <1>2, <1>3, <2>1, <2>2, Zenon
<1>7. /\ PreflightScript \in Seq(Requests) /\ Len(PreflightScript) = N + 6
      /\ \A i \in 1..(N + 3) : PreflightScript[i] = (head \o shows)[i]
      /\ \A i \in 1..3 : PreflightScript[N + 3 + i] = end[i]
  <2> DEFINE both == head \o shows
  <2>1. both \in Seq(Requests) /\ Len(both) = N + 3 /\ PreflightScript = both \o end
    BY <1>5, <1>6
  <2> HIDE DEF both
  <2>2. /\ both \o end \in Seq(Requests) /\ Len(both \o end) = Len(both) + Len(end)
        /\ \A i \in 1..Len(both) : (both \o end)[i] = both[i]
        /\ \A i \in 1..Len(end) : (both \o end)[Len(both) + i] = end[i]
    <3>1. both \in Seq(Requests) /\ end \in Seq(Requests)
      BY <1>4, <2>1
    <3>2. both \o end \in Seq(Requests) /\ Len(both \o end) = Len(both) + Len(end)
      BY <3>1, Joined, Zenon
    <3>3. ASSUME NEW i \in 1..Len(both) PROVE (both \o end)[i] = both[i]
      BY <3>1, Joined, Zenon
    <3>4. ASSUME NEW i \in 1..Len(end) PROVE (both \o end)[Len(both) + i] = end[i]
      BY <3>1, JoinedEnd
    <3> QED
      BY <3>2, <3>3, <3>4, Zenon
  <2>3. (N + 3) + 3 = N + 6
    BY <1>1
  <2> QED
    BY <1>4, <2>1, <2>2, <2>3, Zenon DEF both
<1>8. /\ PreflightScript[1] = Version /\ PreflightScript[2] = Tags /\ PreflightScript[3] = Ps
  <2>1. \A i \in 1..3 : i \in 1..(N + 3)
    BY <1>1
  <2>2. \A i \in 1..3 : PreflightScript[i] = head[i]
    BY <1>6, <1>7, <2>1, Zenon
  <2>3. 1 \in 1..3 /\ 2 \in 1..3 /\ 3 \in 1..3
    OBVIOUS
  <2> QED
    BY <1>3, <2>2, <2>3, Zenon
<1>9. \A j \in 1..N : PreflightScript[3 + j] = Show(Models[j])
  <2>1. \A j \in 1..N : 3 + j \in 1..(N + 3)
    BY <1>1
  <2> QED
    BY <1>2, <1>6, <1>7, <2>1, ZenonT(40)
<1>10. /\ PreflightScript[N + 3 + 1] = Tags /\ PreflightScript[N + 3 + 2] = Version
       /\ PreflightScript[N + 3 + 3] = Ps
  <2>1. 1 \in 1..3 /\ 2 \in 1..3 /\ 3 \in 1..3
    OBVIOUS
  <2> QED
    BY <1>4, <1>7, <2>1, Zenon
<1> QED
  BY <1>1, <1>7, <1>8, <1>9, <1>10

\* A model is shown once in a preflight.
LEMMA ShownOnce ==
    ASSUME NEW j \in 1..N, NEW n \in 1..(N + 6), PreflightScript[n] = Show(Models[j])
    PROVE  n = 3 + j
<1>1. N \in Nat /\ n \in Nat /\ PreflightScript[n].path = "show"
  BY ModelFacts, RequestFacts
<1>2. n \notin {1, 2, 3, N + 4, N + 5, N + 6}
  BY <1>1, PreflightScriptFacts, RequestFacts, Zenon
<1>3. n - 3 \in 1..N /\ n = 3 + (n - 3)
  BY <1>1, <1>2
<1>4. PreflightScript[n] = Show(Models[n - 3])
  BY <1>3, PreflightScriptFacts, Zenon
<1>5. Models[n - 3] = Models[j]
  <2>1. Show(Models[n - 3]) = Show(Models[j])
    BY <1>4
  <2> QED
    BY <2>1 DEF Show
<1>6. n - 3 = j
  BY <1>3, <1>5, ModelFacts
<1> QED
  BY <1>1, <1>6

\* A completion shows its own model only, and asks for loaded models only in
\* its resident form.
LEMMA CompletionScriptFacts ==
    ASSUME NEW m \in References, NEW resident \in BOOLEAN
    PROVE  LET script == CompletionScript(m, resident)
           IN  /\ script \in Seq(Requests) /\ Len(script) = IF resident THEN 9 ELSE 7
               /\ \A i \in 1..Len(script) :
                     /\ script[i].path = "show" => script[i] = Show(m)
                     /\ script[i].path = "ps" => resident
<1> DEFINE Allowed == {Version, Tags, Show(m), Generate(m)} \cup (IF resident THEN {Ps} ELSE {})
           Loaded == IF resident THEN <<Ps>> ELSE <<>>
           before == <<Version, Tags, Show(m), Generate(m)>>
           after == <<Version, Tags, Show(m)>>
<1>1. before \in Seq(Allowed) /\ Len(before) = 4 /\ after \in Seq(Allowed) /\ Len(after) = 3
  <2>1. Version \in Allowed /\ Tags \in Allowed /\ Show(m) \in Allowed /\ Generate(m) \in Allowed
    OBVIOUS
  <2> HIDE DEF Allowed
  <2> QED
    BY <2>1
<1>2. Loaded \in Seq(Allowed) /\ Len(Loaded) = IF resident THEN 1 ELSE 0
  <2>1. CASE resident
    <3>1. Ps \in Allowed /\ Loaded = <<Ps>>
      BY <2>1
    <3> HIDE DEF Allowed, Loaded
    <3> QED
      BY <2>1, <3>1
  <2>2. CASE ~resident
    <3>1. Loaded = <<>>
      BY <2>2
    <3> HIDE DEF Allowed, Loaded
    <3> QED
      BY <2>2, <3>1
  <2> QED
    BY <2>1, <2>2
<1>3. CompletionScript(m, resident) = ((before \o Loaded) \o after) \o Loaded
  BY DEF CompletionScript
<1>4. /\ Allowed \subseteq Requests
      /\ \A r \in Allowed : (r.path = "show" => r = Show(m)) /\ (r.path = "ps" => resident)
  BY RequestFacts
<1> HIDE DEF Allowed, Loaded, before, after
<1>5. (before \o Loaded) \in Seq(Allowed) /\ Len(before \o Loaded) = Len(before) + Len(Loaded)
  BY <1>1, <1>2, Joined, Zenon
<1>6. /\ ((before \o Loaded) \o after) \in Seq(Allowed)
      /\ Len((before \o Loaded) \o after) = Len(before \o Loaded) + Len(after)
  BY <1>1, <1>5, Joined, Zenon
<1>7. /\ CompletionScript(m, resident) \in Seq(Allowed)
      /\ Len(CompletionScript(m, resident)) = ((4 + Len(Loaded)) + 3) + Len(Loaded)
  <2> DEFINE most == (before \o Loaded) \o after
  <2>1. /\ most \in Seq(Allowed) /\ Loaded \in Seq(Allowed)
        /\ CompletionScript(m, resident) = most \o Loaded
    BY <1>2, <1>3, <1>6, Zenon
  <2>2. Len(most) = (4 + Len(Loaded)) + 3
    BY <1>1, <1>5, <1>6, Zenon
  <2> HIDE DEF most
  <2>3. most \o Loaded \in Seq(Allowed) /\ Len(most \o Loaded) = Len(most) + Len(Loaded)
    BY <2>1, Joined, Zenon
  <2> QED
    BY <2>1, <2>2, <2>3, Zenon
<1>8. Len(CompletionScript(m, resident)) = IF resident THEN 9 ELSE 7
  BY <1>2, <1>7
<1>9. /\ CompletionScript(m, resident) \in Seq(Requests)
      /\ \A i \in 1..Len(CompletionScript(m, resident)) :
            CompletionScript(m, resident)[i] \in Allowed
  BY <1>4, <1>7
<1> QED
  BY <1>4, <1>8, <1>9

-----------------------------------------------------------------------------
(* What a step leaves alone.                                               *)

\* The evidence is read off answers and receipts.
LEMMA EvidenceStays ==
    ASSUME Reporting, Evidence, UNCHANGED <<answers, receipts>>
    PROVE  Reporting' /\ Evidence'
<1>1. Reporting'
  BY DEF Reporting, Reported
<1>2. ReceiptFactsMatchPreflight'
  BY DEF Evidence, ReceiptFactsMatchPreflight, SpanExact
<1> QED
  BY <1>1, <1>2 DEF Evidence

\* Recorded depends on the responses and on the preflight facts only.
LEMMA RecordedStays ==
    ASSUME Recorded, UNCHANGED <<answers, preflight>>
    PROVE  Recorded'
  BY DEF Recorded

\* The session is given up: nothing can be asked of it any more.
LEMMA Dropped ==
    ASSUME OInv, transport' = None, preflight' = None, op' = None,
           UNCHANGED <<answers, receipts, sent, drained, kind>>,
           facts' \in Facts, connected' \in BOOLEAN, failed' \in BOOLEAN,
           attempted' \in {attempted, TRUE},
           observed' \in Seq(Phases), Observations'
    PROVE  OInv'
<1>1. Types'
  BY Zenon DEF OInv, Types
<1>2. Reporting' /\ Evidence'
  BY EvidenceStays DEF OInv
<1>3. Accounts'
  BY DEF OInv, Accounts, Budget
<1>4. Control'
  BY Zenon DEF OInv, Types, Control, Opening, Working
<1>5. Course' /\ Accepted' /\ Recorded' /\ Contiguous'
  BY DEF Course, Accepted, Recorded, Contiguous, Working
<1> QED
  BY <1>1, <1>2, <1>3, <1>4, <1>5 DEF OInv

\* Giving up adds at most the observation of a failed attempt.
LEMMA FailureObserved ==
    ASSUME OInv, transport # None, answers' = answers,
           observed' \in {observed, Append(observed, FailedAttempt(transport.completed))}
    PROVE  observed' \in Seq(Phases) /\ Observations'
<1>1. /\ observed \in Seq(Phases) /\ answers \in Seq(Reports) /\ Len(observed) = Len(answers) + 1
      /\ transport.completed = Len(answers) /\ Len(answers) \in Nat
      /\ \A i \in 2..Len(observed) : observed[i] = After(i - 1)
      /\ observed[1] = Before
  BY DEF OInv, Types, Accounts, Observations
<1>2. CASE observed' = observed
  BY <1>2 DEF OInv, Types, Observations
<1>3. CASE observed' = Append(observed, FailedAttempt(transport.completed))
  <2> DEFINE last == FailedAttempt(transport.completed)
  <2>1. last \in Phases /\ last = FailedAttempt(Len(answers))
    BY <1>1 DEF FailedAttempt, Phases
  <2> HIDE DEF last
  <2>2. /\ observed' \in Seq(Phases) /\ Len(observed') = Len(answers) + 2
        /\ observed'[1] = observed[1] /\ observed'[Len(answers) + 2] = last
        /\ \A i \in 2..(Len(answers) + 1) : observed'[i] = observed[i]
    BY <1>1, <1>3, <2>1 DEF last
  <2>3. \A i \in 2..Len(observed') : observed'[i] = After(i - 1)
                                     \/ (i = Len(observed') /\ observed'[i] = FailedAttempt(i - 2))
    <3> SUFFICES ASSUME NEW i \in 2..Len(observed')
                 PROVE  observed'[i] = After(i - 1)
                        \/ (i = Len(observed') /\ observed'[i] = FailedAttempt(i - 2))
      OBVIOUS
    <3>1. CASE i \in 2..(Len(answers) + 1)
      <4>1. 2..(Len(answers) + 1) = 2..Len(observed)
        BY <1>1
      <4>2. observed[i] = After(i - 1)
        BY <1>1, <3>1, <4>1, Zenon
      <4>3. observed'[i] = observed[i]
        BY <2>2, <3>1, Zenon
      <4> QED
        BY <4>2, <4>3, Zenon
    <3>2. CASE i = Len(answers) + 2
      <4>1. i - 2 = Len(answers)
        BY <1>1, <3>2
      <4> QED
        BY <2>1, <2>2, <3>2, <4>1
    <3> QED
      BY <1>1, <2>2, <3>1, <3>2
  <2> QED
    BY <1>1, <2>2, <2>3 DEF Observations
<1> QED
  BY <1>2, <1>3

\* An operation that runs has a transport whose attempts it counts.
LEMMA WorkingFacts ==
    ASSUME OInv, Working
    PROVE  /\ op \in Operations /\ transport \in Transports /\ transport # None
           /\ op.script \in Seq(Requests) /\ op.step \in Nat /\ op.first \in Nat
           /\ op.step \in 1..Len(op.script) /\ op.first > 0
           /\ op.sent \in BOOLEAN /\ transport.inProgress \in BOOLEAN
           /\ transport.completed = Len(answers) /\ Len(answers) \in Nat
           /\ op.script[op.step] \in Requests
<1>1. op \in Operations /\ transport \in Transports /\ transport # None
  BY DEF OInv, Types, Control, Working
<1>2. /\ op.script \in Seq(Requests) /\ op.step \in Nat /\ op.first \in Nat
      /\ op.sent \in BOOLEAN /\ transport.inProgress \in BOOLEAN
  BY <1>1, Zenon DEF Operations, Transports
<1>3. /\ op.step \in 1..Len(op.script) /\ op.first > 0
  BY DEF OInv, Course
<1>4. transport.completed = Len(answers) /\ Len(answers) \in Nat
  BY <1>1 DEF OInv, Types, Accounts
<1> QED
  BY <1>1, <1>2, <1>3, <1>4

\* Errors of a running operation.
LEMMA FailKeeps ==
    ASSUME OInv, Working, Poison, UNCHANGED <<attempted, answers, sent, drained, receipts>>,
           observed' \in {observed, Append(observed, FailedAttempt(transport.completed))}
    PROVE  OInv'
<1>1. transport # None
  BY WorkingFacts
<1>2. observed' \in Seq(Phases) /\ Observations'
  BY <1>1, FailureObserved
<1>3. /\ facts' \in Facts /\ connected' \in BOOLEAN /\ failed' \in BOOLEAN
      /\ attempted' \in {attempted, TRUE}
      /\ transport' = None /\ preflight' = None /\ op' = None /\ UNCHANGED kind
  BY DEF OInv, Types, Poison
<1> QED
  BY <1>2, <1>3, Dropped

\* A request that fails, and a response that is rejected, poison the session.
LEMMA RequestFailsKeeps ==
    ASSUME OInv, RequestFails \/ RejectResponse
    PROVE  OInv'
<1>1. Working
  BY DEF RequestFails, RejectResponse, ResponseChecked, Running, Working
<1>2. CASE RequestFails
  BY <1>1, <1>2, FailKeeps DEF RequestFails, PoisonObserved
<1>3. CASE RejectResponse
  BY <1>1, <1>3, FailKeeps DEF RejectResponse, Fail
<1> QED
  BY <1>2, <1>3

-----------------------------------------------------------------------------
(* Opening the connection, and starting an operation.                      *)

\* An operation starts on a quiet transport, after the last response.
LEMMA Started ==
    ASSUME OInv, NEW name \in {"preflight", "probe", "complete", "resident"},
           NEW m \in References \cup {None}, NEW script \in Seq(Requests),
           op' = Operation(name, m, script)
    PROVE  /\ op' \in Operations /\ op' # None /\ op'.name = name /\ op'.model = m
           /\ op'.script = script /\ op'.step = 1 /\ ~op'.sent
           /\ op'.first = Len(answers) + 1 /\ Working' /\ ~Opening'
<1>1. Len(answers) \in Nat
  BY DEF OInv, Types
<1>2. Len(answers) + 1 \in Nat /\ 1 \in Nat
  BY <1>1
<1>3. /\ op' \in Operations /\ op'.name = name /\ op'.model = m
      /\ op'.script = script /\ op'.step = 1 /\ ~op'.sent /\ op'.first = Len(answers) + 1
  BY <1>2, Zenon DEF Operation, Operations
<1>4. op' # None
  BY <1>3, NoneAssumption
<1> QED
  BY <1>3, <1>4 DEF Working, Opening

\* An operation starts behind the responses of the last one.
LEMMA StartKeeps ==
    ASSUME OInv, UNCHANGED <<answers, receipts, sent, drained, kind, observed, failed, facts,
                             connected, transport, preflight>>,
           transport # None, op = None,
           NEW name \in {"preflight", "complete", "resident"},
           NEW m \in References \cup {None}, NEW script \in Seq(Requests), Len(script) > 0,
           op' = Operation(name, m, script), attempted' \in {attempted, TRUE},
           name = "preflight" => /\ script = PreflightScript /\ answers = <<>>
                                 /\ preflight = None /\ receipts = <<>> /\ kind # "probe"
                                 /\ attempted',
           name \in {"complete", "resident"} =>
              /\ kind = "session" /\ preflight # None /\ m \in References
              /\ script = CompletionScript(m, name = "resident")
              /\ name = "resident" => preflight.running = {}
    PROVE  OInv'
<1>1. /\ op' \in Operations /\ op' # None /\ op'.name = name /\ op'.model = m
      /\ op'.script = script /\ op'.step = 1 /\ ~op'.sent
      /\ op'.first = Len(answers) + 1 /\ Working' /\ ~Opening'
  BY Started, Zenon
<1>2. Len(answers) \in Nat /\ transport \in Transports
  BY DEF OInv, Types
<1>3. Types'
  BY <1>1, Zenon DEF OInv, Types
<1>4. Reporting' /\ Evidence' /\ Recorded'
  BY EvidenceStays, RecordedStays DEF OInv
<1>5. Observations' /\ Accounts'
  BY DEF OInv, Observations, Accounts, Budget
<1>6. Control'
  BY <1>1, Zenon DEF OInv, Types, Control
<1>7. ~Waiting'
  BY <1>1 DEF Waiting
<1>8. Course'
  BY <1>1, <1>2, <1>7 DEF Course
<1>9. Accepted'
  BY <1>1 DEF Accepted
<1>10. Contiguous'
  BY <1>1, <1>2 DEF OInv, Contiguous, LastUsed
<1> QED
  BY <1>3, <1>4, <1>5, <1>6, <1>8, <1>9, <1>10 DEF OInv

\* A first preflight starts on an unused transport; a second is refused.
LEMMA PreflightKeeps ==
    ASSUME OInv, Preflight
    PROVE  OInv'
<1>1. /\ Idle /\ attempted' = TRUE
      /\ UNCHANGED <<facts, connected, kind, answers, observed, sent, drained, receipts>>
  BY DEF Preflight
<1>2. op = None /\ kind = "session" /\ facts' \in Facts /\ connected' \in BOOLEAN
      /\ observed' \in Seq(Phases) /\ Observations' /\ attempted \in BOOLEAN
  BY <1>1 DEF Idle, OInv, Types, Observations
<1>3. CASE attempted
  BY <1>1, <1>2, <1>3, Dropped DEF Preflight
<1>4. CASE ~attempted /\ transport = None
  <2>1. preflight = None
    BY <1>2, <1>4 DEF OInv, Control
  <2> QED
    BY <1>1, <1>2, <1>4, <2>1, Dropped DEF Preflight
<1>5. CASE ~attempted /\ transport # None
  <2>1. /\ op' = Operation("preflight", None, PreflightScript)
        /\ UNCHANGED <<transport, preflight, failed>>
    BY <1>5 DEF Preflight
  <2>2. answers = <<>> /\ preflight = None /\ receipts = <<>>
    BY <1>2, <1>5 DEF OInv, Control
  <2>3. PreflightScript \in Seq(Requests) /\ Len(PreflightScript) > 0
    BY PreflightScriptFacts, ModelFacts
  <2> QED
    BY <1>1, <1>2, <1>5, <2>1, <2>2, <2>3, StartKeeps
<1> QED
  BY <1>3, <1>4, <1>5, <1>2

\* A completion starts on a transport with a preflight, or the session is dropped.
LEMMA CompleteStructuredKeeps ==
    ASSUME OInv, NEW m \in References, NEW resident \in BOOLEAN, CompleteStructured(m, resident)
    PROVE  OInv'
<1>1. /\ Idle
      /\ UNCHANGED <<facts, connected, kind, attempted, answers, observed, sent, drained, receipts>>
  BY DEF CompleteStructured
<1>2. op = None /\ kind = "session" /\ facts' \in Facts /\ connected' \in BOOLEAN
      /\ observed' \in Seq(Phases) /\ Observations'
  BY <1>1 DEF Idle, OInv, Types, Observations
<1>3. CASE transport' = None /\ preflight' = None /\ failed' = TRUE /\ UNCHANGED op
  BY <1>1, <1>2, <1>3, Dropped
<1>4. CASE /\ transport # None /\ preflight # None
           /\ resident => preflight.version = 0 /\ preflight.running = {}
           /\ op' = Operation(IF resident THEN "resident" ELSE "complete", m,
                              CompletionScript(m, resident))
           /\ UNCHANGED <<transport, preflight, failed>>
  <2> DEFINE name == IF resident THEN "resident" ELSE "complete"
             script == CompletionScript(m, resident)
  <2>1. name \in {"preflight", "complete", "resident"} /\ name # "preflight"
        /\ (name = "resident") = resident
    OBVIOUS
  <2>2. script \in Seq(Requests) /\ Len(script) > 0
    BY CompletionScriptFacts
  <2>3. script = CompletionScript(m, name = "resident")
    BY <2>1, Zenon
  <2>4. op' = Operation(name, m, script)
    BY <1>4
  <2>5. name = "resident" => preflight.running = {}
    BY <1>4, <2>1
  <2> HIDE DEF name, script
  <2> QED
    BY <1>1, <1>2, <1>4, <2>1, <2>2, <2>3, <2>4, <2>5, StartKeeps
<1> QED
  BY <1>3, <1>4, Zenon DEF CompleteStructured

\* The caller drops transport and preflight.
LEMMA InvalidateKeeps ==
    ASSUME OInv, Invalidate
    PROVE  OInv'
<1>1. /\ transport' = None /\ preflight' = None /\ op' = None
      /\ UNCHANGED <<answers, receipts, sent, drained, kind, facts, connected, failed,
                     attempted, observed>>
  BY DEF Invalidate, Idle, history
<1>2. /\ facts' \in Facts /\ connected' \in BOOLEAN /\ failed' \in BOOLEAN
      /\ observed' \in Seq(Phases) /\ Observations'
  BY <1>1 DEF OInv, Types, Observations
<1> QED
  BY <1>1, <1>2, Dropped

\* Opening gives a fresh transport with its whole budget, or nothing.
LEMMA OpenKeeps ==
    ASSUME OInv, Open
    PROVE  OInv'
<1>1. /\ op # None /\ Opening
      /\ transport = None /\ preflight = None /\ ~attempted /\ ~failed
      /\ answers = <<>> /\ observed = <<>> /\ receipts = <<>> /\ sent = 0 /\ drained = 0
  BY DEF Open, Opening, OInv, Control
<1>2. Before \in Phases /\ <<Before>> \in Seq(Phases) /\ <<>> \in Seq(Phases)
  BY DEF Before, Phases
<1>3. Len(<<Before>>) = 1 /\ <<Before>>[1] = Before /\ Len(<<>>) = 0
  OBVIOUS
<1>4. CASE /\ Poison
           /\ observed' \in {<<>>, <<Before>>}
           /\ UNCHANGED <<attempted, answers, sent, drained, receipts>>
  <2>1. /\ transport' = None /\ preflight' = None /\ op' = None /\ UNCHANGED kind
        /\ facts' \in Facts /\ connected' \in BOOLEAN /\ failed' \in BOOLEAN
        /\ attempted' \in {attempted, TRUE}
    BY <1>4 DEF Poison, OInv, Types
  <2>2. observed' \in Seq(Phases)
    BY <1>2, <1>4, Zenon
  <2>3. Observations'
    BY <1>1, <1>3, <1>4 DEF Observations
  <2> QED
    BY <1>4, <2>1, <2>2, <2>3, Dropped
<1>5. CASE /\ transport' = NewTransport
           /\ observed' = <<Before>>
           /\ op' = CASE kind = "session" -> None
                      [] kind = "preflight" -> Operation("preflight", None, PreflightScript)
                      [] kind = "probe" -> Operation("probe", None, <<Version>>)
           /\ UNCHANGED <<facts, connected, kind, preflight, attempted, answers, sent,
                          drained, receipts, failed>>
  <2>1. kind \in {"session", "preflight", "probe"} /\ Budget \in Nat /\ Budget' = Budget
    BY <1>5, SessionAssumption DEF OInv, Types, Budget
  <2>2. /\ transport' \in Transports /\ transport'.remaining = Budget
        /\ transport'.completed = 0 /\ transport'.inProgress = FALSE
    BY <1>5, <2>1 DEF NewTransport, Transports
  <2>3. transport' # None
    BY <2>2, NoneAssumption
  <2>4. /\ <<Version>> \in Seq(Requests) /\ Len(<<Version>>) = 1
        /\ PreflightScript \in Seq(Requests) /\ Len(PreflightScript) > 0
    BY RequestFacts, PreflightScriptFacts, ModelFacts
  <2>5. /\ kind = "session" => op' = None
        /\ kind = "preflight" => op' = Operation("preflight", None, PreflightScript)
        /\ kind = "probe" => op' = Operation("probe", None, <<Version>>)
    BY <1>5
  <2>6. kind # "session" =>
           /\ op' \in Operations /\ op' # None /\ op'.name = kind
           /\ op'.script = IF kind = "probe" THEN <<Version>> ELSE PreflightScript
           /\ op'.step = 1 /\ ~op'.sent /\ op'.first = Len(answers) + 1
           /\ Working' /\ ~Opening'
    <3>1. CASE kind = "preflight"
      BY <2>4, <2>5, <3>1, Started, Zenon
    <3>2. CASE kind = "probe"
      BY <2>4, <2>5, <3>2, Started, Zenon
    <3> QED
      BY <2>1, <3>1, <3>2
  <2>7. Types'
    BY <1>2, <1>5, <2>1, <2>2, <2>5, <2>6, Zenon DEF OInv, Types
  <2>8. Reporting' /\ Evidence' /\ Recorded'
    BY <1>5, EvidenceStays, RecordedStays DEF OInv
  <2>9. Observations'
    BY <1>1, <1>3, <1>5 DEF Observations
  <2>10. Accounts'
    BY <1>1, <1>3, <1>5, <2>1, <2>2 DEF Accounts
  <2>11. Control'
    BY <1>1, <1>5, <2>1, <2>2, <2>3, <2>5, <2>6 DEF Control, Opening, Working
  <2>12. Course'
    <3>1. Working' => kind # "session"
      BY <2>5 DEF Working
    <3>2. kind # "session" => ~Waiting'
      BY <2>6 DEF Waiting
    <3>3. kind # "session" => op'.name \notin {"complete", "resident"}
      BY <2>1, <2>6
    <3>4. Len(answers) = 0 /\ answers' = answers /\ kind' = kind /\ preflight' = preflight
          /\ receipts' = receipts
      BY <1>1, <1>5
    <3>5. kind # "session" =>
             /\ op'.step \in 1..Len(op'.script) /\ op'.first > 0
             /\ Len(answers') = op'.first + op'.step - 2
             /\ Len(answers') - op'.first + 1 = 0
      <4>1. kind # "session" => Len(op'.script) > 0 /\ Len(op'.script) \in Nat
        <5>1. /\ Len(PreflightScript) \in Nat /\ Len(PreflightScript) > 0
              /\ Len(<<Version>>) \in Nat /\ Len(<<Version>>) > 0
          BY <2>4
        <5> QED
          BY <2>4, <2>6, <5>1, Zenon
      <4>2. kind # "session" => op'.step = 1 /\ op'.first = 1
        BY <2>6, <3>4
      <4>3. Len(answers') = 0
        BY <3>4
      <4> QED
        BY <4>1, <4>2, <4>3
    <3>6. kind # "session" =>
             \A i \in 1..(Len(answers') - op'.first + 1) :
                answers'[op'.first + i - 1].request = op'.script[i]
      BY <3>5
    <3>7. kind # "session" =>
             Len(answers') = op'.first + op'.step - 2 + (IF Waiting' THEN 1 ELSE 0)
      BY <3>2, <3>5, <2>6
    <3>8. kind # "session" =>
             /\ op'.name = "preflight" =>
                   /\ op'.script = PreflightScript /\ op'.first = 1 /\ preflight' = None
                   /\ receipts' = <<>> /\ kind' # "probe" /\ kind' # "session"
             /\ op'.name = "probe" =>
                   op'.script = <<Version>> /\ kind' = "probe" /\ preflight' = None
      BY <1>1, <2>6, <3>4
    <3> QED
      BY <3>1, <3>3, <3>5, <3>6, <3>7, <3>8, Zenon DEF Course
  <2>13. Accepted' /\ Contiguous'
    BY <1>1, <1>5, <2>1, <2>5, <2>6 DEF Accepted, Contiguous, Working
  <2> QED
    BY <2>7, <2>8, <2>9, <2>10, <2>11, <2>12, <2>13 DEF OInv
<1> QED
  BY <1>4, <1>5, Zenon DEF Open

-----------------------------------------------------------------------------
(* Requests and responses.                                                 *)

\* What was accepted of a response stays accepted.
LEMMA AgreesStays ==
    ASSUME op'.script = op.script, op'.first = op.first, op'.model = op.model,
           UNCHANGED <<answers, preflight>>, NEW i, Agrees(i)
    PROVE  Agrees(i)'
  BY DEF Agrees, Answer

\* The operation goes on: its place and what waits change together.
LEMMA CourseStays ==
    ASSUME OInv, Working, op' \in Operations, op'.name = op.name, op'.model = op.model,
           op'.script = op.script, op'.first = op.first,
           UNCHANGED <<answers, receipts, preflight, kind, attempted>>, transport' # None,
           op'.step \in 1..Len(op.script),
           Len(answers) = op.first + op'.step - 2 + (IF Waiting' THEN 1 ELSE 0),
           op.name \in {"complete", "resident"} => \A i \in 1..(op'.step - 1) : Agrees(i)
    PROVE  op' # None /\ Working' /\ ~Opening' /\ Course' /\ Accepted' /\ Contiguous'
<1>1. op' # None
  BY NoneAssumption
<1>2. Working' /\ ~Opening' /\ op # None /\ transport # None
  BY <1>1, WorkingFacts DEF Working, Opening
<1>3. /\ op.first > 0
      /\ \A i \in 1..(Len(answers) - op.first + 1) :
            answers[op.first + i - 1].request = op.script[i]
      /\ op.name = "preflight" =>
            /\ op.script = PreflightScript /\ op.first = 1 /\ preflight = None
            /\ receipts = <<>> /\ kind # "probe" /\ (kind = "session" => attempted)
      /\ op.name = "probe" =>
            op.script = <<Version>> /\ kind = "probe" /\ preflight = None
      /\ op.name \in {"complete", "resident"} =>
            /\ kind = "session" /\ preflight # None /\ op.model \in References
            /\ op.script = CompletionScript(op.model, op.name = "resident")
            /\ op.name = "resident" => preflight.running = {}
  BY DEF OInv, Course
<1>4. Course'
  BY <1>3, Zenon DEF Course
<1>5. Accepted'
  <2> SUFFICES ASSUME op.name \in {"complete", "resident"}, NEW i \in 1..(op'.step - 1)
               PROVE  Agrees(i)'
    BY Zenon DEF Accepted
  <2>1. Agrees(i)
    OBVIOUS
  <2> QED
    BY <2>1, AgreesStays
<1>6. Contiguous'
  <2>1. LastUsed' = LastUsed
    BY Zenon DEF LastUsed
  <2> QED
    BY <1>1, <1>2, <2>1, Zenon DEF OInv, Contiguous
<1> QED
  BY <1>1, <1>2, <1>4, <1>5, <1>6

\* A request is written, or cancellation or a closed connection ends the operation.
LEMMA SendRequestKeeps ==
    ASSUME OInv, SendRequest
    PROVE  OInv'
<1>1. Working /\ ~op.sent
  BY DEF SendRequest, Running, Working
<1>2. CASE op.cancelled /\ Fail
  BY <1>1, <1>2, FailKeeps DEF Fail
<1>3. CASE /\ Poison
           /\ observed' = IF kind = "probe" THEN observed
                          ELSE Append(observed, FailedAttempt(transport.completed))
           /\ UNCHANGED <<attempted, answers, sent, drained, receipts>>
  <2>1. observed' \in {observed, Append(observed, FailedAttempt(transport.completed))}
    BY <1>3
  <2> QED
    BY <1>1, <1>3, <2>1, FailKeeps
<1>4. CASE /\ transport' = [transport EXCEPT !.inProgress = TRUE]
           /\ op' = [op EXCEPT !.sent = TRUE]
           /\ sent' = sent + 1
           /\ UNCHANGED <<facts, connected, kind, preflight, attempted, answers,
                          observed, drained, receipts, failed>>
  <2>1. /\ op \in Operations /\ transport \in Transports /\ transport # None
        /\ op.step \in 1..Len(op.script) /\ op.step \in Nat /\ op.first \in Nat
        /\ ~transport.inProgress
    BY <1>1, WorkingFacts DEF OInv, Control
  <2>2. /\ op' \in Operations /\ op'.name = op.name /\ op'.model = op.model
        /\ op'.script = op.script /\ op'.first = op.first /\ op'.step = op.step /\ op'.sent
    BY <1>4, <2>1, Zenon DEF Operations
  <2>3. /\ transport' \in Transports /\ transport'.inProgress = TRUE
        /\ transport'.completed = transport.completed
        /\ transport'.remaining = transport.remaining
    BY <1>4, <2>1, Zenon DEF Transports
  <2>4. transport' # None /\ sent \in Nat /\ sent' \in Nat
    <3>1. transport' # None
      BY <2>3, NoneAssumption, Zenon
    <3>2. sent \in Nat
      BY Zenon DEF OInv, Types
    <3> QED
      BY <1>4, <3>1, <3>2
  <2>5. ~Waiting /\ ~Waiting'
    BY <1>1, <2>3 DEF Waiting
  <2>6. /\ Len(answers) = op.first + op.step - 2 + (IF Waiting THEN 1 ELSE 0)
        /\ op.name \in {"complete", "resident"} => \A i \in 1..(op.step - 1) : Agrees(i)
    BY <1>1, Zenon DEF OInv, Course, Accepted
  <2>7. op' # None /\ Working' /\ ~Opening' /\ Course' /\ Accepted' /\ Contiguous'
    BY <1>1, <1>4, <2>1, <2>2, <2>4, <2>5, <2>6, CourseStays, Zenon
  <2>8. Types'
    BY <1>4, <2>2, <2>3, <2>4, Zenon DEF OInv, Types
  <2>9. Reporting' /\ Evidence' /\ Recorded'
    BY <1>4, EvidenceStays, RecordedStays DEF OInv
  <2>10. Observations'
    BY <1>4 DEF OInv, Observations
  <2>11. Accounts'
    <3>1. Budget' = Budget
      BY <1>4 DEF Budget
    <3>2. sent = Len(answers)
      BY <2>1 DEF OInv, Accounts
    <3> QED
      BY <1>4, <2>1, <2>3, <3>1, <3>2 DEF OInv, Accounts
  <2>12. Control'
    BY <1>4, <2>2, <2>4, <2>7, Zenon DEF OInv, Control
  <2> QED
    BY <2>7, <2>8, <2>9, <2>10, <2>11, <2>12 DEF OInv
<1> QED
  BY <1>2, <1>3, <1>4, Zenon DEF SendRequest

\* An accepted response lets the script go on.
LEMMA NextRequestKeeps ==
    ASSUME OInv, NextRequest
    PROVE  OInv'
<1>1. /\ Working /\ op.sent /\ ~transport.inProgress /\ Accepts(op.step)
      /\ op.step < Len(op.script) /\ op' = [op EXCEPT !.step = @ + 1, !.sent = FALSE]
      /\ UNCHANGED <<facts, connected, kind, transport, preflight, attempted, answers, observed,
                     sent, drained, receipts, failed>>
  BY DEF NextRequest, ResponseChecked, Running, Working, session, history
<1>2. /\ op \in Operations /\ transport \in Transports /\ transport # None
      /\ op.step \in 1..Len(op.script) /\ op.step \in Nat /\ op.first \in Nat
      /\ op.script \in Seq(Requests) /\ op.step + 1 \in Nat
  BY <1>1, WorkingFacts
<1>3. /\ op' \in Operations /\ op'.name = op.name /\ op'.model = op.model
      /\ op'.script = op.script /\ op'.first = op.first /\ op'.step = op.step + 1 /\ ~op'.sent
  BY <1>1, <1>2, Zenon DEF Operations
<1>4. Waiting /\ ~Waiting'
  BY <1>1, <1>3 DEF Waiting
<1>5. Len(answers) = op.first + op.step - 2 + 1
  BY <1>1, <1>4 DEF OInv, Course
<1>6. op.name \in {"complete", "resident"} => \A i \in 1..(op'.step - 1) : Agrees(i)
  <2> SUFFICES ASSUME op.name \in {"complete", "resident"}, NEW i \in 1..(op'.step - 1)
               PROVE  Agrees(i)
    OBVIOUS
  <2>1. CompletionAccepts(op.step)
    BY <1>1 DEF Accepts
  <2>2. Agrees(op.step)
    BY <2>1, Zenon DEF CompletionAccepts, Agrees
  <2>3. i = op.step \/ i \in 1..(op.step - 1)
    BY <1>2, <1>3
  <2>4. \A k \in 1..(op.step - 1) : Agrees(k)
    BY <1>1, Zenon DEF OInv, Accepted
  <2> QED
    BY <2>2, <2>3, <2>4, Zenon
<1>7. /\ op'.step \in 1..Len(op.script)
      /\ Len(answers) = op.first + op'.step - 2 + (IF Waiting' THEN 1 ELSE 0)
  <2>1. Len(op.script) \in Nat
    BY <1>2
  <2>2. op.first + op.step - 2 + 1 = op.first + (op.step + 1) - 2 + 0
    BY <1>2
  <2>3. op.step + 1 \in 1..Len(op.script)
    BY <1>1, <1>2, <2>1
  <2> QED
    BY <1>3, <1>4, <1>5, <2>2, <2>3, Zenon
<1>8. op' # None /\ Working' /\ ~Opening' /\ Course' /\ Accepted' /\ Contiguous'
  BY <1>1, <1>2, <1>3, <1>6, <1>7, CourseStays, Zenon
<1>9. Types'
  BY <1>1, <1>3, Zenon DEF OInv, Types
<1>10. Reporting' /\ Evidence' /\ Recorded'
  BY <1>1, EvidenceStays, RecordedStays DEF OInv
<1>11. Observations' /\ Accounts'
  BY <1>1 DEF OInv, Observations, Accounts, Budget
<1>12. Control'
  BY <1>1, <1>2, <1>3, <1>8, Zenon DEF OInv, Control
<1> QED
  BY <1>8, <1>9, <1>10, <1>11, <1>12 DEF OInv

\* A cancellation is a flag the operation reads later.
LEMMA CancelKeeps ==
    ASSUME OInv, Cancel
    PROVE  OInv'
<1>1. /\ op # None /\ op' = [op EXCEPT !.cancelled = TRUE]
      /\ UNCHANGED <<facts, connected, kind, transport, preflight, attempted, answers, observed,
                     sent, drained, receipts, failed>>
  BY DEF Cancel, session, history
<1>2. op \in Operations
  BY <1>1 DEF OInv, Types
<1>3. /\ op' \in Operations /\ op'.name = op.name /\ op'.model = op.model
      /\ op'.script = op.script /\ op'.first = op.first /\ op'.step = op.step
      /\ op'.sent = op.sent
  BY <1>1, <1>2, Zenon DEF Operations
<1>4. op' # None
  BY <1>3, NoneAssumption
<1>5. Types'
  BY <1>1, <1>3, Zenon DEF OInv, Types
<1>6. Reporting' /\ Evidence' /\ Recorded'
  BY <1>1, EvidenceStays, RecordedStays DEF OInv
<1>7. Observations' /\ Accounts'
  BY <1>1 DEF OInv, Observations, Accounts, Budget
<1>8. Control'
  BY <1>1, <1>3, <1>4, Zenon DEF OInv, Control, Opening, Working
<1>9. CASE Opening
  <2>1. ~Working' /\ transport' = None
    BY <1>1, <1>3, <1>9 DEF OInv, Control, Opening, Working
  <2>2. Course' /\ Accepted' /\ Contiguous'
    BY <2>1 DEF Course, Accepted, Contiguous
  <2> QED
    BY <1>5, <1>6, <1>7, <1>8, <2>2 DEF OInv
<1>10. CASE ~Opening
  <2>1. Working
    BY <1>1, <1>10 DEF Opening, Working
  <2>2. op.step \in 1..Len(op.script) /\ transport' # None
    BY <1>1, <2>1, WorkingFacts
  <2>3. Waiting' = Waiting
    BY <1>1, <1>3, Zenon DEF Waiting
  <2>4. /\ Len(answers) = op.first + op.step - 2 + (IF Waiting THEN 1 ELSE 0)
        /\ op.name \in {"complete", "resident"} => \A i \in 1..(op.step - 1) : Agrees(i)
    BY <2>1, Zenon DEF OInv, Course, Accepted
  <2>5. Course' /\ Accepted' /\ Contiguous'
    BY <1>1, <1>3, <2>1, <2>2, <2>3, <2>4, CourseStays, Zenon
  <2> QED
    BY <1>5, <1>6, <1>7, <1>8, <2>5 DEF OInv
<1> QED
  BY <1>9, <1>10

\* What a receipt says of one response in its span.
FactsMatch(r, n) ==
    LET request == answers[n].request
        value == answers[n].value
    IN  /\ request.path = "version" => value = answers[1].value
        /\ request.path = "tags" => value = answers[2].value /\ value[r.model] = 0
        /\ request.path = "show" =>
              /\ request.model = r.model /\ value # 2
              /\ \E k \in 4..(Len(Models) + 3) :
                    answers[k].request = request /\ answers[k].value = value
        /\ request.path = "ps" => value = {r.model} /\ answers[3].value = {}

Matched(i) == SpanExact(i) /\ \A n \in receipts[i].first..receipts[i].last :
                                 FactsMatch(receipts[i], n)

\* The property on receipts, receipt by receipt and response by response.
LEMMA MatchForm == ReceiptFactsMatchPreflight <=> \A i \in 1..Len(receipts) : Matched(i)
  BY Zenon DEF ReceiptFactsMatchPreflight, Matched, FactsMatch

\* The same of the next state.
LEMMA MatchFormNext ==
    ReceiptFactsMatchPreflight' <=> \A i \in 1..Len(receipts') : Matched(i)'
  BY Zenon DEF ReceiptFactsMatchPreflight, Matched, FactsMatch

\* The evidence stays when a response is added after it.
LEMMA AnswersGrow ==
    ASSUME OInv, NEW answer \in Reports, answers' = Append(answers, answer),
           UNCHANGED <<receipts, preflight>>
    PROVE  Evidence' /\ Recorded'
<1>1. /\ answers \in Seq(Reports) /\ Len(answers) \in Nat /\ N \in Nat
      /\ receipts \in Seq(ReceiptRecords) /\ Len(receipts) \in Nat
  BY ModelFacts DEF OInv, Types
<1>2. Len(answers') = Len(answers) + 1 /\ \A n \in 1..Len(answers) : answers'[n] = answers[n]
  BY <1>1
<1>3. Recorded'
  <2> SUFFICES ASSUME preflight # None
               PROVE  Recorded'
    BY Zenon DEF Recorded
  <2>1. /\ Len(answers) >= N + 6
        /\ preflight.version = answers[1].value /\ preflight.tags = answers[2].value
        /\ preflight.running = answers[3].value
        /\ \A m \in References : preflight.tags[m] = 0
        /\ \A j \in 1..N : /\ answers[3 + j].request = Show(Models[j])
                           /\ preflight.details[Models[j]] = answers[3 + j].value
    BY Zenon DEF OInv, Recorded
  <2>2. /\ Len(answers') >= N + 6
        /\ 1 \in 1..Len(answers) /\ 2 \in 1..Len(answers) /\ 3 \in 1..Len(answers)
        /\ \A j \in 1..N : 3 + j \in 1..Len(answers)
    BY <1>1, <1>2, <2>1
  <2>3. /\ answers'[1] = answers[1] /\ answers'[2] = answers[2] /\ answers'[3] = answers[3]
        /\ \A j \in 1..N : answers'[3 + j] = answers[3 + j]
    BY <1>2, <2>2, Zenon
  <2> QED
    BY <2>1, <2>2, <2>3, Zenon DEF Recorded
<1>4. ReceiptFactsMatchPreflight'
  <2> SUFFICES ASSUME NEW i \in 1..Len(receipts)
               PROVE  Matched(i)'
    BY MatchFormNext
  <2>1. Matched(i)
    BY MatchForm, Zenon DEF OInv, Evidence
  <2>2. /\ receipts[i] \in ReceiptRecords /\ Len(answers) >= N + 6 /\ receipts[i].first > N + 6
    BY <1>1 DEF OInv, Evidence
  <2>3. receipts[i].first \in Nat /\ receipts[i].last \in Nat
    BY <2>2, Zenon DEF ReceiptRecords
  <2>4. SpanExact(i)
    BY <2>1, Zenon DEF Matched
  <2>5. receipts[i].last <= Len(answers)
    BY <2>4, Zenon DEF SpanExact
  <2>6. SpanExact(i)'
    <3>1. receipts[i].last <= Len(answers')
      BY <1>1, <1>2, <2>3, <2>5
    <3> QED
      BY <2>4, <3>1, Zenon DEF SpanExact
  <2>7. /\ \A n \in receipts[i].first..receipts[i].last : n \in 1..Len(answers)
        /\ \A k \in 4..(N + 3) : k \in 1..Len(answers)
        /\ 1 \in 1..Len(answers) /\ 2 \in 1..Len(answers) /\ 3 \in 1..Len(answers)
    BY <1>1, <2>2, <2>3, <2>5
  <2>8. /\ \A n \in receipts[i].first..receipts[i].last : answers'[n] = answers[n]
        /\ \A k \in 4..(Len(Models) + 3) : answers'[k] = answers[k]
        /\ answers'[1] = answers[1] /\ answers'[2] = answers[2] /\ answers'[3] = answers[3]
    BY <1>2, <2>7, Zenon DEF N
  <2>9. ASSUME NEW n \in receipts[i].first..receipts[i].last
        PROVE  FactsMatch(receipts[i], n)'
    <3>1. FactsMatch(receipts[i], n)
      BY <2>1, Zenon DEF Matched
    <3>2. answers'[n] = answers[n]
      BY <2>8, Zenon
    <3> QED
      BY <2>8, <3>1, <3>2, Zenon DEF FactsMatch
  <2> QED
    BY <2>6, <2>9, Zenon DEF Matched
<1>5. receipts' # <<>> => Len(answers') >= N + 6
  <2>1. receipts # <<>> => Len(answers) >= N + 6
    BY DEF OInv, Evidence
  <2> QED
    BY <1>1, <1>2, <2>1
<1>6. \A i \in 1..Len(receipts') : receipts'[i].first > N + 6
  BY DEF OInv, Evidence
<1> QED
  BY <1>3, <1>4, <1>5, <1>6, Zenon DEF Evidence

\* The value None that a generation reports is among the values.
LEMMA NoneReported == None \in Values
  BY DEF Values

\* What the runtime answers fits the request.
LEMMA ReportFits ==
    ASSUME facts \in Facts, NEW request \in Requests
    PROVE  Report(request) \in Values /\ Reported(request, Report(request))
<1>1. /\ facts.version \in {0, 1} /\ facts.tags \in [References -> {0, 1}]
      /\ facts.details \in [References -> {0, 1, 2}] /\ facts.running \in SUBSET References
  BY Zenon DEF Facts
<1>2. request.path \in {"version", "tags", "ps", "show", "generate"}
  BY DEF Requests, Version, Tags, Ps, Show, Generate
<1>3. request.path = "show" => facts.details[request.model] \in {0, 1, 2}
  BY <1>1, RequestModels
<1>4. CASE request.path = "version"
  <2>1. Report(request) = facts.version
    BY <1>4 DEF Report
  <2> QED
    BY <1>1, <1>4, <2>1 DEF Values, Reported
<1>5. CASE request.path = "tags"
  <2>1. Report(request) = facts.tags
    BY <1>5 DEF Report
  <2> QED
    BY <1>1, <1>5, <2>1 DEF Values, Reported
<1>6. CASE request.path = "ps"
  <2>1. Report(request) = facts.running
    BY <1>6 DEF Report
  <2> QED
    BY <1>1, <1>6, <2>1 DEF Values, Reported
<1>7. CASE request.path = "show"
  <2>1. Report(request) = facts.details[request.model]
    BY <1>7 DEF Report
  <2> QED
    BY <1>3, <1>7, <2>1 DEF Values, Reported
<1>8. CASE request.path = "generate"
  <2>1. Report(request) = None
    BY <1>8 DEF Report
  <2> QED
    <3>1. None \in Values
      BY NoneReported
    <3>2. Reported(request, Report(request))
      BY <1>8, Zenon DEF Reported
    <3> QED
      BY <2>1, <3>1, <3>2, Zenon
<1> QED
  BY <1>2, <1>4, <1>5, <1>6, <1>7, <1>8

\* A generation may load its model.
LEMMA FactsLoaded ==
    ASSUME facts \in Facts, NEW request \in Requests,
           facts' \in IF request.path = "generate"
                      THEN {facts, [facts EXCEPT !.running = @ \cup {request.model}]}
                      ELSE {facts}
    PROVE  facts' \in Facts
<1>1. CASE facts' = facts
  BY <1>1
<1>2. CASE /\ request.path = "generate"
           /\ facts' = [facts EXCEPT !.running = @ \cup {request.model}]
  <2>1. facts.running \cup {request.model} \in SUBSET References
    BY <1>2, RequestModels DEF Facts
  <2> QED
    BY <1>2, <2>1, Zenon DEF Facts
<1> QED
  BY <1>1, <1>2, Zenon

\* A response is drained within the budget, numbered and observed.
LEMMA DrainResponseKeeps ==
    ASSUME OInv, DrainResponse
    PROVE  OInv'
<1> DEFINE request == op.script[op.step]
           answer == [request |-> request, value |-> Report(request)]
<1>1. /\ Working /\ op.sent /\ transport.inProgress
      /\ answers' = Append(answers, answer)
      /\ observed' = Append(observed, After(transport.completed + 1))
      /\ facts' \in IF request.path = "generate"
                    THEN {facts, [facts EXCEPT !.running = @ \cup {request.model}]}
                    ELSE {facts}
      /\ UNCHANGED <<connected, kind, preflight, attempted, op, sent, receipts, failed>>
  BY Zenon DEF DrainResponse, Running, Working
<1>2. PICK size \in 1..BodyLimit :
         /\ size <= transport.remaining
         /\ drained' = drained + size
         /\ transport' = [remaining |-> transport.remaining - size,
                          completed |-> transport.completed + 1, inProgress |-> FALSE]
  BY Zenon DEF DrainResponse
<1>3. /\ op \in Operations /\ transport \in Transports /\ transport # None
      /\ op.script \in Seq(Requests) /\ op.step \in Nat /\ op.first \in Nat
      /\ op.step \in 1..Len(op.script) /\ op.first > 0
      /\ transport.completed = Len(answers) /\ Len(answers) \in Nat /\ request \in Requests
  BY <1>1, WorkingFacts
<1>4. facts \in Facts /\ facts' \in Facts
  BY <1>1, <1>3, FactsLoaded, Zenon DEF OInv, Types
<1>5. answer \in Reports /\ answer.request = request
      /\ Reported(answer.request, answer.value)
  <2>1. Report(request) \in Values /\ Reported(request, Report(request))
    BY <1>3, <1>4, ReportFits
  <2> HIDE DEF request
  <2> QED
    BY <1>3, <2>1, Zenon DEF Reports
<1> HIDE DEF answer, request
<1>6. /\ answers \in Seq(Reports) /\ observed \in Seq(Phases) /\ drained \in Nat
      /\ transport.remaining \in Nat /\ size \in Nat /\ size > 0
      /\ Len(observed) = Len(answers) + 1 /\ observed[1] = Before
      /\ \A i \in 2..Len(observed) : observed[i] = After(i - 1)
      /\ drained + transport.remaining = Budget /\ ~failed
      /\ sent = Len(answers) + 1
  <2>1. answers \in Seq(Reports) /\ observed \in Seq(Phases) /\ drained \in Nat
    BY Zenon DEF OInv, Types
  <2>2. transport.remaining \in Nat
    BY <1>3, Zenon DEF Transports
  <2>3. size \in Nat /\ size > 0
    BY SessionAssumption
  <2>4. /\ Len(observed) = Len(answers) + 1
        /\ \A i \in 2..Len(observed) : observed[i] = After(i - 1)
        /\ drained + transport.remaining = Budget /\ ~failed
        /\ sent = Len(answers) + (IF transport.inProgress THEN 1 ELSE 0)
    BY <1>3, Zenon DEF OInv, Accounts
  <2>5. observed # <<>>
    BY <1>3, <2>1, <2>4
  <2>6. observed[1] = Before
    BY <2>5, Zenon DEF OInv, Observations
  <2> QED
    BY <1>1, <2>1, <2>2, <2>3, <2>4, <2>6, Zenon
<1>7. /\ answers' \in Seq(Reports) /\ Len(answers') = Len(answers) + 1
      /\ answers'[Len(answers) + 1] = answer
      /\ \A n \in 1..Len(answers) : answers'[n] = answers[n]
  BY <1>1, <1>3, <1>5, <1>6
<1>8. /\ transport' \in Transports /\ transport'.inProgress = FALSE
      /\ transport'.completed = Len(answers) + 1
      /\ transport'.remaining = transport.remaining - size
  <2>1. transport.remaining - size \in Nat /\ Len(answers) + 1 \in Nat
    BY <1>2, <1>3, <1>6
  <2> QED
    BY <1>2, <1>3, <2>1, Zenon DEF Transports
<1>9. transport' # None
  BY <1>8, NoneAssumption, Zenon
<1>10. /\ After(Len(answers) + 1) \in Phases
  BY <1>3 DEF After, Phases
<1>11. /\ observed' \in Seq(Phases) /\ Len(observed') = Len(answers) + 2
       /\ observed'[1] = Before /\ observed'[Len(answers) + 2] = After(Len(answers) + 1)
       /\ \A i \in 2..(Len(answers) + 1) : observed'[i] = observed[i]
  BY <1>1, <1>3, <1>6, <1>10
<1>12. \A i \in 2..Len(observed') : observed'[i] = After(i - 1)
  <2> SUFFICES ASSUME NEW i \in 2..Len(observed') PROVE observed'[i] = After(i - 1)
    OBVIOUS
  <2>1. CASE i \in 2..(Len(answers) + 1)
    <3>1. 2..(Len(answers) + 1) = 2..Len(observed)
      BY <1>6
    <3> QED
      BY <1>6, <1>11, <2>1, <3>1, Zenon
  <2>2. CASE i = Len(answers) + 2
    <3>1. i - 1 = Len(answers) + 1
      BY <1>3, <2>2
    <3> QED
      BY <1>11, <2>2, <3>1, Zenon
  <2>3. i \in 2..(Len(answers) + 1) \/ i = Len(answers) + 2
    BY <1>3, <1>11
  <2> QED
    BY <2>1, <2>2, <2>3
<1>13. Types'
  <2>1. drained' \in Nat
    BY <1>2, <1>6
  <2> QED
    BY <1>1, <1>4, <1>7, <1>8, <1>11, <2>1, Zenon DEF OInv, Types
<1>14. Reporting'
  <2> SUFFICES ASSUME NEW n \in 1..Len(answers')
               PROVE  Reported(answers'[n].request, answers'[n].value)
    BY Zenon DEF Reporting
  <2>1. n \in 1..Len(answers) \/ n = Len(answers) + 1
    BY <1>3, <1>7
  <2>2. CASE n \in 1..Len(answers)
    BY <1>7, <2>2, Zenon DEF OInv, Reporting
  <2>3. CASE n = Len(answers) + 1
    BY <1>5, <1>7, <2>3, Zenon
  <2> QED
    BY <2>1, <2>2, <2>3
<1>15. Evidence' /\ Recorded'
  BY <1>1, <1>5, AnswersGrow, Zenon
<1>16. Observations'
  <2>1. Len(observed') > Len(answers')
    BY <1>3, <1>7, <1>11
  <2> QED
    BY <1>11, <1>12, <2>1, Zenon DEF Observations
<1>17. Accounts'
  <2>1. Budget' = Budget
    BY <1>1 DEF Budget
  <2>2. /\ Len(observed') = Len(answers') + 1 /\ transport'.completed = Len(answers')
        /\ drained' + transport'.remaining = Budget
        /\ drained' <= Budget
        /\ sent' = Len(answers') + 0
    <3>1. /\ Len(observed') = Len(answers') + 1 /\ transport'.completed = Len(answers')
          /\ sent' = Len(answers') + 0
      BY <1>1, <1>3, <1>6, <1>7, <1>8, <1>11
    <3>2. /\ drained \in Nat /\ transport.remaining \in Nat /\ size \in Nat
          /\ drained + transport.remaining = Budget /\ size <= transport.remaining
          /\ drained' = drained + size /\ transport'.remaining = transport.remaining - size
      BY <1>2, <1>6, <1>8, Zenon
    <3>3. drained' + transport'.remaining = Budget /\ drained' <= Budget
      BY <3>2
    <3> QED
      BY <3>1, <3>3
  <2> QED
    BY <1>1, <1>6, <1>8, <1>12, <2>1, <2>2, Zenon DEF Accounts
<1>18. op # None /\ op.name # "open"
  BY <1>1 DEF Working
<1>19. kind = "session" => attempted
  <2>1. CASE preflight # None
    BY <2>1, Zenon DEF OInv, Control
  <2>2. CASE preflight = None
    <3>1. op.name \in {"preflight", "probe", "complete", "resident"}
      BY <1>3, <1>18 DEF Operations
    <3> QED
      BY <1>1, <2>2, <3>1, Zenon DEF OInv, Course
  <2> QED
    BY <2>1, <2>2
<1>20. Control'
  BY <1>1, <1>8, <1>9, <1>18, <1>19, Zenon DEF Control, Opening, Working
<1>21. ~Waiting /\ Waiting' /\ Len(answers) = op.first + op.step - 2
  <2>1. ~Waiting /\ Waiting'
    BY <1>1, <1>8, Zenon DEF Waiting
  <2>2. Len(answers) = op.first + op.step - 2 + 0
    BY <1>1, <2>1, Zenon DEF OInv, Course
  <2> QED
    BY <1>3, <2>1, <2>2
<1>22. \A i \in 1..(Len(answers') - op.first + 1) :
          answers'[op.first + i - 1].request = op.script[i]
  <2> SUFFICES ASSUME NEW i \in 1..(Len(answers') - op.first + 1)
               PROVE  answers'[op.first + i - 1].request = op.script[i]
    OBVIOUS
  <2>1. i \in 1..(Len(answers) - op.first + 1) \/ i = op.step
    <3> DEFINE drainedBefore == Len(answers)
               drainedAfter == Len(answers')
               first == op.first
               step == op.step
    <3>1. first \in Nat /\ step \in Nat /\ drainedBefore = first + step - 2
          /\ drainedAfter = drainedBefore + 1
      BY <1>3, <1>7, <1>21, Zenon
    <3> HIDE DEF drainedBefore, drainedAfter, first, step
    <3>2. drainedAfter - first + 1 = step /\ drainedBefore - first + 1 = step - 1
      BY <3>1
    <3>3. i \in 1..step
      BY <3>2, Zenon DEF drainedAfter, first
    <3>4. i \in 1..(step - 1) \/ i = step
      BY <3>1, <3>3
    <3> QED
      BY <3>2, <3>4, Zenon DEF drainedBefore, first, step
  <2>2. CASE i \in 1..(Len(answers) - op.first + 1)
    <3>1. op.first + i - 1 \in 1..Len(answers)
      <4>1. op.first \in Nat /\ op.first > 0 /\ Len(answers) \in Nat
        BY <1>3
      <4> QED
        BY <2>2, <4>1, SMTT(30)
    <3>2. answers[op.first + i - 1].request = op.script[i]
      BY <1>1, <2>2, Zenon DEF OInv, Course
    <3> QED
      BY <1>7, <3>1, <3>2, Zenon
  <2>3. CASE i = op.step
    <3>1. op.first + i - 1 = Len(answers) + 1
      <4>1. op.first \in Nat /\ op.step \in Nat /\ Len(answers) = op.first + op.step - 2
        BY <1>3, <1>21
      <4> QED
        BY <2>3, <4>1
    <3> QED
      BY <1>5, <1>7, <2>3, <3>1, Zenon DEF request
  <2> QED
    BY <2>1, <2>2, <2>3
<1>23. Course'
  <2>1. Len(answers') = op.first + op.step - 2 + 1
    BY <1>3, <1>7, <1>21
  <2> QED
    BY <1>1, <1>3, <1>21, <1>22, <2>1, Zenon DEF OInv, Course, Working
<1>24. Accepted'
  <2> SUFFICES ASSUME op.name \in {"complete", "resident"}, NEW i \in 1..(op.step - 1)
               PROVE  Agrees(i)'
    BY <1>1, Zenon DEF Accepted
  <2>1. Agrees(i)
    BY <1>1, Zenon DEF OInv, Accepted
  <2>2. op.first + i - 1 \in 1..Len(answers)
    BY <1>3, <1>21
  <2>3. Answer(i)' = Answer(i)
    BY <1>1, <1>7, <2>2, Zenon DEF Answer
  <2> QED
    BY <1>1, <2>1, <2>3, Zenon DEF Agrees
<1>25. Contiguous'
  <2>1. LastUsed' = LastUsed
    BY <1>1, Zenon DEF LastUsed
  <2> QED
    BY <1>1, <1>3, <1>18, <2>1, Zenon DEF OInv, Contiguous
<1> QED
  BY <1>13, <1>14, <1>15, <1>16, <1>17, <1>20, <1>23, <1>24, <1>25, Zenon DEF OInv

-----------------------------------------------------------------------------
(* An operation succeeds.                                                  *)

\* The last response of the script has been drained.
LEMMA CompleteFacts ==
    ASSUME OInv, Complete
    PROVE  /\ Working /\ op.sent /\ ~transport.inProgress /\ Accepts(op.step)
           /\ op.step = Len(op.script)
           /\ op \in Operations /\ transport \in Transports /\ transport # None
           /\ op.first \in Nat /\ op.first > 0 /\ op.step \in Nat /\ op.step > 0
           /\ Len(answers) \in Nat /\ transport.completed = Len(answers)
           /\ Len(answers) = op.first + op.step - 1
           /\ \A i \in 1..op.step :
                 /\ op.first + i - 1 \in 1..Len(answers)
                 /\ answers[op.first + i - 1].request = op.script[i]
<1>1. /\ Working /\ op.sent /\ ~transport.inProgress /\ Accepts(op.step)
      /\ op.step = Len(op.script)
  BY Zenon DEF Complete, ResponseChecked, Running, Working
<1>2. /\ op \in Operations /\ transport \in Transports /\ transport # None
      /\ op.first \in Nat /\ op.first > 0 /\ op.step \in Nat
      /\ op.step \in 1..Len(op.script)
      /\ Len(answers) \in Nat /\ transport.completed = Len(answers)
  BY <1>1, WorkingFacts, Zenon
<1>3. Len(answers) = op.first + op.step - 2 + 1
  <2>1. Waiting
    BY <1>1, Zenon DEF Waiting
  <2> QED
    BY <1>1, <2>1, Zenon DEF OInv, Course
<1>4. op.step > 0 /\ Len(answers) = op.first + op.step - 1
      /\ Len(answers) - op.first + 1 = op.step
  <2>1. op.first \in Nat /\ op.step \in Nat /\ op.step \in 1..op.step
    BY <1>1, <1>2, Zenon
  <2> QED
    BY <1>3, <2>1
<1>5. ASSUME NEW i \in 1..op.step
      PROVE  /\ op.first + i - 1 \in 1..Len(answers)
             /\ answers[op.first + i - 1].request = op.script[i]
  <2>1. op.first + i - 1 \in 1..Len(answers)
    <3>1. op.first \in Nat /\ op.step \in Nat /\ op.first > 0 /\ Len(answers) \in Nat
      BY <1>2, Zenon
    <3> QED
      BY <1>4, <3>1
  <2>2. \A k \in 1..(Len(answers) - op.first + 1) :
            answers[op.first + k - 1].request = op.script[k]
    BY <1>1, Zenon DEF OInv, Course
  <2> QED
    BY <1>4, <2>1, <2>2, Zenon
<1> QED
  BY <1>1, <1>2, <1>4, <1>5, Zenon

\* What an operation leaves behind once its evidence is right.
LEMMA FinishKeeps ==
    ASSUME OInv, Complete, preflight' \in Facts \cup {None}, receipts' \in Seq(ReceiptRecords),
           Recorded', Evidence', Contiguous',
           kind = "session" /\ ~attempted => preflight' = None /\ receipts' = <<>>
    PROVE  OInv'
<1>1. /\ op' = None /\ transport' \in {transport, None} /\ ~transport.inProgress
      /\ UNCHANGED <<facts, connected, kind, attempted, answers, observed, sent, drained, failed>>
  BY Zenon DEF Complete, Finish, ResponseChecked
<1>2. Types'
  BY <1>1, Zenon DEF OInv, Types
<1>3. Reporting'
  BY <1>1, Zenon DEF OInv, Reporting, Reported
<1>4. Observations' /\ Accounts'
  BY <1>1 DEF OInv, Observations, Accounts, Budget
<1>5. Control'
  BY <1>1, Zenon DEF OInv, Types, Control, Opening, Working
<1>6. Course' /\ Accepted'
  BY <1>1, Zenon DEF Course, Accepted, Working
<1> QED
  BY <1>2, <1>3, <1>4, <1>5, <1>6, Zenon DEF OInv

\* A finished preflight records its responses as the facts of the session.
LEMMA PreflightCompletes ==
    ASSUME OInv, Complete, op.name = "preflight"
    PROVE  OInv'
<1> DEFINE Place(m) == CHOOSE n \in 1..Len(op.script) : op.script[n] = Show(m)
<1>1. /\ Working /\ op.step = Len(op.script) /\ Accepts(op.step)
      /\ Len(answers) = op.first + op.step - 1
      /\ \A i \in 1..op.step :
            /\ op.first + i - 1 \in 1..Len(answers)
            /\ answers[op.first + i - 1].request = op.script[i]
  BY CompleteFacts, Zenon
<1>2. /\ op.script = PreflightScript /\ op.first = 1 /\ receipts = <<>>
      /\ kind # "probe" /\ (kind = "session" => attempted)
  BY <1>1, Zenon DEF OInv, Course
<1>3. N \in Nat /\ N > 0 /\ Len(op.script) = N + 6 /\ op.step = N + 6
  BY <1>1, <1>2, ModelFacts, PreflightScriptFacts, Zenon
<1>4. Len(answers) = N + 6
  BY <1>1, <1>2, <1>3
<1>5. /\ preflight' = [version |-> Answer(1), tags |-> Answer(2), running |-> Answer(3),
                       details |-> [m \in References |-> Answer(Place(m))]]
      /\ receipts' = receipts /\ answers' = answers /\ kind' = kind
  BY Zenon DEF Complete
<1>6. \A i \in 1..(N + 6) : /\ Answer(i) = answers[i].value
                            /\ answers[i].request = PreflightScript[i]
                            /\ Reported(PreflightScript[i], Answer(i))
  <2> SUFFICES ASSUME NEW i \in 1..(N + 6)
               PROVE  /\ Answer(i) = answers[i].value
                      /\ answers[i].request = PreflightScript[i]
                      /\ Reported(PreflightScript[i], Answer(i))
    OBVIOUS
  <2>1. op.first + i - 1 = i
    BY <1>2, <1>3
  <2>2. Answer(i) = answers[i].value
    BY <2>1, Zenon DEF Answer
  <2>3. answers[i].request = PreflightScript[i] /\ i \in 1..Len(answers)
    BY <1>1, <1>2, <1>3, <2>1, Zenon
  <2>4. Reported(answers[i].request, answers[i].value)
    BY <2>3, Zenon DEF OInv, Reporting
  <2> QED
    BY <2>2, <2>3, <2>4, Zenon
<1>7. /\ 1 \in 1..(N + 6) /\ 2 \in 1..(N + 6) /\ 3 \in 1..(N + 6)
      /\ \A j \in 1..N : 3 + j \in 1..(N + 6)
  BY <1>3
<1>8. Answer(1) \in {0, 1} /\ Answer(2) \in [References -> {0, 1}]
      /\ Answer(3) \in SUBSET References
  <2>1. /\ Reported(Version, Answer(1)) /\ Reported(Tags, Answer(2)) /\ Reported(Ps, Answer(3))
    BY <1>6, <1>7, PreflightScriptFacts, Zenon
  <2> QED
    BY <2>1, RequestFacts, Zenon DEF Reported
<1>9. \A j \in 1..N : /\ Place(Models[j]) = 3 + j /\ Answer(3 + j) \in {0, 1, 2}
                      /\ answers[3 + j].request = Show(Models[j])
                      /\ Answer(3 + j) = answers[3 + j].value
  <2> SUFFICES ASSUME NEW j \in 1..N
               PROVE  /\ Place(Models[j]) = 3 + j /\ Answer(3 + j) \in {0, 1, 2}
                      /\ answers[3 + j].request = Show(Models[j])
                      /\ Answer(3 + j) = answers[3 + j].value
    BY Zenon
  <2>1. PreflightScript[3 + j] = Show(Models[j]) /\ 3 + j \in 1..(N + 6)
    BY <1>7, PreflightScriptFacts, Zenon
  <2>2. /\ Place(Models[j]) \in 1..(N + 6)
        /\ PreflightScript[Place(Models[j])] = Show(Models[j])
    BY <1>2, <1>3, <2>1, Zenon
  <2> HIDE DEF Place
  <2>3. Place(Models[j]) = 3 + j
    BY <2>2, ShownOnce
  <2>4. Reported(Show(Models[j]), Answer(3 + j))
    BY <1>6, <2>1, Zenon
  <2>5. Answer(3 + j) \in {0, 1, 2}
    BY <2>4, RequestFacts, Zenon DEF Reported
  <2> QED
    BY <1>6, <2>1, <2>3, <2>5, Zenon
<1> HIDE DEF Place
<1>10. /\ [m \in References |-> Answer(Place(m))] \in [References -> {0, 1, 2}]
       /\ \A j \in 1..N : [m \in References |-> Answer(Place(m))][Models[j]] = answers[3 + j].value
  <2>1. ASSUME NEW m \in References PROVE Answer(Place(m)) \in {0, 1, 2}
    <3>1. PICK j \in 1..N : m = Models[j]
      BY ModelFacts, Zenon
    <3> QED
      BY <1>9, <3>1, Zenon
  <2>2. ASSUME NEW j \in 1..N PROVE Answer(Place(Models[j])) = answers[3 + j].value
    BY <1>9, Zenon
  <2>3. \A j \in 1..N : Models[j] \in References
    BY ModelFacts, Zenon
  <2> QED
    BY <2>1, <2>2, <2>3, Zenon
<1>11. preflight' \in Facts
  BY <1>5, <1>8, <1>10, Zenon DEF Facts
<1>12. /\ preflight'.version = answers[1].value /\ preflight'.tags = answers[2].value
       /\ preflight'.running = answers[3].value
       /\ \A j \in 1..N : preflight'.details[Models[j]] = answers[3 + j].value
  BY <1>5, <1>6, <1>7, <1>10, Zenon
<1>13. \A m \in References : preflight'.tags[m] = 0
  <2>1. PreflightAccepts(op.step)
    BY <1>1, Zenon DEF Accepts
  <2>2. /\ Answer(2) = Answer(op.step - 2)
        /\ \A m \in References : Confirmed(Answer(op.step - 2), m)
    BY <1>1, <2>1, Zenon DEF PreflightAccepts
  <2>3. preflight'.tags = Answer(2)
    BY <1>5, Zenon
  <2> QED
    BY <2>2, <2>3, Zenon DEF Confirmed
<1>14. Recorded'
  <2>1. Len(answers') >= N + 6
    BY <1>3, <1>4, <1>5
  <2> QED
    BY <1>5, <1>9, <1>12, <1>13, <2>1, Zenon DEF Recorded
<1>15. Evidence'
  BY <1>5, EvidenceStays DEF OInv
<1>16. Contiguous'
  <2>1. op' = None
    BY Zenon DEF Complete, Finish
  <2>2. LastUsed' = N + 6
    BY <1>2, <1>5, Zenon DEF LastUsed
  <2> QED
    BY <1>4, <1>5, <2>1, <2>2, Zenon DEF Contiguous
<1>17. receipts' \in Seq(ReceiptRecords)
  BY <1>5, Zenon DEF OInv, Types
<1> QED
  BY <1>2, <1>11, <1>14, <1>15, <1>16, <1>17, FinishKeeps, Zenon

\* A finished probe of the version.
LEMMA ProbeCompletes ==
    ASSUME OInv, Complete, op.name = "probe"
    PROVE  OInv'
<1>1. Working /\ UNCHANGED <<answers, receipts, preflight, kind>>
  BY CompleteFacts, Zenon DEF Complete
<1>2. kind = "probe"
  BY <1>1, Zenon DEF OInv, Course
<1>3. transport' = None
  BY <1>2 DEF Complete, Finish
<1>4. Recorded' /\ Evidence' /\ Contiguous'
  BY <1>1, <1>3, EvidenceStays, RecordedStays DEF OInv, Contiguous
<1>5. preflight' \in Facts \cup {None} /\ receipts' \in Seq(ReceiptRecords)
  BY <1>1, Zenon DEF OInv, Types
<1> QED
  BY <1>2, <1>4, <1>5, FinishKeeps, Zenon

\* The responses of a finished completion agree with the preflight.
LEMMA CompletionMatches ==
    ASSUME OInv, Complete, op.name \in {"complete", "resident"},
           NEW n \in op.first..transport.completed, NEW r, r.model = op.model
    PROVE  FactsMatch(r, n)
<1>1. /\ Working /\ op.step = Len(op.script) /\ Accepts(op.step)
      /\ op.first \in Nat /\ op.step \in Nat /\ op.first > 0 /\ op.step > 0
      /\ Len(answers) \in Nat /\ transport.completed = Len(answers)
      /\ Len(answers) = op.first + op.step - 1
      /\ \A i \in 1..op.step :
            /\ op.first + i - 1 \in 1..Len(answers)
            /\ answers[op.first + i - 1].request = op.script[i]
  BY CompleteFacts, Zenon
<1>2. /\ preflight # None /\ op.model \in References
      /\ op.script = CompletionScript(op.model, op.name = "resident")
      /\ op.name = "resident" => preflight.running = {}
  BY <1>1, Zenon DEF OInv, Course
<1>3. /\ preflight.version = answers[1].value /\ preflight.tags = answers[2].value
      /\ preflight.running = answers[3].value
      /\ \A m \in References : preflight.tags[m] = 0
      /\ \A j \in 1..N : /\ answers[3 + j].request = Show(Models[j])
                         /\ preflight.details[Models[j]] = answers[3 + j].value
  BY <1>2, Zenon DEF OInv, Recorded
<1> DEFINE i == n - op.first + 1
<1>4. i \in 1..op.step /\ op.first + i - 1 = n
  BY <1>1
<1> HIDE DEF i
<1>5. answers[n].request = op.script[i] /\ Answer(i) = answers[n].value
  BY <1>1, <1>4, Zenon DEF Answer
<1>6. Agrees(i)
  <2>1. CompletionAccepts(op.step)
    BY <1>1 DEF Accepts
  <2>2. Agrees(op.step)
    BY <2>1, Zenon DEF CompletionAccepts, Agrees
  <2>3. i = op.step \/ i \in 1..(op.step - 1)
    BY <1>1, <1>4
  <2>4. \A k \in 1..(op.step - 1) : Agrees(k)
    BY <1>1, Zenon DEF OInv, Accepted
  <2> QED
    BY <2>2, <2>3, <2>4, Zenon
<1>7. /\ op.script[i].path = "show" => op.script[i] = Show(op.model)
      /\ op.script[i].path = "ps" => op.name = "resident"
  <2> DEFINE resident == op.name = "resident"
  <2>1. resident \in BOOLEAN /\ op.script = CompletionScript(op.model, resident)
        /\ i \in 1..Len(op.script)
    BY <1>1, <1>2, <1>4
  <2> HIDE DEF resident
  <2>2. /\ op.script[i].path = "show" => op.script[i] = Show(op.model)
        /\ op.script[i].path = "ps" => resident
    BY <1>2, <2>1, CompletionScriptFacts
  <2> QED
    BY <2>2 DEF resident
<1>8. op.script[i].path = "version" => Answer(i) = answers[1].value
  BY <1>3, <1>6, Zenon DEF Agrees
<1>9. op.script[i].path = "tags" => Answer(i) = answers[2].value /\ Answer(i)[r.model] = 0
  BY <1>2, <1>3, <1>6, Zenon DEF Agrees
<1>10. op.script[i].path = "ps" => Answer(i) = {r.model} /\ answers[3].value = {}
  BY <1>2, <1>3, <1>6, <1>7, Zenon DEF Agrees
<1>11. op.script[i].path = "show" =>
          /\ op.script[i].model = r.model /\ Answer(i) # 2
          /\ \E k \in 4..(Len(Models) + 3) :
                answers[k].request = op.script[i] /\ answers[k].value = Answer(i)
  <2> SUFFICES ASSUME op.script[i].path = "show"
               PROVE  /\ op.script[i].model = r.model /\ Answer(i) # 2
                      /\ \E k \in 4..(N + 3) :
                            answers[k].request = op.script[i] /\ answers[k].value = Answer(i)
    BY Zenon DEF N
  <2>1. op.script[i] = Show(op.model) /\ Answer(i) = preflight.details[op.model]
        /\ Answer(i) # 2
    BY <1>6, <1>7, Zenon DEF Agrees
  <2>2. op.script[i].model = r.model
    <3>1. Show(op.model).model = op.model
      BY DEF Show
    <3>2. op.script[i].model = Show(op.model).model
      BY <2>1, Zenon
    <3> QED
      BY <3>1, <3>2, Zenon
  <2>3. PICK j \in 1..N : op.model = Models[j]
    BY <1>2, ModelFacts, Zenon
  <2>4. 3 + j \in 4..(N + 3)
    BY ModelFacts
  <2>5. answers[3 + j].request = op.script[i] /\ answers[3 + j].value = Answer(i)
    BY <1>3, <2>1, <2>3, Zenon
  <2> QED
    BY <2>1, <2>2, <2>4, <2>5, Zenon
<1> QED
  BY <1>5, <1>8, <1>9, <1>10, <1>11, Zenon DEF FactsMatch

\* A finished completion returns a receipt for the span it has just read.
LEMMA CompletionCompletes ==
    ASSUME OInv, Complete, op.name \in {"complete", "resident"}
    PROVE  OInv'
<1> DEFINE receipt == [first |-> op.first, last |-> transport.completed, model |-> op.model,
                       resident |-> op.name = "resident", preflight |-> preflight]
<1>1. /\ Working /\ op.step = Len(op.script) /\ Accepts(op.step)
      /\ op.first \in Nat /\ op.first > 0 /\ op.step \in Nat /\ op.step > 0
      /\ transport # None
      /\ Len(answers) \in Nat /\ transport.completed = Len(answers)
      /\ Len(answers) = op.first + op.step - 1
  BY CompleteFacts, Zenon
<1>2. /\ kind = "session" /\ preflight # None /\ op.model \in References
      /\ op.script = CompletionScript(op.model, op.name = "resident")
  BY <1>1, Zenon DEF OInv, Course
<1>3. /\ preflight' = preflight /\ answers' = answers /\ receipts' = Append(receipts, receipt)
      /\ op' = None /\ transport' = transport
  BY <1>2 DEF Complete, Finish
<1>4. /\ preflight \in Facts /\ receipts \in Seq(ReceiptRecords) /\ Len(receipts) \in Nat
      /\ N \in Nat
  BY <1>2, ModelFacts DEF OInv, Types
<1>5. receipt \in ReceiptRecords /\ receipt.first = op.first /\ receipt.last = Len(answers)
      /\ receipt.model = op.model /\ receipt.resident = (op.name = "resident")
  <2>1. (op.name = "resident") \in BOOLEAN
    OBVIOUS
  <2> QED
    BY <1>1, <1>2, <1>4, <2>1, Zenon DEF ReceiptRecords
<1> HIDE DEF receipt
<1>20. PICK new \in Nat : new = Len(receipts) + 1
  BY <1>4
<1>6. /\ receipts' \in Seq(ReceiptRecords) /\ Len(receipts') = new /\ receipts'[new] = receipt
      /\ \A i \in 1..Len(receipts) : receipts'[i] = receipts[i]
  BY <1>3, <1>4, <1>5, <1>20
<1>7. op.first = LastUsed + 1
  <2>1. op # None
    BY <1>1 DEF Working
  <2> QED
    BY <1>1, <1>2, <2>1, Zenon DEF OInv, Contiguous
<1>8. op.step = IF op.name = "resident" THEN 9 ELSE 7
  <2> DEFINE resident == op.name = "resident"
  <2>1. resident \in BOOLEAN /\ op.step = Len(CompletionScript(op.model, resident))
    BY <1>1, <1>2
  <2> HIDE DEF resident
  <2>2. op.step = IF resident THEN 9 ELSE 7
    BY <1>2, <2>1, CompletionScriptFacts, Zenon
  <2> QED
    BY <2>2 DEF resident
<1>9. Len(answers) >= N + 6
  BY <1>2, Zenon DEF OInv, Recorded
<1>10. LastUsed \in Nat /\ LastUsed >= N + 6
       /\ LastUsed = IF new = 1 THEN N + 6 ELSE receipts[new - 1].last
  <2>1. CASE receipts = <<>>
    BY <1>4, <1>20, <2>1 DEF LastUsed
  <2>2. CASE receipts # <<>>
    <3> DEFINE k == Len(receipts)
    <3>1. k \in 1..Len(receipts) /\ new - 1 = k /\ new # 1
      BY <1>4, <1>20, <2>2
    <3>2. LastUsed = receipts[k].last
      BY <2>2, Zenon DEF LastUsed
    <3>3. receipts[k] \in ReceiptRecords /\ receipts[k].first > N + 6
      BY <1>4, <3>1 DEF OInv, Evidence
    <3>4. receipts[k].first \in Nat /\ receipts[k].last \in Nat /\ receipts[k].resident \in BOOLEAN
      BY <3>3, Zenon DEF ReceiptRecords
    <3>5. Matched(k)
      BY <3>1, MatchForm, Zenon DEF OInv, Evidence
    <3>6. receipts[k].last = receipts[k].first + (IF receipts[k].resident THEN 9 ELSE 7) - 1
      BY <3>5, Zenon DEF Matched, SpanExact
    <3> HIDE DEF k
    <3>7. receipts[k].last > N + 6
      BY <1>4, <3>3, <3>4, <3>6
    <3> QED
      BY <1>4, <3>1, <3>2, <3>4, <3>7
  <2> QED
    BY <2>1, <2>2
<1>11. Matched(new)'
  <2>1. SpanExact(new)'
    <3>1. receipt.first = (IF new = 1 THEN Len(Models) + 6 ELSE receipts'[new - 1].last) + 1
      <4>1. new # 1 => new - 1 \in 1..Len(receipts)
        BY <1>4, <1>20
      <4>2. new # 1 => receipts'[new - 1] = receipts[new - 1]
        BY <1>6, <4>1, Zenon
      <4> QED
        BY <1>5, <1>7, <1>10, <4>2, Zenon DEF N
    <3>2. receipt.last = receipt.first + (IF receipt.resident THEN 9 ELSE 7) - 1
      <4>1. receipt.resident = (op.name = "resident") /\ receipt.first = op.first
        BY <1>5, Zenon
      <4>2. receipt.last = op.first + op.step - 1
        BY <1>1, <1>5, Zenon
      <4> QED
        BY <1>8, <4>1, <4>2, Zenon
    <3>3. receipt.last <= Len(answers')
      BY <1>1, <1>3, <1>5
    <3> QED
      BY <1>6, <3>1, <3>2, <3>3, Zenon DEF SpanExact
  <2>2. ASSUME NEW n \in receipt.first..receipt.last PROVE FactsMatch(receipt, n)
    BY <1>1, <1>5, CompletionMatches, Zenon
  <2>3. ASSUME NEW n \in receipts'[new].first..receipts'[new].last
        PROVE  FactsMatch(receipts[new], n)'
    <3>1. FactsMatch(receipt, n)
      BY <1>6, <2>2, Zenon
    <3> QED
      BY <1>3, <1>6, <3>1, Zenon DEF FactsMatch
  <2> QED
    BY <2>1, <2>3, Zenon DEF Matched
<1>12. ASSUME NEW i \in 1..Len(receipts) PROVE Matched(i)'
  <2>1. Matched(i)
    BY MatchForm, Zenon DEF OInv, Evidence
  <2>2. i \in Nat /\ (i # 1 => i - 1 \in 1..Len(receipts))
    BY <1>4
  <2>3. receipts'[i] = receipts[i] /\ (i # 1 => receipts'[i - 1] = receipts[i - 1])
    BY <1>6, <2>2, Zenon
  <2>4. SpanExact(i)'
    BY <1>3, <2>1, <2>3, Zenon DEF Matched, SpanExact
  <2>5. ASSUME NEW n \in receipts[i].first..receipts[i].last PROVE FactsMatch(receipts[i], n)'
    <3>1. FactsMatch(receipts[i], n)
      BY <2>1, Zenon DEF Matched
    <3> QED
      BY <1>3, <2>3, <3>1, Zenon DEF FactsMatch
  <2> QED
    BY <2>3, <2>4, <2>5, Zenon DEF Matched
<1>13. \A i \in 1..Len(receipts') : i = new \/ i \in 1..Len(receipts)
  BY <1>4, <1>6, <1>20
<1>14. ReceiptFactsMatchPreflight'
  BY <1>11, <1>12, <1>13, MatchFormNext, Zenon
<1>15. Evidence'
  <2>1. ASSUME NEW i \in 1..Len(receipts') PROVE receipts'[i].first > N + 6
    <3>1. CASE i = new
      <4>1. receipts'[i].first = LastUsed + 1
        BY <1>5, <1>6, <1>7, <3>1, Zenon
      <4> QED
        BY <1>4, <1>10, <4>1
    <3>2. CASE i \in 1..Len(receipts)
      BY <1>6, <3>2, Zenon DEF OInv, Evidence
    <3> QED
      BY <1>13, <3>1, <3>2, Zenon
  <2> QED
    BY <1>3, <1>9, <1>14, <2>1, Zenon DEF Evidence
<1>16. Recorded'
  BY <1>3, RecordedStays DEF OInv
<1>17. Contiguous'
  <2>1. Len(receipts') = new /\ new # 0
    BY <1>4, <1>6, <1>20
  <2>2. receipts' # <<>>
    BY <2>1
  <2>3. LastUsed' = Len(answers)
    BY <1>5, <1>6, <2>2, Zenon DEF LastUsed
  <2> QED
    BY <1>3, <2>3, Zenon DEF Contiguous
<1>18. attempted
  BY <1>2, Zenon DEF OInv, Types, Control
<1> QED
  BY <1>3, <1>4, <1>6, <1>15, <1>16, <1>17, <1>18, FinishKeeps, Zenon

\* Every kind of operation keeps the invariant when it succeeds.
LEMMA CompleteKeeps ==
    ASSUME OInv, Complete
    PROVE  OInv'
<1>1. Working /\ op \in Operations
  BY CompleteFacts, Zenon
<1>2. op.name \in {"preflight", "probe", "complete", "resident"}
  BY <1>1 DEF Operations, Working
<1> QED
  BY <1>2, PreflightCompletes, ProbeCompletes, CompletionCompletes, Zenon

-----------------------------------------------------------------------------
(* The runtime, and the theorems.                                          *)

\* Nothing in the invariant depends on what the runtime would answer now.
LEMMA RuntimeKeeps ==
    ASSUME OInv, facts' \in Facts, connected' \in BOOLEAN, UNCHANGED <<session, op, history>>
    PROVE  OInv'
<1>1. UNCHANGED <<kind, transport, preflight, attempted, answers, observed, sent, drained,
                  receipts, failed>>
  BY DEF session, history
<1>2. Types'
  BY <1>1, Zenon DEF OInv, Types
<1>3. Reporting' /\ Evidence' /\ Recorded'
  BY <1>1, EvidenceStays, RecordedStays DEF OInv
<1>4. Observations' /\ Accounts'
  BY <1>1 DEF OInv, Observations, Accounts, Budget
<1>5. Control'
  BY <1>1, Zenon DEF OInv, Control, Opening, Working
<1>6. Course' /\ Accepted'
  <2>1. Waiting' = Waiting /\ Working' = Working
    BY <1>1, Zenon DEF Waiting, Working
  <2>2. Course'
    BY <1>1, <2>1, Zenon DEF OInv, Course
  <2>3. Accepted'
    BY <1>1, <2>1, Zenon DEF OInv, Accepted, Agrees, Answer
  <2> QED
    BY <2>2, <2>3
<1>7. Contiguous'
  BY <1>1, Zenon DEF OInv, Contiguous, LastUsed
<1> QED
  BY <1>2, <1>3, <1>4, <1>5, <1>6, <1>7, Zenon DEF OInv

\* The runtime changes one of its facts.
LEMMA DriftKeeps ==
    ASSUME OInv, Drift
    PROVE  OInv'
<1>1. facts \in Facts
  BY Zenon DEF OInv, Types
<1>2. PICK m \in References, value \in {0, 1, 2} :
         facts' \in {[facts EXCEPT !.version = 1 - @],
                     [facts EXCEPT !.tags[m] = 1 - @],
                     [facts EXCEPT !.details[m] = value],
                     [facts EXCEPT !.running = IF m \in @ THEN @ \ {m} ELSE @ \cup {m}]}
  BY Zenon DEF Drift
<1>3. /\ facts.version \in {0, 1} /\ facts.tags \in [References -> {0, 1}]
      /\ facts.details \in [References -> {0, 1, 2}] /\ facts.running \in SUBSET References
  BY <1>1, Zenon DEF Facts
<1>4. /\ 1 - facts.version \in {0, 1} /\ 1 - facts.tags[m] \in {0, 1}
      /\ facts.running \ {m} \in SUBSET References /\ facts.running \cup {m} \in SUBSET References
  BY <1>3
<1>9. facts' \in Facts
  <2>1. CASE facts' = [facts EXCEPT !.version = 1 - @]
    BY <1>1, <1>4, <2>1, Zenon DEF Facts
  <2>2. CASE facts' = [facts EXCEPT !.tags[m] = 1 - @]
    BY <1>1, <1>4, <2>2, Zenon DEF Facts
  <2>3. CASE facts' = [facts EXCEPT !.details[m] = value]
    BY <1>1, <2>3, Zenon DEF Facts
  <2>4. CASE facts' = [facts EXCEPT !.running = IF m \in @ THEN @ \ {m} ELSE @ \cup {m}]
    BY <1>1, <1>4, <2>4, Zenon DEF Facts
  <2> QED
    BY <1>2, <2>1, <2>2, <2>3, <2>4, Zenon
<1>10. connected' \in BOOLEAN /\ UNCHANGED <<session, op, history>>
  BY DEF Drift, OInv, Types
<1> QED
  BY <1>9, <1>10, RuntimeKeeps

\* The server closes the connection.
LEMMA CloseConnectionKeeps ==
    ASSUME OInv, CloseConnection
    PROVE  OInv'
<1>1. facts' \in Facts /\ connected' \in BOOLEAN /\ UNCHANGED <<session, op, history>>
  BY Zenon DEF CloseConnection, OInv, Types
<1> QED
  BY <1>1, RuntimeKeeps

\* A session that is about to open.
LEMMA InitOInv == Init => OInv
<1> SUFFICES ASSUME Init PROVE OInv
  OBVIOUS
<1>1. /\ transport = None /\ preflight = None /\ attempted = FALSE /\ failed = FALSE
      /\ answers = <<>> /\ observed = <<>> /\ receipts = <<>> /\ sent = 0 /\ drained = 0
      /\ connected = TRUE /\ kind \in {"session", "preflight", "probe"}
      /\ op = Operation("open", None, <<>>)
  BY DEF Init
<1>2. /\ Len(answers) = 0 /\ Len(observed) = 0 /\ Len(receipts) = 0
      /\ answers \in Seq(Reports) /\ observed \in Seq(Phases)
      /\ receipts \in Seq(ReceiptRecords) /\ <<>> \in Seq(Requests)
  BY <1>1
<1>3. /\ op \in Operations /\ op.name = "open" /\ op.script = <<>> /\ op.step = 1 /\ ~op.sent
  <2>1. Len(answers) + 1 \in Nat /\ 1 \in Nat
    BY <1>2
  <2> QED
    BY <1>1, <1>2, <2>1, Zenon DEF Operation, Operations
<1>4. op # None /\ Opening /\ ~Working
  BY <1>3, NoneAssumption DEF Opening, Working
<1>5. facts \in Facts
  <2>1. facts \in [version : {0, 1}, tags : [References -> {0}],
                   details : [References -> {0, 2}], running : {{}, References}]
    BY Zenon DEF Init
  <2>2. /\ facts.version \in {0, 1} /\ facts.tags \in [References -> {0}]
        /\ facts.details \in [References -> {0, 2}] /\ facts.running \in {{}, References}
        /\ facts = [version |-> facts.version, tags |-> facts.tags,
                    details |-> facts.details, running |-> facts.running]
    BY <2>1
  <2>3. /\ facts.tags \in [References -> {0, 1}] /\ facts.details \in [References -> {0, 1, 2}]
        /\ facts.running \in SUBSET References
    BY <2>2
  <2> QED
    BY <2>2, <2>3, Zenon DEF Facts
<1>6. Types
  <2>1. sent \in Nat /\ drained \in Nat /\ connected \in BOOLEAN /\ attempted \in BOOLEAN
        /\ failed \in BOOLEAN
    BY <1>1, Zenon
  <2> QED
    BY <1>1, <1>2, <1>3, <1>5, <2>1, Zenon DEF Types
<1>7. Reporting
  BY <1>2 DEF Reporting
<1>8. Observations
  BY <1>1, <1>2 DEF Observations
<1>9. Accounts
  <2>1. Budget \in Nat
    BY SessionAssumption DEF Budget
  <2> QED
    BY <1>1, <2>1 DEF Accounts
<1>10. Control /\ Course /\ Accepted /\ Recorded /\ Contiguous
  BY <1>1, <1>3, <1>4, Zenon DEF Control, Course, Accepted, Recorded, Contiguous
<1>11. Evidence
  <2>1. 1..Len(receipts) = {}
    BY <1>2
  <2>2. ReceiptFactsMatchPreflight
    BY <2>1, MatchForm
  <2> QED
    BY <1>1, <2>1, <2>2 DEF Evidence
<1> QED
  BY <1>6, <1>7, <1>8, <1>9, <1>10, <1>11 DEF OInv

\* Every step keeps the invariant.
LEMMA NextOInv == OInv /\ [Next]_vars => OInv'
<1> SUFFICES ASSUME OInv, [Next]_vars PROVE OInv'
  OBVIOUS
<1>1. CASE UNCHANGED vars
  <2>1. UNCHANGED <<facts, connected>> /\ UNCHANGED <<session, op, history>>
    BY <1>1 DEF vars
  <2>2. facts' \in Facts /\ connected' \in BOOLEAN
    BY <2>1 DEF OInv, Types
  <2> QED
    BY <2>1, <2>2, RuntimeKeeps
<1>2. CASE Client
  BY <1>2, OpenKeeps, SendRequestKeeps, RequestFailsKeeps, NextRequestKeeps, CompleteKeeps,
     Zenon DEF Client
<1>3. CASE \E m \in References, resident \in BOOLEAN : CompleteStructured(m, resident)
  BY <1>3, CompleteStructuredKeeps, Zenon
<1> QED
  BY <1>1, <1>2, <1>3, DrainResponseKeeps, PreflightKeeps, InvalidateKeeps, CancelKeeps,
     DriftKeeps, CloseConnectionKeeps, Zenon DEF Next

\* The session keeps its accounts and its evidence for any list of models, any
\* limits and any drift of the runtime: one numbering of the responses serves
\* the transport, the observer, the scripts and the receipts
\* (crates/ollama/src/single_connection/session.rs, exchange.rs).
THEOREM SessionInvariant == Spec => []OInv
<1>1. Init => OInv
  BY InitOInv
<1>2. OInv /\ [Next]_vars => OInv'
  BY NextOInv
<1> QED
  BY <1>1, <1>2, PTL DEF Spec

\* Every receipt a session returns spans its own seven or nine responses, right
\* after the preflight or the receipt before it, and each of them reports what
\* the preflight recorded, however the runtime's facts drift in between
\* (session.rs:275-312, completion.rs:197-264, residency.rs:144-243).
THEOREM ReceiptFactsMatchPreflightTheorem == Spec => []ReceiptFactsMatchPreflight
<1>1. OInv => ReceiptFactsMatchPreflight
  BY DEF OInv, Evidence
<1> QED
  BY <1>1, SessionInvariant, PTL

\* The accounts of OInv are those the property states.
LEMMA AccountsAgree == OInv => Accounted
<1> SUFFICES ASSUME OInv PROVE Accounted
  OBVIOUS
<1>1. Types /\ Observations /\ Accounts /\ Control /\ Course
  BY DEF OInv
<1>2. Budget \in Nat
  BY SessionAssumption DEF Budget
<1>3. transport # None => /\ transport.remaining \in 0..Budget
                          /\ transport.completed \in Nat
                          /\ transport.inProgress \in BOOLEAN
  <2> SUFFICES ASSUME transport # None
               PROVE  /\ transport.remaining \in 0..Budget
                      /\ transport.completed \in Nat
                      /\ transport.inProgress \in BOOLEAN
    OBVIOUS
  <2>1. transport \in Transports /\ drained \in Nat
    BY <1>1 DEF Types
  <2>2. /\ transport.remaining \in Nat /\ transport.completed \in Nat
        /\ transport.inProgress \in BOOLEAN
    BY <2>1, Zenon DEF Transports
  <2>3. drained + transport.remaining = Budget
    BY <1>1 DEF Accounts
  <2> QED
    BY <1>2, <2>1, <2>2, <2>3
<1>4. op # None => op.step \in 1..(Len(op.script) + 1)
  <2> SUFFICES ASSUME op # None PROVE op.step \in 1..(Len(op.script) + 1)
    OBVIOUS
  <2>1. CASE Opening
    <3>1. op.script = <<>> /\ op.step = 1
      BY <1>1, <2>1, Zenon DEF Control
    <3> QED
      BY <3>1
  <2>2. CASE Working
    <3>1. op.step \in 1..Len(op.script) /\ op.script \in Seq(Requests)
      BY <2>2, WorkingFacts
    <3> QED
      BY <3>1
  <2> QED
    BY <2>1, <2>2 DEF Opening, Working
<1>5. TypeOK
  BY <1>1, <1>3, <1>4, Zenon DEF TypeOK, Types
<1> QED
  BY <1>1, <1>5, Zenon DEF Accounted, Observations, Accounts

\* A request is written only by SendRequest, on a transport whose responses are
\* all drained and observed.
LEMMA SentOnce ==
    ASSUME OInv, [Next]_vars, sent' # sent
    PROVE  /\ sent' = sent + 1 /\ Len(answers) = sent /\ Len(observed) = sent + 1
           /\ ~failed /\ transport # None
<1>1. SendRequest /\ sent' = sent + 1
  BY Zenon DEF Next, vars, history, Client, Open, SendRequest, Poison, Fail, PoisonObserved,
     RequestFails, RejectResponse, NextRequest, Complete, DrainResponse, Preflight,
     Invalidate, Cancel, CompleteStructured, Drift, CloseConnection
<1>2. Working /\ ~op.sent
  BY <1>1 DEF SendRequest, Running, Working
<1>3. transport # None /\ ~transport.inProgress
  BY <1>2, Zenon DEF OInv, Control
<1>4. /\ ~failed /\ Len(observed) = Len(answers) + 1 /\ sent = Len(answers) + 0
  BY <1>3, Zenon DEF OInv, Accounts
<1>5. Len(answers) \in Nat
  BY DEF OInv, Types
<1> QED
  BY <1>1, <1>3, <1>4, <1>5

\* Whatever the server, the observer and the caller do, the transport, the
\* observer and the byte budget agree after every step, and no request is
\* written while an earlier response is undrained or unobserved, or after an
\* error (single_connection.rs:195-200, exchange.rs:107-118, session.rs:365-373).
THEOREM EveryResponseObservedTheorem == Spec => EveryResponseObserved
<1>1. OInv /\ OInv' /\ [Next]_vars =>
         [/\ Accounted'
          /\ sent' # sent => /\ sent' = sent + 1 /\ Len(answers) = sent
                             /\ Len(observed) = sent + 1
                             /\ ~failed /\ transport # None]_vars
  <2> SUFFICES ASSUME OInv, OInv', [Next]_vars
               PROVE  /\ Accounted'
                      /\ sent' # sent => /\ sent' = sent + 1 /\ Len(answers) = sent
                                         /\ Len(observed) = sent + 1
                                         /\ ~failed /\ transport # None
    OBVIOUS
  <2>1. Accounted'
    BY AccountsAgree, PTL
  <2>2. sent' # sent => /\ sent' = sent + 1 /\ Len(answers) = sent
                        /\ Len(observed) = sent + 1 /\ ~failed /\ transport # None
    BY SentOnce, Zenon
  <2> QED
    BY <2>1, <2>2
<1> QED
  BY <1>1, SessionInvariant, PTL DEF Spec, EveryResponseObserved

-----------------------------------------------------------------------------
(* What the evidence of a session stands on.                               *)

\* Facts p are what the first N + 6 responses report, before the models were
\* shown and after, with every digest as bound.
Stands(p, responses, owner) ==
    /\ Len(responses) >= N + 6
    /\ p.version = responses[1].value /\ p.version = responses[N + 5].value
    /\ p.tags = responses[2].value /\ p.tags = responses[N + 4].value
    /\ p.running = responses[3].value /\ p.running = responses[N + 6].value
    /\ \A m \in References : p.tags[m] = 0
    /\ \A j \in 1..N : /\ p.details[Models[j]] = responses[3 + j].value
                       /\ owner = "session" => p.details[Models[j]] # 2

\* The facts a session compares with, and those a receipt carries, are what its
\* one preflight read: version, inventory and loaded models twice and equal, the
\* details of the models in between, all of them with the bound digest and able
\* to complete.  No later response, failure or second preflight replaces them
\* (single_connection.rs:309-350, session.rs:202-235).
PreflightStands ==
    /\ preflight # None => Stands(preflight, answers, kind)
    /\ \A i \in 1..Len(receipts) : Stands(receipts[i].preflight, answers, kind)

\* A session that failed, was invalidated or has finished is closed for good:
\* no later call on it writes a request, reaches the observer, returns a receipt
\* or brings evidence back (session.rs:182-184, 202-213, 365-373).
NothingAfterDrop ==
    [][failed \/ (transport = None /\ observed # <<>>) =>
          /\ transport' = None /\ (preflight' # None => preflight' = preflight)
          /\ UNCHANGED <<answers, observed, sent, drained, receipts>>]_vars

\* The invariant OInv, strengthened by it.
FInv == OInv /\ PreflightStands

\* More responses change nothing about the first N + 6.
LEMMA StandsStays ==
    ASSUME OInv, kind' = kind, NEW x,
           answers' = answers \/ answers' = Append(answers, x)
    PROVE  \A p : Stands(p, answers, kind) => Stands(p, answers', kind')
<1> SUFFICES ASSUME NEW p, Stands(p, answers, kind) PROVE Stands(p, answers', kind')
  OBVIOUS
<1>1. N \in Nat /\ N > 0 /\ answers \in Seq(Reports) /\ Len(answers) \in Nat
  BY ModelFacts DEF OInv, Types
<1>2. Len(answers) >= N + 6
  BY DEF Stands
<1>3. Len(answers') \in Nat /\ Len(answers') >= N + 6
      /\ \A n \in 1..(N + 6) : answers'[n] = answers[n]
  <2>1. CASE answers' = answers
    BY <1>1, <1>2, <2>1
  <2>2. CASE answers' = Append(answers, x)
    BY <1>1, <1>2, <2>2
  <2> QED
    BY <2>1, <2>2
<1>4. /\ 1 \in 1..(N + 6) /\ 2 \in 1..(N + 6) /\ 3 \in 1..(N + 6) /\ N + 4 \in 1..(N + 6)
      /\ N + 5 \in 1..(N + 6) /\ N + 6 \in 1..(N + 6)
      /\ \A j \in 1..N : 3 + j \in 1..(N + 6)
  BY <1>1
<1> QED
  BY <1>3, <1>4, Zenon DEF Stands

\* Steps that record and return nothing.
LEMMA StandsKept ==
    ASSUME FInv, kind' = kind, NEW x,
           answers' = answers \/ answers' = Append(answers, x),
           preflight' \in {preflight, None}, receipts' = receipts
    PROVE  PreflightStands'
  BY StandsStays DEF FInv, PreflightStands

\* The facts of a finished preflight.
LEMMA PreflightRecords ==
    ASSUME FInv, Complete, op.name = "preflight"
    PROVE  PreflightStands'
<1>1. /\ Working /\ op.step = Len(op.script) /\ Accepts(op.step)
      /\ Len(answers) = op.first + op.step - 1
  BY CompleteFacts, Zenon DEF FInv
<1>2. op.script = PreflightScript /\ op.first = 1 /\ receipts = <<>>
  BY <1>1, Zenon DEF FInv, OInv, Course
<1>3. N \in Nat /\ N > 0 /\ Len(op.script) = N + 6 /\ op.step = N + 6
  BY <1>1, <1>2, ModelFacts, PreflightScriptFacts, Zenon
<1>4. Len(answers) = N + 6 /\ \A i \in 1..(N + 6) : Answer(i) = answers[i].value
  BY <1>1, <1>2, <1>3 DEF Answer
<1>5. /\ Answer(1) = Answer(N + 5) /\ Answer(2) = Answer(N + 4) /\ Answer(3) = Answer(N + 6)
      /\ kind = "session" => \A n \in 4..(N + 3) : Answer(n) # 2
  <2>1. PreflightAccepts(N + 6)
    BY <1>1, <1>3 DEF Accepts
  <2> QED
    BY <1>3, <2>1 DEF PreflightAccepts
<1>6. answers' = answers /\ receipts' = <<>> /\ kind' = kind
  BY <1>2, Zenon DEF Complete
<1>7. ASSUME preflight' # None PROVE Stands(preflight', answers', kind')
  <2>1. /\ preflight'.version = answers[1].value /\ preflight'.tags = answers[2].value
        /\ preflight'.running = answers[3].value
        /\ \A m \in References : preflight'.tags[m] = 0
        /\ \A k \in 1..N : preflight'.details[Models[k]] = answers[3 + k].value
    <3>1. Recorded'
      BY CompleteKeeps DEF FInv, OInv
    <3> QED
      BY <1>6, <1>7, <3>1 DEF Recorded
  <2>2. /\ answers[1].value = answers[N + 5].value /\ answers[2].value = answers[N + 4].value
        /\ answers[3].value = answers[N + 6].value
        /\ kind = "session" => \A k \in 1..N : answers[3 + k].value # 2
    <3>1. /\ 1 \in 1..(N + 6) /\ 2 \in 1..(N + 6) /\ 3 \in 1..(N + 6) /\ N + 4 \in 1..(N + 6)
          /\ N + 5 \in 1..(N + 6) /\ N + 6 \in 1..(N + 6)
          /\ \A k \in 1..N : 3 + k \in 1..(N + 6) /\ 3 + k \in 4..(N + 3)
      BY <1>3
    <3> QED
      BY <1>4, <1>5, <3>1
  <2>3. Len(answers') >= N + 6
    BY <1>3, <1>4, <1>6
  <2> QED
    BY <1>6, <2>1, <2>2, <2>3 DEF Stands
<1> QED
  BY <1>6, <1>7 DEF PreflightStands

\* A receipt carries the facts of the session.
LEMMA ReceiptCarries ==
    ASSUME FInv, Complete, op.name # "preflight"
    PROVE  PreflightStands'
<1>1. answers' = answers /\ preflight' = preflight /\ kind' = kind
  BY Zenon DEF Complete
<1>2. \A p : Stands(p, answers, kind) => Stands(p, answers', kind')
  BY <1>1, StandsStays DEF FInv
<1>3. CASE op.name \in {"complete", "resident"}
  <2> DEFINE r == [first |-> op.first, last |-> transport.completed, model |-> op.model,
                   resident |-> op.name = "resident", preflight |-> preflight]
  <2>1. receipts' = Append(receipts, r)
    BY <1>3, Zenon DEF Complete
  <2>2. preflight # None /\ Stands(preflight, answers, kind)
    <3>1. Working
      BY CompleteFacts DEF FInv
    <3>2. preflight # None
      BY <1>3, <3>1, Zenon DEF FInv, OInv, Course
    <3> QED
      BY <3>2 DEF FInv, PreflightStands
  <2>3. receipts \in Seq(ReceiptRecords) /\ r.preflight = preflight
    BY DEF FInv, OInv, Types
  <2>4. /\ Len(receipts) \in Nat /\ Len(receipts') = Len(receipts) + 1
        /\ receipts'[Len(receipts) + 1] = r
        /\ \A i \in 1..Len(receipts) : receipts'[i] = receipts[i]
    <3> HIDE DEF r
    <3> QED
      BY <2>1, <2>3
  <2>5. \A i \in 1..Len(receipts') : Stands(receipts'[i].preflight, answers', kind')
    <3> SUFFICES ASSUME NEW i \in 1..Len(receipts') PROVE Stands(receipts'[i].preflight, answers', kind')
      OBVIOUS
    <3>1. CASE i \in 1..Len(receipts)
      BY <1>2, <2>4, <3>1 DEF FInv, PreflightStands
    <3>2. CASE i = Len(receipts) + 1
      BY <1>2, <2>2, <2>3, <2>4, <3>2
    <3> QED
      BY <2>4, <3>1, <3>2
  <2> QED
    BY <1>1, <1>2, <2>2, <2>5 DEF PreflightStands
<1>4. CASE op.name \notin {"complete", "resident"}
  <2>1. receipts' = receipts
    BY <1>4, Zenon DEF Complete
  <2> QED
    BY <1>1, <2>1, StandsKept
<1> QED
  BY <1>3, <1>4

\* Every step keeps the facts where they are.
LEMMA NextFInv == FInv /\ [Next]_vars => FInv'
<1> SUFFICES ASSUME FInv, [Next]_vars PROVE FInv'
  OBVIOUS
<1>1. OInv'
  BY NextOInv, Zenon DEF FInv
<1>2. CASE Complete
  BY <1>1, <1>2, PreflightRecords, ReceiptCarries DEF FInv
<1>3. CASE DrainResponse
  <2>1. /\ kind' = kind /\ preflight' = preflight /\ receipts' = receipts
        /\ \E x : answers' = Append(answers, x)
    BY <1>3, Zenon DEF DrainResponse
  <2> QED
    BY <1>1, <2>1, StandsKept DEF FInv
<1>4. CASE ~Complete /\ ~DrainResponse
  <2>1. kind' = kind /\ preflight' \in {preflight, None} /\ receipts' = receipts
        /\ answers' = answers
    BY <1>4, Zenon DEF Next, vars, session, history, Client, Open, SendRequest, Poison, Fail,
       PoisonObserved, RequestFails, RejectResponse, NextRequest, Preflight, Invalidate, Cancel,
       CompleteStructured, Drift, CloseConnection
  <2> QED
    BY <1>1, <2>1, StandsKept DEF FInv
<1> QED
  BY <1>2, <1>3, <1>4

\* For any list of models, any limits and any drift, the facts that completions
\* are compared with and that receipts carry are those of the one preflight, read
\* before and after the models were inspected (single_connection.rs:309-350,
\* session.rs:202-235).
THEOREM PreflightStandsTheorem == Spec => []PreflightStands
<1>1. Init => FInv
  <2> SUFFICES ASSUME Init PROVE FInv
    OBVIOUS
  <2>1. preflight = None /\ Len(receipts) = 0
    BY DEF Init
  <2> QED
    BY <2>1, InitOInv DEF FInv, PreflightStands
<1>2. FInv => PreflightStands
  BY DEF FInv
<1> QED
  BY <1>1, <1>2, NextFInv, PTL DEF Spec

\* Nothing leaves or enters a session without its transport: poison, invalidate
\* and the end of a one-shot operation are final (session.rs:182-184, 365-373).
THEOREM NothingAfterDropTheorem == Spec => NothingAfterDrop
<1> DEFINE Closed == failed \/ (transport = None /\ observed # <<>>)
           Still == /\ transport' = None /\ (preflight' # None => preflight' = preflight)
                    /\ UNCHANGED <<answers, observed, sent, drained, receipts>>
<1>1. OInv /\ [Next]_vars => [Closed => Still]_vars
  <2> SUFFICES ASSUME OInv, Next, Closed PROVE Still
    OBVIOUS
  <2>1. transport = None
    BY Zenon DEF OInv, Accounts
  <2>2. op = None
    BY <2>1, Zenon DEF OInv, Control, Opening, Working
  <2> QED
    BY <2>1, <2>2, Zenon DEF Next, Client, Open, SendRequest, RequestFails, RejectResponse,
       NextRequest, Complete, ResponseChecked, Running, DrainResponse, Preflight, Invalidate,
       Cancel, CompleteStructured, Drift, CloseConnection, session, history
<1> QED
  BY <1>1, SessionInvariant, PTL DEF Spec, NothingAfterDrop
=============================================================================
