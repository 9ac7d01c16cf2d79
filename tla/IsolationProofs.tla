-------------------------- MODULE IsolationProofs ---------------------------
(***************************************************************************)
(* Theorems about IsolationLaunch, for any number of inputs and calls.     *)
(*                                                                         *)
(* Both sockets carry one fixed conversation each: the descriptor, the     *)
(* inputs in order and one request from the host to the guardian, GO, the  *)
(* inputs in order and the capture from the guardian to the init.  What is *)
(* in a socket is the part of its conversation that was said and not yet   *)
(* heard.  The rest is about what the end of one process means for the     *)
(* others.                                                                 *)
(***************************************************************************)
EXTENDS IsolationLaunch, SequenceTheorems, TLAPS

-----------------------------------------------------------------------------
(* The inductive invariant.                                                *)

Kinds == {"launch", "input", "connect", "connected", "error", "armed", "go",
          "started", "capture", "captured"}
Messages == [kind : Kinds, n : 0..(MaxInputs + MaxCalls)]

\* The phases of the host while it launches, and once it has a lease.
Starting == {"ready", "verify"}
Leased == {"leased", "await", "close", "closeReap", "closeWait", "closeTarget",
           "closeInit", "closed", "dropped"}
Failing == {"abort", "abortReap", "abortWait", "aborted", "failed"}
HostPcs == {"idle", "descriptor", "inputs"} \cup Starting \cup Leased \cup Failing

\* The phases of the guardian before it knows the inputs, before it has dropped
\* its privileges, and after.
Learning == {"arm", "launch", "input"}
Serving == {"serve", "connect", "captured"}
Reduced == {"armed", "forward", "started"} \cup Serving
GuardianPcs == {"none", "drop", "dead"} \cup Learning \cup Reduced

\* The phases of the init before it has the inputs, and after.
Waiting == {"arm", "armed", "go"}
Prepared == {"spawn", "started", "serve"}
InitPcs == {"none", "inputs", "exiting", "dead"} \cup Waiting \cup Prepared

HostRecords ==
    [pc : HostPcs, alive : BOOLEAN, stopped : BOOLEAN, sent : Nat, killing : BOOLEAN,
     released : BOOLEAN, calls : Nat, requested : BOOLEAN, requests : Nat, channel : Nat]
GuardianRecords ==
    [pc : GuardianPcs, armed : BOOLEAN, reduced : BOOLEAN, n : Nat,
     transferred : BOOLEAN, request : Nat]
InitRecords ==
    [pc : InitPcs, armed : BOOLEAN, reduced : BOOLEAN, n : Nat, count : Nat,
     captured : BOOLEAN]

Types ==
    /\ inputs \in 0..MaxInputs
    /\ host \in HostRecords /\ guardian \in GuardianRecords /\ init \in InitRecords
    /\ target \in {"none", "running", "dead"} /\ ready \in {"open", "ready", "error"}
    /\ down \in Seq(Messages) /\ up \in Seq(Messages)
    /\ inner \in Seq(Messages) /\ outer \in Seq(Messages)

\* The numbers the processes keep.
HostCounts ==
    /\ host.sent <= inputs /\ host.calls <= MaxCalls
    /\ host.pc \in {"idle", "descriptor"} => host.sent = 0
    /\ host.requests <= 1 /\ host.requests <= host.calls
    /\ host.requests = 1 => host.requested /\ host.pc \in Leased

GuardianCounts ==
    /\ guardian.n <= inputs /\ guardian.request <= inputs + MaxCalls
    /\ guardian.pc \in {"none", "arm", "launch"} => guardian.n = 0
    /\ guardian.pc = "input" => guardian.request = inputs
    /\ guardian.pc \in {"drop"} \cup Reduced => guardian.n = inputs
    /\ guardian.pc = "forward" => guardian.request <= inputs
    /\ guardian.pc \in {"connect", "captured"} => guardian.request = host.requests

InitCounts ==
    /\ init.n <= init.count /\ init.count <= inputs
    /\ init.pc \in {"none"} \cup Waiting => init.n = 0
    /\ init.pc = "inputs" => init.count = inputs
    /\ init.pc \in Prepared => init.n = inputs

\* The conversation from the host, and how much of it the guardian has heard.
Said(i) == IF i = 1 THEN Message("launch", inputs)
           ELSE IF i <= 1 + inputs THEN Message("input", i - 1)
           ELSE Message("connect", 1)

Asked == guardian.transferred \/ guardian.pc \in {"connect", "captured"}

Heard == IF guardian.pc \in {"arm", "launch"} THEN 0
         ELSE IF guardian.pc = "input" THEN 1 + guardian.n
         ELSE IF Asked THEN 2 + inputs ELSE 1 + inputs

DownSound ==
    /\ guardian.pc = "none" => down = <<>>
    /\ GuardianAlive =>
       /\ \A i \in 1..Len(down) : down[i] = Said(Heard + i)
       /\ Len(down) + Heard <= 1 + inputs + host.requests
       /\ host.pc \in {"idle", "descriptor"} => Len(down) + Heard = 0
       /\ host.pc = "inputs" => Len(down) + Heard = 1 + host.sent
       /\ host.pc \in Starting \cup Leased => Len(down) + Heard = 1 + inputs + host.requests

\* The conversation from the guardian, while the init still waits for inputs.
Told(i) == IF i = 1 THEN Message("go", inputs)
           ELSE IF i <= 1 + inputs THEN Message("input", i - 1)
           ELSE Message("capture", 0)

Taken == IF init.pc = "inputs" THEN 1 + init.n ELSE 0

InnerSound ==
    /\ inner # <<>> => guardian.reduced
    /\ init.pc \in {"none", "inputs"} \cup Waiting =>
          /\ \A i \in 1..Len(inner) : inner[i] = Told(Taken + i)
          /\ guardian.pc \in {"none", "drop", "armed"} \cup Learning => Len(inner) + Taken = 0
          /\ guardian.pc = "forward" => Len(inner) + Taken = 1 + guardian.request
          /\ guardian.pc = "started" => Len(inner) + Taken = 1 + inputs
          /\ guardian.pc \notin Serving

\* What each process has done when another is in its phase.
Stages ==
    /\ host.pc = "idle" => guardian.pc = "none"
    /\ guardian.pc = "none" => host.pc \in {"idle", "failed"}
    /\ guardian.pc \in {"none"} \cup Learning =>
          init.pc = "none" /\ outer = <<>> /\ inner = <<>>
    /\ guardian.pc \in Reduced => guardian.reduced
    /\ guardian.transferred => guardian.pc \in {"serve", "dead"}
    /\ init.pc \in {"inputs"} \cup Prepared => guardian.reduced
    /\ init.pc \in Prepared => init.reduced
    /\ target # "none" =>
          /\ init.pc \in {"started", "serve", "exiting", "dead"}
          /\ guardian.reduced /\ init.reduced /\ init.n = inputs
    /\ init.pc \in {"started", "serve"} => target # "none"
    /\ (ready = "ready" \/ \E i \in 1..Len(outer) : outer[i].kind = "started") =>
          target # "none" /\ init.pc \in {"serve", "exiting", "dead"}
    /\ guardian.pc \in Serving => ready = "ready"

\* One request, one answer.
UpSound ==
    /\ Len(up) <= 1
    /\ up # <<>> /\ up[1].kind = "connected" => up[1].n = host.requests
    /\ host.channel # 0 => host.channel = host.requests /\ up = <<>>
    /\ guardian.pc # "dead" /\ ~guardian.transferred => up = <<>> /\ host.channel = 0

\* What a closing host has seen to end does not come back.
Closing ==
    /\ host.pc \in {"closeTarget", "closeInit", "closed"} => ~GuardianAlive
    /\ host.pc \in {"closeInit", "closed"} => target = "dead"
    /\ host.pc = "closed" => ~InitAlive

LInv ==
    /\ Types
    /\ HostCounts /\ GuardianCounts /\ InitCounts
    /\ DownSound /\ InnerSound /\ Stages /\ UpSound /\ Closing

-----------------------------------------------------------------------------
(* Numbers, queues and records.                                            *)

\* The number after one that is below the number of inputs.
LEMMA NextNumber ==
    /\ 0 \in Nat
    /\ \A n \in Nat : n + 1 \in Nat /\ 1 + n \in Nat
    /\ \A n, m, k, l \in Nat :
          n < m /\ m <= k => n + 1 <= m /\ n + 1 \in 0..(k + l)
  OBVIOUS

\* What an appended message changes.
LEMMA AppendFacts ==
    ASSUME NEW q \in Seq(Messages), NEW m \in Messages
    PROVE  /\ Append(q, m) \in Seq(Messages) /\ Len(Append(q, m)) = Len(q) + 1
           /\ Append(q, m)[Len(q) + 1] = m /\ Append(q, m) # <<>>
           /\ \A i \in 1..Len(q) : Append(q, m)[i] = q[i]
           /\ Len(q) \in Nat
  OBVIOUS

\* What a received message leaves.
LEMMA TailFacts ==
    ASSUME NEW q \in Seq(Messages), q # <<>>
    PROVE  /\ Tail(q) \in Seq(Messages) /\ Len(Tail(q)) = Len(q) - 1
           /\ Len(q) \in Nat /\ Len(q) >= 1
           /\ Head(q) = q[1] /\ Head(q) \in Messages
           /\ \A i \in 1..Len(Tail(q)) : Tail(q)[i] = q[i + 1]
  OBVIOUS

\* A message is its kind and its number.
LEMMA MessageFacts ==
    /\ \A kind \in Kinds, n \in 0..(MaxInputs + MaxCalls) : Message(kind, n) \in Messages
    /\ \A kind, n : Message(kind, n).kind = kind /\ Message(kind, n).n = n
  BY DEF Message, Messages

\* After the launch message come the inputs.
LEMMA SaidInput ==
    ASSUME inputs \in Nat, NEW k \in Nat, k >= 1, k <= inputs
    PROVE  Said(k + 1) = Message("input", k)
<1>1. k + 1 # 1 /\ k + 1 <= 1 + inputs /\ (k + 1) - 1 = k
  OBVIOUS
<1> QED
  BY <1>1 DEF Said

\* Everything but the phase stays.
SameHost ==
    /\ host'.alive = host.alive /\ host'.stopped = host.stopped /\ host'.sent = host.sent
    /\ host'.killing = host.killing /\ host'.released = host.released
    /\ host'.calls = host.calls /\ host'.requested = host.requested
    /\ host'.requests = host.requests /\ host'.channel = host.channel

\* What a move of the host changes of its record.
LEMMA HostToFacts ==
    ASSUME Types, NEW pc \in HostPcs, HostTo(pc)
    PROVE  host' \in HostRecords /\ host'.pc = pc /\ SameHost
  BY DEF Types, HostRecords, HostTo, SameHost

\* What a move of the guardian changes of its record.
LEMMA GuardianToFacts ==
    ASSUME Types, NEW pc \in GuardianPcs, GuardianTo(pc)
    PROVE  /\ guardian' \in GuardianRecords /\ guardian'.pc = pc
           /\ guardian'.armed = guardian.armed /\ guardian'.reduced = guardian.reduced
           /\ guardian'.n = guardian.n /\ guardian'.transferred = guardian.transferred
           /\ guardian'.request = guardian.request
  BY Zenon DEF Types, GuardianRecords, GuardianTo

\* What a move of the init changes of its record.
LEMMA InitToFacts ==
    ASSUME Types, NEW pc \in InitPcs, InitTo(pc)
    PROVE  /\ init' \in InitRecords /\ init'.pc = pc
           /\ init'.armed = init.armed /\ init'.reduced = init.reduced
           /\ init'.n = init.n /\ init'.count = init.count /\ init'.captured = init.captured
  BY Zenon DEF Types, InitRecords, InitTo

\* The fields have their types.
LEMMA Fields ==
    ASSUME LInv
    PROVE  /\ inputs \in Nat /\ inputs <= MaxInputs /\ MaxInputs \in Nat /\ MaxCalls \in Nat
           /\ host.sent \in Nat /\ host.calls \in Nat /\ host.requests \in Nat
           /\ host.channel \in Nat
           /\ guardian.n \in Nat /\ guardian.request \in Nat
           /\ init.n \in Nat /\ init.count \in Nat
  BY IsolationAssumption DEF LInv, Types, HostRecords, GuardianRecords, InitRecords

\* The queues are sequences of messages.
LEMMA Queues ==
    ASSUME LInv
    PROVE  /\ down \in Seq(Messages) /\ up \in Seq(Messages)
           /\ inner \in Seq(Messages) /\ outer \in Seq(Messages)
           /\ Len(down) \in Nat /\ Len(up) \in Nat /\ Len(inner) \in Nat /\ Len(outer) \in Nat
  BY DEF LInv, Types

\* The parts of the invariant.
LEMMA Parts ==
    ASSUME LInv
    PROVE  Types /\ HostCounts /\ GuardianCounts /\ InitCounts
           /\ DownSound /\ InnerSound /\ Stages /\ UpSound /\ Closing
  BY DEF LInv
-----------------------------------------------------------------------------
(* Steps of the host.                                                      *)

\* A step that changes only where the host is and what it has tried.
HostTurn ==
    /\ HostOnly
    /\ host' \in HostRecords
    /\ UNCHANGED <<host.sent, host.requests, host.channel>>
    /\ host.requested => host'.requested
    /\ host'.calls \in host.calls..MaxCalls
    /\ host'.pc = "idle" => host.pc = "idle"
    /\ host'.pc = "descriptor" => host.pc = "descriptor"
    /\ host'.pc = "inputs" => host.pc = "inputs"
    /\ host'.pc \in Starting \cup Leased =>
          host.pc \in Starting \cup Leased \/ (host.pc = "inputs" /\ host.sent = inputs)
    /\ host.pc \in Leased => host'.pc \in Leased
    /\ guardian.pc = "none" => host'.pc \in {"idle", "failed"}
    /\ host'.pc \in {"closeTarget", "closeInit", "closed"} => ~GuardianAlive
    /\ host'.pc \in {"closeInit", "closed"} => target = "dead"
    /\ host'.pc = "closed" => ~InitAlive

\* A step of the host alone, which sends and receives nothing.
LEMMA HostTurnKeeps ==
    ASSUME LInv, HostTurn
    PROVE  LInv'
<1>1. UNCHANGED <<inputs, guardian, init, target, ready, down, up, inner, outer>>
  BY DEF HostTurn, HostOnly
<1>2. Types'
  BY <1>1, Zenon DEF LInv, Types, HostTurn
<1>3. HostCounts'
  BY <1>1, Parts, Fields DEF HostCounts, HostTurn
<1>4. GuardianCounts' /\ InitCounts'
  BY <1>1, Parts, Zenon DEF GuardianCounts, InitCounts, HostTurn
<1>9. DownSound'
  <2>1. Heard' = Heard /\ GuardianAlive' = GuardianAlive /\ \A i : Said(i)' = Said(i)
    BY <1>1, Zenon DEF Heard, Asked, GuardianAlive, Said
  <2>2. host.pc = "inputs" => host.requests = 0
    BY Parts, Fields DEF HostCounts, Leased
  <2>3. Len(down) \in Nat /\ host.requests \in Nat /\ host'.requests = host.requests
        /\ host'.sent = host.sent
    BY Queues, Fields DEF HostTurn
  <2>4. host'.pc = "inputs" /\ GuardianAlive' => Len(down)' + Heard' = 1 + host'.sent
    BY <1>1, <2>1, <2>3, Parts DEF DownSound, HostTurn
  <2>5. host'.pc \in Starting \cup Leased /\ GuardianAlive' =>
           Len(down)' + Heard' = 1 + inputs' + host'.requests
    <3>1. CASE host.pc \in Starting \cup Leased
      BY <1>1, <2>1, <2>3, <3>1, Parts DEF DownSound
    <3>2. CASE host.pc = "inputs" /\ host.sent = inputs
      BY <1>1, <2>1, <2>2, <2>3, <3>2, Parts, Fields DEF DownSound
    <3> QED
      BY <3>1, <3>2 DEF HostTurn
  <2>6. host'.pc \in {"idle", "descriptor"} /\ GuardianAlive' => Len(down)' + Heard' = 0
    BY <1>1, <2>1, Parts DEF DownSound, HostTurn
  <2>7. GuardianAlive' => /\ Len(down)' + Heard' <= 1 + inputs' + host'.requests
                          /\ \A i \in 1..Len(down') : down'[i] = Said(Heard + i)'
    BY <1>1, <2>1, <2>3, Parts, Zenon DEF DownSound
  <2>8. guardian'.pc = "none" => down' = <<>>
    BY <1>1, Parts DEF DownSound
  <2> QED
    BY <2>4, <2>5, <2>6, <2>7, <2>8, Zenon DEF DownSound
<1>5. InnerSound'
  BY <1>1, Zenon DEF LInv, InnerSound, Told, Taken
<1>6. Stages'
  BY <1>1, Parts DEF Stages, HostTurn
<1>7. UpSound'
  BY <1>1, Parts DEF UpSound, HostTurn
<1>8. Closing'
  BY <1>1, Zenon DEF HostTurn, Closing, GuardianAlive, InitAlive
<1> QED
  BY <1>2, <1>3, <1>4, <1>5, <1>6, <1>7, <1>8, <1>9, Zenon DEF LInv

\* The phases between which the host can go without sending anything.
Follows(from, to) ==
    /\ to \notin {"idle", "descriptor", "inputs"} /\ from \notin {"idle", "failed"}
    /\ to \in Starting \cup Leased => from \in Starting \cup Leased
    /\ from \in Leased => to \in Leased

\* A step to a phase in which nothing is known to have ended.
LEMMA PlainTurn ==
    ASSUME LInv, NEW to \in HostPcs \ {"closeTarget", "closeInit", "closed"},
           Follows(host.pc, to), HostOnly,
           host' \in HostRecords, host'.pc = to,
           UNCHANGED <<host.sent, host.requests, host.channel>>,
           host.requested => host'.requested,
           host'.calls \in host.calls..MaxCalls
    PROVE  LInv'
<1>1. guardian.pc # "none"
  BY Parts DEF Stages, Follows
<1> QED
  BY <1>1, HostTurnKeeps DEF HostTurn, Follows

\* The same, where only the phase changes.
LEMMA PlainTo ==
    ASSUME LInv, NEW to \in HostPcs \ {"closeTarget", "closeInit", "closed"},
           Follows(host.pc, to), HostOnly, HostTo(to)
    PROVE  LInv'
<1>1. host' \in HostRecords /\ host'.pc = to /\ SameHost
  BY Parts, HostToFacts
<1>2. host.calls \in host.calls..MaxCalls
  BY Parts, Fields DEF HostCounts
<1> QED
  BY <1>1, <1>2, PlainTurn DEF SameHost

\* A launch that failed gives its permit back.
LEMMA ReleaseKeeps ==
    ASSUME LInv, host.pc \in {"idle", "aborted"}, Release("failed"), HostOnly
    PROVE  LInv'
<1>1. /\ host' \in HostRecords /\ host'.pc = "failed" /\ host'.sent = host.sent
      /\ host'.requests = host.requests /\ host'.channel = host.channel
      /\ host'.requested = host.requested /\ host'.calls = host.calls
  BY Parts, Zenon DEF Release, Types, HostRecords, HostPcs, Failing
<1>2. host'.calls \in host.calls..MaxCalls
  BY <1>1, Parts, Fields DEF HostCounts
<1> QED
  BY <1>1, <1>2, HostTurnKeeps DEF HostTurn, Starting, Leased

\* Nothing but a flag.
LEMMA StopKeeps ==
    ASSUME LInv, Stop \/ HostDies
    PROVE  LInv'
<1>1. /\ host' \in HostRecords /\ host'.pc = host.pc /\ host'.sent = host.sent
      /\ host'.requests = host.requests /\ host'.channel = host.channel
      /\ host'.requested = host.requested /\ host'.calls = host.calls
      /\ HostOnly
  BY Parts, Zenon DEF Stop, HostDies, Types, HostRecords
<1>2. host'.calls \in host.calls..MaxCalls
  BY <1>1, Parts, Fields DEF HostCounts
<1> QED
  BY <1>1, <1>2, Parts, HostTurnKeeps DEF HostTurn, Stages, Closing

\* The guardian is killed and awaited.
LEMMA TerminateKeeps ==
    ASSUME LInv, NEW from \in {"abort", "close"},
           NEW reaping \in HostPcs, NEW blocking \in HostPcs, NEW reaped \in HostPcs,
           Follows(from, reaping), Follows(from, blocking), Follows(from, reaped),
           {reaping, blocking} \cap {"closeTarget", "closeInit", "closed"} = {},
           reaped \notin {"closeInit", "closed"},
           Terminate(from, reaping, blocking, reaped)
    PROVE  LInv'
<1>1. host.pc = from /\ HostOnly
  BY DEF Terminate
<1>2. CASE ~GuardianAlive /\ HostTo(reaped)
  <2>1. host' \in HostRecords /\ host'.pc = reaped /\ SameHost
    BY <1>2, Parts, HostToFacts
  <2>2. host'.calls \in host.calls..MaxCalls
    BY <2>1, Parts, Fields DEF HostCounts, SameHost
  <2>3. guardian.pc # "none"
    BY <1>1, Parts DEF Stages
  <2> QED
    BY <1>1, <1>2, <2>1, <2>2, <2>3, HostTurnKeeps DEF HostTurn, SameHost, Follows
<1>3. ASSUME NEW pc \in {reaping, blocking}, host' = [host EXCEPT !.pc = pc, !.killing = TRUE]
      PROVE  LInv'
  <2>1. /\ host' \in HostRecords /\ host'.pc = pc /\ host'.sent = host.sent
        /\ host'.requests = host.requests /\ host'.channel = host.channel
        /\ host'.requested = host.requested /\ host'.calls = host.calls
    BY <1>3, Parts, Zenon DEF Types, HostRecords
  <2>2. host'.calls \in host.calls..MaxCalls
    BY <2>1, Parts, Fields DEF HostCounts
  <2>3. pc \in HostPcs \ {"closeTarget", "closeInit", "closed"} /\ Follows(host.pc, pc)
    BY <1>1, Zenon
  <2> QED
    BY <1>1, <2>1, <2>2, <2>3, PlainTurn
<1> QED
  BY <1>2, <1>3 DEF Terminate

\* A launch that fails terminates the guardian, reaps it and gives up.
LEMMA AbortKeeps ==
    ASSUME LInv, Abort
    PROVE  LInv'
<1>1. CASE Terminate("abort", "abortReap", "abortWait", "aborted")
  <2>1. /\ Follows("abort", "abortReap") /\ Follows("abort", "abortWait")
        /\ Follows("abort", "aborted")
        /\ {"abortReap", "abortWait", "aborted"} \subseteq HostPcs
    BY DEF Follows, Starting, Leased, HostPcs, Failing
  <2> QED
    BY <1>1, <2>1, TerminateKeeps
<1>2. CASE host.pc \in {"abortReap", "abortWait"} /\ HostTo("aborted") /\ HostOnly
  BY <1>2, PlainTo DEF Follows, Starting, Leased, HostPcs, Failing
<1>3. CASE host.pc = "aborted" /\ Release("failed") /\ HostOnly
  BY <1>3, ReleaseKeeps
<1> QED
  BY <1>1, <1>2, <1>3 DEF Abort

\* READY, then the verification of the running processes, make the lease.
LEMMA ReadyKeeps ==
    ASSUME LInv, ReceiveReady \/ VerifyLaunch
    PROVE  LInv'
<1>1. PICK to \in {"verify", "leased", "abort"} : host.pc \in Starting /\ HostTo(to) /\ HostOnly
  BY DEF ReceiveReady, VerifyLaunch, Starting
<1>2. to \in HostPcs \ {"closeTarget", "closeInit", "closed"} /\ Follows(host.pc, to)
  BY <1>1 DEF Follows, Starting, Leased, HostPcs, Failing
<1> QED
  BY <1>1, <1>2, PlainTo

\* The record of a call that begins.
LEMMA BeginFacts ==
    ASSUME LInv, Called, NEW to \in HostPcs
    PROVE  LET h == BeginCall(to)
           IN  /\ h \in HostRecords /\ h.pc = to /\ h.sent = host.sent
               /\ h.requests = host.requests /\ h.channel = host.channel
               /\ h.requested = host.requested /\ h.calls = host.calls + 1
               /\ host.calls + 1 \in host.calls..MaxCalls
<1>1. host \in HostRecords /\ host.calls \in Nat /\ host.calls < MaxCalls /\ MaxCalls \in Nat
  BY Parts, Fields DEF Types, Called
<1>2. host.calls + 1 \in Nat /\ host.calls + 1 \in host.calls..MaxCalls
  BY <1>1
<1> QED
  BY <1>1, <1>2, Zenon DEF BeginCall, HostRecords

\* Close waits for guardian, target and init in turn, or leaves the lease as it is.
LEMMA CloseKeeps ==
    ASSUME LInv, Close
    PROVE  LInv'
<1>1. CASE Called /\ host' = BeginCall("close") /\ HostOnly
  <2>1. /\ "close" \in HostPcs \ {"closeTarget", "closeInit", "closed"}
        /\ Follows(host.pc, "close")
    BY <1>1 DEF Called, Follows, Starting, Leased, HostPcs
  <2> QED
    BY <1>1, <2>1, BeginFacts, PlainTurn
<1>2. CASE Terminate("close", "closeReap", "closeWait", "closeTarget")
  <2>1. /\ Follows("close", "closeReap") /\ Follows("close", "closeWait")
        /\ Follows("close", "closeTarget")
        /\ {"closeReap", "closeWait", "closeTarget"} \subseteq HostPcs
    BY DEF Follows, Starting, Leased, HostPcs
  <2> QED
    BY <1>2, <2>1, TerminateKeeps
<1>3. ASSUME NEW to \in {"closeTarget", "closeInit", "closed"}, HostOnly, HostTo(to),
             host.pc \in {"closeReap", "closeWait", "closeTarget", "closeInit"},
             ~GuardianAlive, to # "closeTarget" => target = "dead",
             to = "closed" => ~InitAlive
      PROVE  LInv'
  <2>1. to \in HostPcs /\ to \in Leased /\ host.pc \in Leased
    BY <1>3 DEF HostPcs, Leased
  <2>2. host' \in HostRecords /\ host'.pc = to /\ SameHost
    BY <1>3, <2>1, Parts, HostToFacts
  <2>3. host'.calls \in host.calls..MaxCalls
    BY <2>2, Parts, Fields DEF HostCounts, SameHost
  <2>4. guardian.pc # "none"
    BY <1>3, Parts DEF Stages
  <2> QED
    BY <1>3, <2>1, <2>2, <2>3, <2>4, HostTurnKeeps DEF HostTurn, SameHost
<1>4. CASE host.pc \in {"closeReap", "closeTarget", "closeInit"} /\ HostTo("leased") /\ HostOnly
  BY <1>4, PlainTo DEF Follows, Starting, Leased, HostPcs
<1>5. /\ host.pc \in {"closeTarget", "closeInit"} => ~GuardianAlive
      /\ host.pc = "closeInit" => target = "dead"
  BY Parts DEF Closing
<1> QED
  BY <1>1, <1>2, <1>3, <1>4, <1>5 DEF Close

\* A dropped lease asks for the death of the guardian.
LEMMA DropKeeps ==
    ASSUME LInv, DropLease
    PROVE  LInv'
<1>1. /\ host' \in HostRecords /\ host'.pc = "dropped" /\ host'.sent = host.sent
      /\ host'.requests = host.requests /\ host'.channel = host.channel
      /\ host'.requested = host.requested /\ host'.calls = host.calls
  BY Parts, Zenon DEF DropLease, Types, HostRecords, HostPcs, Leased
<1>2. host'.calls \in host.calls..MaxCalls
  BY <1>1, Parts, Fields DEF HostCounts
<1>3. /\ "dropped" \in HostPcs \ {"closeTarget", "closeInit", "closed"}
      /\ Follows(host.pc, "dropped") /\ HostOnly
  BY DEF DropLease, Follows, Starting, Leased, HostPcs
<1> QED
  BY <1>1, <1>2, <1>3, PlainTurn

\* The number of messages the guardian has heard is a number.
LEMMA HeardType ==
    ASSUME LInv
    PROVE  Heard \in Nat
<1>1. inputs \in Nat /\ guardian.n \in Nat
  BY Fields
<1>2. 1 + guardian.n \in Nat /\ 1 + inputs \in Nat /\ 2 + inputs \in Nat /\ 0 \in Nat
  BY <1>1
<1> QED
  BY <1>2, Zenon DEF Heard

\* The host says the next message of its conversation.
LEMMA SayKeeps ==
    ASSUME LInv, NEW m \in Messages, down' = Append(down, m),
           UNCHANGED <<inputs, guardian, init, target, ready, up, inner, outer>>,
           host' \in HostRecords, guardian.pc # "none", HostCounts', UpSound',
           host'.pc \notin {"idle", "descriptor", "closeTarget", "closeInit", "closed"},
           guardian.pc \in {"connect", "captured"} => host'.requests = host.requests,
           GuardianAlive =>
              /\ m = Said(Heard + Len(down) + 1)
              /\ Len(down) + 1 + Heard <= 1 + inputs + host'.requests
              /\ host'.pc = "inputs" => Len(down) + 1 + Heard = 1 + host'.sent
              /\ host'.pc \in Starting \cup Leased =>
                    Len(down) + 1 + Heard = 1 + inputs + host'.requests
    PROVE  LInv'
<1>1. /\ down' \in Seq(Messages) /\ Len(down') = Len(down) + 1
      /\ down'[Len(down) + 1] = m /\ Len(down) \in Nat
      /\ \A i \in 1..Len(down) : down'[i] = down[i]
  BY Queues, AppendFacts
<1>2. Types'
  BY <1>1, Parts, Zenon DEF Types
<1>3. GuardianCounts'
  BY Parts DEF GuardianCounts
<1>4. InitCounts'
  BY Parts, Zenon DEF InitCounts
<1>5. DownSound'
  <2>1. Heard' = Heard /\ GuardianAlive' = GuardianAlive /\ \A i : Said(i)' = Said(i)
    BY Zenon DEF Heard, Asked, GuardianAlive, Said
  <2>2. Heard \in Nat
    BY HeardType
  <2>3. ASSUME GuardianAlive, NEW i \in 1..Len(down')
        PROVE  down'[i] = Said(Heard + i)
    <3>1. CASE i = Len(down) + 1
      BY <1>1, <2>2, <2>3, <3>1
    <3>2. CASE i \in 1..Len(down)
      BY <1>1, <2>3, <3>2, Parts DEF DownSound
    <3> QED
      BY <1>1, <2>3, <3>1, <3>2
  <2> QED
    BY <1>1, <2>1, <2>2, <2>3 DEF DownSound
<1>6. InnerSound'
  BY Parts, Zenon DEF InnerSound, Told, Taken
<1>7. Stages'
  BY Parts DEF Stages
<1>8. Closing'
  BY DEF Closing
<1> QED
  BY <1>2, <1>3, <1>4, <1>5, <1>6, <1>7, <1>8, Zenon DEF LInv

\* The host spawns the guardian: both sockets are empty.
LEMMA LaunchKeeps ==
    ASSUME LInv, Launch
    PROVE  LInv'
<1>1. CASE Release("failed") /\ HostOnly
  BY <1>1, ReleaseKeeps DEF Launch
<1>2. CASE /\ HostTo("descriptor")
           /\ guardian' = [guardian EXCEPT !.pc = "arm"]
           /\ UNCHANGED <<inputs, init, target, ready, down, up, inner, outer>>
  <2>1. host.pc = "idle"
    BY DEF Launch
  <2>2. host' \in HostRecords /\ host'.pc = "descriptor" /\ SameHost
    BY <1>2, Parts, HostToFacts DEF HostPcs
  <2>3. /\ guardian' \in GuardianRecords /\ guardian'.pc = "arm"
        /\ guardian'.reduced = guardian.reduced
        /\ guardian'.n = guardian.n /\ guardian'.transferred = guardian.transferred
        /\ guardian'.request = guardian.request
    BY <1>2, Parts, GuardianToFacts DEF GuardianTo, GuardianPcs, Learning
  <2>4. /\ guardian.pc = "none" /\ init.pc = "none" /\ inner = <<>> /\ outer = <<>>
        /\ ~guardian.transferred
    BY <2>1, Parts DEF Stages
  <2>5. down = <<>> /\ up = <<>> /\ host.channel = 0 /\ host.requests = 0
    BY <2>1, <2>4, Parts, Fields DEF DownSound, UpSound, HostCounts, Leased
  <2>6. Types'
    BY <1>2, <2>2, <2>3, Parts, Zenon DEF Types
  <2>7. HostCounts'
    BY <1>2, <2>1, <2>2, <2>5, Parts, Fields DEF HostCounts, SameHost
  <2>8. GuardianCounts'
    BY <1>2, <2>3, <2>4, Parts DEF GuardianCounts, Reduced, Serving
  <2>9. InitCounts'
    BY <1>2, Parts, Zenon DEF InitCounts
  <2>10. DownSound'
    <3>1. Heard' = 0 /\ Len(down') = 0
      BY <1>2, <2>3, <2>5 DEF Heard
    <3>2. inputs \in Nat /\ host'.requests = 0
      BY <2>2, <2>5, Fields DEF SameHost
    <3> QED
      BY <1>2, <2>2, <2>3, <2>5, <3>1, <3>2 DEF DownSound, Starting, Leased
  <2>11. InnerSound'
    <3>1. Len(inner') = 0 /\ Taken' = 0
      BY <1>2, <2>4 DEF Taken
    <3> QED
      BY <1>2, <2>3, <2>4, <3>1 DEF InnerSound, Serving
  <2>12. Stages'
    BY <1>2, <2>1, <2>2, <2>3, <2>4, Parts
       DEF Stages, Learning, Reduced, Serving, Prepared
  <2>13. UpSound'
    BY <1>2, <2>2, <2>3, <2>5, Parts DEF UpSound, SameHost
  <2>14. Closing'
    BY <2>2 DEF Closing
  <2> QED
    BY <2>6, <2>7, <2>8, <2>9, <2>10, <2>11, <2>12, <2>13, <2>14, Zenon DEF LInv
<1> QED
  BY <1>1, <1>2 DEF Launch

\* The descriptor is the first message to the guardian.
LEMMA DescriptorKeeps ==
    ASSUME LInv, SendDescriptor
    PROVE  LInv'
<1>1. host.pc = "descriptor"
  BY DEF SendDescriptor
<1>2. CASE HostTo("abort") /\ HostOnly
  BY <1>1, <1>2, PlainTo DEF Follows, Starting, Leased, HostPcs, Failing
<1>3. CASE /\ HostTo("inputs")
           /\ down' = Append(down, Message("launch", inputs))
           /\ UNCHANGED <<inputs, guardian, init, target, ready, up, inner, outer>>
  <2>1. host' \in HostRecords /\ host'.pc = "inputs" /\ SameHost
    BY <1>3, Parts, HostToFacts DEF HostPcs
  <2>2. host.requests = 0 /\ guardian.pc # "none" /\ host.requests \in Nat
    BY <1>1, Parts, Fields DEF HostCounts, Leased, Stages
  <2>3. HostCounts'
    BY <1>3, <2>1, <2>2, Parts, Fields DEF HostCounts, SameHost
  <2>4. UpSound'
    BY <1>3, <2>1, Parts DEF UpSound, SameHost
  <2>5. Message("launch", inputs) \in Messages
    BY MessageFacts, Fields DEF Kinds
  <2>6. GuardianAlive => Len(down) = 0 /\ Heard = 0
    <3>1. GuardianAlive => Len(down) + Heard = 0
      BY <1>1, Parts DEF DownSound
    <3> QED
      BY <3>1, Queues, HeardType
  <2>7. host'.sent = 0 /\ host'.requests = 0 /\ inputs \in Nat
    BY <1>1, <2>1, <2>2, Parts, Fields DEF HostCounts, SameHost
  <2>8. Said(1) = Message("launch", inputs)
    BY DEF Said
  <2>9. GuardianAlive =>
              /\ Message("launch", inputs) = Said(Heard + Len(down) + 1)
              /\ Len(down) + 1 + Heard <= 1 + inputs + host'.requests
              /\ Len(down) + 1 + Heard = 1 + host'.sent
    BY <2>6, <2>7, <2>8
  <2> QED
    BY <1>3, <2>1, <2>2, <2>3, <2>4, <2>5, <2>7, <2>9, SayKeeps DEF Starting, Leased
<1> QED
  BY <1>2, <1>3 DEF SendDescriptor

\* The next input is the next message to the guardian.
LEMMA SendInputKeeps ==
    ASSUME LInv, SendInput
    PROVE  LInv'
<1>1. host.pc = "inputs"
  BY DEF SendInput
<1>2. CASE HostTo("abort") /\ HostOnly
  BY <1>1, <1>2, PlainTo DEF Follows, Starting, Leased, HostPcs, Failing
<1>3. CASE host.sent = inputs /\ HostTo("ready") /\ HostOnly
  <2>1. host' \in HostRecords /\ host'.pc = "ready" /\ SameHost
    BY <1>3, Parts, HostToFacts DEF HostPcs, Starting
  <2>2. host'.calls \in host.calls..MaxCalls
    BY <2>1, Parts, Fields DEF HostCounts, SameHost
  <2>3. guardian.pc # "none"
    BY <1>1, Parts DEF Stages
  <2> QED
    BY <1>1, <1>3, <2>1, <2>2, <2>3, HostTurnKeeps DEF HostTurn, SameHost, Leased
<1>4. CASE /\ host.sent < inputs
           /\ host' = [host EXCEPT !.sent = @ + 1]
           /\ down' = Append(down, Message("input", host.sent + 1))
           /\ UNCHANGED <<inputs, guardian, init, target, ready, up, inner, outer>>
  <2>1. host.sent + 1 \in Nat /\ host.sent \in Nat /\ inputs \in Nat /\ host.sent + 1 <= inputs
        /\ host.sent + 1 \in 0..(MaxInputs + MaxCalls)
    <3>1. host.sent < inputs
      BY <1>4, Zenon
    <3> QED
      BY <3>1, Fields, NextNumber, Zenon
  <2>2. /\ host' \in HostRecords /\ host'.pc = "inputs" /\ host'.sent = host.sent + 1
        /\ host'.requests = host.requests /\ host'.channel = host.channel
        /\ host'.requested = host.requested /\ host'.calls = host.calls
    BY <1>1, <1>4, <2>1, Parts, Zenon DEF Types, HostRecords
  <2>3. host.requests = 0 /\ guardian.pc # "none"
    BY <1>1, Parts, Fields DEF HostCounts, Leased, Stages
  <2>4. HostCounts'
    <3>1. inputs' = inputs /\ host.calls <= MaxCalls /\ host.requests <= host.calls
      BY <1>4, Parts, Zenon DEF HostCounts
    <3> QED
      BY <2>1, <2>2, <2>3, <3>1 DEF HostCounts
  <2>5. UpSound'
    BY <1>4, <2>2, Parts DEF UpSound
  <2>6. Message("input", host.sent + 1) \in Messages
    BY <2>1, MessageFacts DEF Kinds
  <2>7. GuardianAlive => Len(down) + Heard = 1 + host.sent
    BY <1>1, Parts DEF DownSound
  <2>8. Len(down) \in Nat /\ Heard \in Nat
    BY Queues, HeardType
  <2>9. Said(host.sent + 2) = Message("input", host.sent + 1)
    <3>1. host.sent + 2 # 1 /\ host.sent + 2 <= 1 + inputs /\ host.sent + 2 - 1 = host.sent + 1
      BY <2>1
    <3> QED
      BY <2>1, <3>1 DEF Said
  <2>10. GuardianAlive =>
              /\ Heard + Len(down) + 1 = host.sent + 2
              /\ Len(down) + 1 + Heard <= 1 + inputs + host'.requests
              /\ Len(down) + 1 + Heard = 1 + host'.sent
    BY <2>1, <2>2, <2>3, <2>7, <2>8
  <2> QED
    BY <1>4, <2>2, <2>3, <2>4, <2>5, <2>6, <2>9, <2>10, SayKeeps DEF Starting, Leased
<1> QED
  BY <1>2, <1>3, <1>4 DEF SendInput

\* connect_loopback asks once.
LEMMA RequestKeeps ==
    ASSUME LInv, RequestChannel
    PROVE  LInv'
<1>1. Called /\ host.pc = "leased"
      /\ UNCHANGED <<inputs, guardian, init, target, ready, up, inner, outer>>
  BY DEF RequestChannel, Called
<1>2. CASE host' = [BeginCall("leased") EXCEPT !.requested = TRUE] /\ UNCHANGED down
  <2> DEFINE h == BeginCall("leased")
  <2>1. /\ h \in HostRecords /\ h.pc = "leased" /\ h.sent = host.sent
        /\ h.requests = host.requests /\ h.channel = host.channel
        /\ h.calls = host.calls + 1 /\ host.calls + 1 \in host.calls..MaxCalls
    BY <1>1, BeginFacts DEF HostPcs, Leased
  <2> HIDE DEF h
  <2>2. host' = [h EXCEPT !.requested = TRUE]
    BY <1>2 DEF h
  <2>3. /\ host' \in HostRecords /\ host'.pc = "leased" /\ host'.sent = host.sent
        /\ host'.requests = host.requests /\ host'.channel = host.channel
        /\ host'.calls = host.calls + 1 /\ host'.requested
    BY <2>1, <2>2, Zenon DEF HostRecords
  <2>4. Follows(host.pc, "leased") /\ HostOnly
        /\ "leased" \in HostPcs \ {"closeTarget", "closeInit", "closed"}
    BY <1>1, <1>2 DEF Follows, HostOnly, HostPcs, Leased
  <2> QED
    BY <2>1, <2>3, <2>4, PlainTurn
<1>3. CASE /\ ~host.requested /\ GuardianAlive
           /\ host' = [BeginCall("await") EXCEPT !.requested = TRUE, !.requests = @ + 1]
           /\ down' = Append(down, Message("connect", host.requests + 1))
  <2> DEFINE h == BeginCall("await")
  <2>1. /\ h \in HostRecords /\ h.pc = "await" /\ h.sent = host.sent
        /\ h.requests = host.requests /\ h.channel = host.channel
        /\ h.calls = host.calls + 1 /\ host.calls + 1 \in host.calls..MaxCalls
    BY <1>1, BeginFacts DEF HostPcs, Leased
  <2>2. host' = [h EXCEPT !.requested = TRUE, !.requests = h.requests + 1]
    BY <1>3
  <2> HIDE DEF h
  <2>3. host.requests = 0 /\ guardian.pc # "none"
    BY <1>1, <1>3, Parts, Fields, SMTT(30) DEF HostCounts, Stages
  <2>4. /\ host' \in HostRecords /\ host'.pc = "await" /\ host'.sent = host.sent
        /\ host'.requests = 1 /\ host'.channel = host.channel
        /\ host'.calls = host.calls + 1 /\ host'.requested
    <3>1. h.requests + 1 = 1 /\ 1 \in Nat
      BY <2>1, <2>3
    <3> QED
      BY <2>1, <2>2, <3>1, Zenon DEF HostRecords
  <2>5. HostCounts'
    BY <1>1, <2>1, <2>4, Parts, Fields DEF HostCounts, Leased
  <2>6. Len(down) + Heard = 1 + inputs /\ Len(down) \in Nat /\ Heard \in Nat /\ inputs \in Nat
    BY <1>1, <1>3, <2>3, Parts, Queues, HeardType, Fields DEF DownSound, Leased
  <2>7. ~Asked
    <3>1. Asked => Heard = 2 + inputs
      BY Parts DEF Heard, Asked, Stages
    <3> QED
      BY <2>6, <3>1
  <2>8. up = <<>> /\ host.channel = 0 /\ guardian.pc \notin {"connect", "captured"}
    BY <1>3, <2>7, Parts DEF UpSound, Asked, GuardianAlive
  <2>9. UpSound'
    BY <1>1, <1>3, <2>4, <2>8, Parts DEF UpSound
  <2>10. Message("connect", 1) \in Messages
    <3>1. 1 \in 0..(MaxInputs + MaxCalls)
      BY <2>1, Fields
    <3> QED
      BY <3>1, MessageFacts DEF Kinds
  <2>11. down' = Append(down, Message("connect", 1))
    BY <1>3, <2>3
  <2>12. /\ Said(2 + inputs) = Message("connect", 1)
         /\ Heard + Len(down) + 1 = 2 + inputs
         /\ Len(down) + 1 + Heard = 1 + inputs + host'.requests
    BY <2>4, <2>6 DEF Said
  <2>13. Len(down) + 1 + Heard <= 1 + inputs + host'.requests
    BY <2>4, <2>6
  <2> QED
    BY <1>1, <2>3, <2>4, <2>5, <2>8, <2>9, <2>10, <2>11, <2>12, <2>13, SayKeeps
<1> QED
  BY <1>2, <1>3 DEF RequestChannel

\* The host takes the one answer to its one request.
LEMMA ReceiveChannelKeeps ==
    ASSUME LInv, ReceiveChannel
    PROVE  LInv'
<1>1. host.pc = "await"
      /\ UNCHANGED <<inputs, guardian, init, target, ready, down, inner, outer>>
  BY DEF ReceiveChannel
<1>2. CASE HostTo("leased") /\ UNCHANGED up
  BY <1>1, <1>2, PlainTo DEF HostOnly, Follows, Starting, Leased, HostPcs
<1>3. CASE /\ up # <<>> /\ up' = Tail(up)
           /\ \/ /\ Head(up).kind = "connected"
                 /\ host' = [host EXCEPT !.pc = "leased", !.channel = Head(up).n]
              \/ HostTo("leased")
  <2>1. /\ up' \in Seq(Messages) /\ Head(up) = up[1] /\ Head(up) \in Messages
        /\ Len(up') = Len(up) - 1 /\ Len(up) \in Nat
    BY <1>3, Queues, TailFacts
  <2>2. up' = <<>>
    <3>1. Len(up) <= 1 /\ Len(up') \in Nat
      BY <2>1, Parts DEF UpSound
    <3> QED
      BY <2>1, <3>1
  <2>3. /\ host' \in HostRecords /\ host'.pc = "leased" /\ host'.sent = host.sent
        /\ host'.requests = host.requests
        /\ host'.requested = host.requested /\ host'.calls = host.calls
        /\ host'.channel \in {host.channel, host.requests}
    <3>1. CASE HostTo("leased")
      BY <3>1, Parts, HostToFacts DEF SameHost, HostPcs, Leased
    <3>2. CASE /\ Head(up).kind = "connected"
               /\ host' = [host EXCEPT !.pc = "leased", !.channel = Head(up).n]
      <4>1. Head(up).n = host.requests /\ host.requests \in Nat
        BY <1>3, <2>1, <3>2, Parts, Fields DEF UpSound
      <4> QED
        BY <3>2, <4>1, Parts, Zenon DEF Types, HostRecords, HostPcs, Leased
    <3> QED
      BY <1>3, <3>1, <3>2
  <2>4. Types'
    BY <1>1, <2>1, <2>3, Parts, Zenon DEF Types
  <2>5. HostCounts'
    BY <1>1, <2>3, Parts, Fields DEF HostCounts, Leased
  <2>6. GuardianCounts' /\ InitCounts'
    BY <1>1, <2>3, Parts, Zenon DEF GuardianCounts, InitCounts
  <2>7. DownSound'
    <3>1. Heard' = Heard /\ GuardianAlive' = GuardianAlive /\ \A i : Said(i)' = Said(i)
      BY <1>1, Zenon DEF Heard, Asked, GuardianAlive, Said
    <3>2. host.pc \in Starting \cup Leased
      BY <1>1 DEF Leased
    <3> QED
      BY <1>1, <2>3, <3>1, <3>2, Parts DEF DownSound
  <2>8. InnerSound'
    BY <1>1, Parts, Zenon DEF InnerSound, Told, Taken
  <2>9. Stages'
    BY <1>1, <2>3, Parts DEF Stages
  <2>10. UpSound'
    <3>1. guardian.pc = "dead" \/ guardian.transferred
      BY <1>3, Parts DEF UpSound
    <3> QED
      BY <1>1, <2>2, <2>3, <3>1, Parts DEF UpSound
  <2>11. Closing'
    BY <2>3 DEF Closing
  <2> QED
    BY <2>4, <2>5, <2>6, <2>7, <2>8, <2>9, <2>10, <2>11, Zenon DEF LInv
<1> QED
  BY <1>2, <1>3 DEF ReceiveChannel

-----------------------------------------------------------------------------
(* Steps of the guardian.                                                  *)

\* A live guardian: the host is not past awaiting its end.
LEMMA AliveGuardian ==
    ASSUME LInv, GuardianAlive, UNCHANGED <<host, init, target>>
    PROVE  Closing'
  BY Parts, Zenon DEF Closing, GuardianAlive, InitAlive

\* The guardian ends: an answer it sends before is the only one.
LEMMA GuardianEnds ==
    ASSUME LInv, GuardianAlive, GuardianTo("dead"),
           UNCHANGED <<inputs, host, init, target, down, inner, outer>>,
           ready' = ready \/ (ready = "open" /\ ready' = "error"),
           up' = up \/ (~guardian.transferred /\ up' = Append(up, Message("error", 0)))
    PROVE  LInv'
<1>1. /\ guardian' \in GuardianRecords /\ guardian'.pc = "dead"
      /\ guardian'.reduced = guardian.reduced /\ guardian'.n = guardian.n
      /\ guardian'.transferred = guardian.transferred /\ guardian'.request = guardian.request
  BY Parts, GuardianToFacts DEF GuardianPcs
<1>2. Message("error", 0) \in Messages /\ Message("error", 0).kind = "error"
  BY MessageFacts, Fields DEF Kinds
<1>3. up' \in Seq(Messages) /\ (up' = up \/ (up = <<>> /\ Len(up') = 1 /\ up'[1].kind = "error"
                                             /\ host.channel = 0))
  <2>1. CASE up' = up
    BY <2>1, Queues
  <2>2. CASE ~guardian.transferred /\ up' = Append(up, Message("error", 0))
    <3>1. up = <<>> /\ host.channel = 0
      BY <2>2, Parts DEF UpSound, GuardianAlive
    <3>2. up' \in Seq(Messages) /\ Len(up') = Len(up) + 1 /\ up'[Len(up) + 1] = Message("error", 0)
      BY <1>2, <2>2, Queues, AppendFacts
    <3>3. Len(up) = 0
      BY <3>1
    <3> QED
      BY <1>2, <3>1, <3>2, <3>3
  <2> QED
    BY <2>1, <2>2
<1>4. Types'
  BY <1>1, <1>3, Parts DEF Types
<1>5. HostCounts' /\ InitCounts'
  BY Parts, Zenon DEF HostCounts, InitCounts
<1>6. GuardianCounts'
  BY <1>1, Parts DEF GuardianCounts, Reduced, Serving
<1>7. DownSound'
  BY <1>1 DEF DownSound, GuardianAlive
<1>8. InnerSound'
  BY <1>1, Parts, Zenon DEF InnerSound, Told, Taken, Learning, Serving
<1>9. Stages'
  BY <1>1, Parts DEF Stages, Learning, Reduced, Serving, GuardianAlive
<1>10. UpSound'
  BY <1>1, <1>3, Parts DEF UpSound
<1>11. Closing'
  BY AliveGuardian
<1> QED
  BY <1>4, <1>5, <1>6, <1>7, <1>8, <1>9, <1>10, <1>11, Zenon DEF LInv

\* The guardian gives up, or is killed.
LEMMA GivesUpKeeps ==
    ASSUME LInv, GuardianGivesUp \/ KillGuardian
    PROVE  LInv'
<1>1. CASE GuardianGivesUp
  BY <1>1, GuardianEnds DEF GuardianGivesUp, GuardianFails
<1>2. CASE KillGuardian
  BY <1>2, GuardianEnds DEF KillGuardian, GuardianOnly
<1> QED
  BY <1>1, <1>2

\* The guardian arms its parent-death signal, too late if the host is gone.
LEMMA GuardianArmKeeps ==
    ASSUME LInv, GuardianArm
    PROVE  LInv'
<1>1. guardian.pc = "arm" /\ guardian' = [guardian EXCEPT !.pc = "launch", !.armed = host.alive]
      /\ UNCHANGED <<inputs, host, init, target, ready, down, up, inner, outer>>
  BY DEF GuardianArm, GuardianOnly
<1>2. /\ guardian' \in GuardianRecords /\ guardian'.pc = "launch"
      /\ guardian'.reduced = guardian.reduced /\ guardian'.n = guardian.n
      /\ guardian'.transferred = guardian.transferred /\ guardian'.request = guardian.request
  <2>1. host.alive \in BOOLEAN
    BY Parts DEF Types, HostRecords
  <2> QED
    BY <1>1, <2>1, Parts, Zenon DEF Types, GuardianRecords, GuardianPcs, Learning
<1>3. Types'
  BY <1>1, <1>2, Parts, Zenon DEF Types
<1>4. HostCounts' /\ InitCounts'
  BY <1>1, Parts, Zenon DEF HostCounts, InitCounts
<1>5. GuardianCounts'
  BY <1>1, <1>2, Parts DEF GuardianCounts, Reduced, Serving
<1>6. DownSound'
  <2>1. Heard' = Heard /\ GuardianAlive /\ \A i : Said(i)' = Said(i)
    BY <1>1, <1>2 DEF Heard, GuardianAlive, Said
  <2> QED
    BY <1>1, <1>2, <2>1, Parts DEF DownSound
<1>7. InnerSound'
  BY <1>1, <1>2, Parts DEF InnerSound, Told, Taken, Learning, Serving
<1>8. Stages'
  BY <1>1, <1>2, Parts DEF Stages, Learning, Reduced, Serving
<1>9. UpSound'
  BY <1>1, <1>2, Parts DEF UpSound
<1>10. Closing'
  BY <1>1, AliveGuardian DEF GuardianAlive
<1> QED
  BY <1>3, <1>4, <1>5, <1>6, <1>7, <1>8, <1>9, <1>10, Zenon DEF LInv

\* The guardian hears the next message of the host's conversation.
LEMMA HearKeeps ==
    ASSUME LInv, GuardianAlive, down # <<>>, down' = Tail(down), guardian' \in GuardianRecords,
           GuardianAlive', Heard' = Heard + 1, guardian'.pc # "none",
           UNCHANGED <<inputs, host, init, target, ready, up, inner, outer>>,
           GuardianCounts', InnerSound', Stages', UpSound'
    PROVE  LInv'
<1>1. /\ down' \in Seq(Messages) /\ Len(down') = Len(down) - 1 /\ Len(down) \in Nat
      /\ Len(down) >= 1 /\ \A i \in 1..Len(down') : down'[i] = down[i + 1]
  BY Queues, TailFacts
<1>2. Types'
  BY <1>1, Parts, Zenon DEF Types
<1>3. HostCounts' /\ InitCounts'
  BY Parts, Zenon DEF HostCounts, InitCounts
<1>4. Heard \in Nat /\ \A i : Said(i)' = Said(i)
  BY HeardType DEF Said
<1>5. Len(down') + Heard' = Len(down) + Heard
  BY <1>1, <1>4
<1>6. ASSUME NEW i \in 1..Len(down') PROVE down'[i] = Said(Heard + i)'
  <2>1. i + 1 \in 1..Len(down) /\ Heard + (i + 1) = Heard' + i
    BY <1>1, <1>4, <1>6
  <2>2. down[i + 1] = Said(Heard + (i + 1))
    BY <2>1, Parts DEF DownSound
  <2> QED
    BY <1>1, <1>4, <1>6, <2>1, <2>2
<1>7. DownSound'
  BY <1>5, <1>6, Parts DEF DownSound
<1>8. Closing'
  BY AliveGuardian
<1> QED
  BY <1>2, <1>3, <1>7, <1>8, Zenon DEF LInv

\* The guardian hears the descriptor and the inputs in order.
LEMMA ReceiveLaunchKeeps ==
    ASSUME LInv, GuardianReceiveLaunch
    PROVE  LInv'
<1>1. /\ guardian.pc \in {"launch", "input"} /\ down # <<>> /\ down' = Tail(down)
      /\ UNCHANGED <<inputs, host, init, target, ready, up, inner, outer>>
  BY DEF GuardianReceiveLaunch, FromHost
<1>2. /\ Head(down) = down[1] /\ Len(down) \in Nat /\ Len(down) >= 1
  BY <1>1, Queues, TailFacts
<1>3. GuardianAlive
  BY <1>1 DEF GuardianAlive
<1>4. down[1] = Said(Heard + 1)
  BY <1>2, <1>3, Parts DEF DownSound
<1>5. /\ guardian' \in GuardianRecords /\ guardian'.pc = "input"
      /\ guardian'.reduced = guardian.reduced
      /\ guardian'.transferred = guardian.transferred
      /\ guardian'.request = inputs /\ guardian'.n <= inputs
      /\ Heard' = Heard + 1
  <2>1. CASE /\ guardian.pc = "launch"
             /\ guardian' = [guardian EXCEPT !.pc = "input", !.request = Head(down).n]
    <3>1. Heard = 0
      BY <2>1 DEF Heard
    <3>2. Head(down).n = inputs /\ inputs \in Nat
      BY <1>2, <1>4, <3>1, MessageFacts, Fields, SMTT(30) DEF Said
    <3>3. /\ guardian' \in GuardianRecords /\ guardian'.pc = "input"
          /\ guardian'.reduced = guardian.reduced /\ guardian'.n = guardian.n
          /\ guardian'.transferred = guardian.transferred /\ guardian'.request = inputs
      BY <2>1, <3>2, Parts, Zenon DEF Types, GuardianRecords, GuardianPcs, Learning
    <3>4. guardian.n = 0
      BY <2>1, Parts DEF GuardianCounts
    <3>5. Heard' = 1 + guardian'.n
      BY <3>3 DEF Heard
    <3> QED
      BY <3>1, <3>2, <3>3, <3>4, <3>5
  <2>2. CASE /\ guardian.pc = "input" /\ guardian.n < guardian.request
             /\ guardian' = [guardian EXCEPT !.n = @ + 1]
    <3>1. guardian.n \in Nat /\ guardian.n + 1 \in Nat /\ inputs \in Nat
      BY Fields
    <3>2. guardian.request = inputs
      BY <2>2, Parts DEF GuardianCounts
    <3>3. /\ guardian' \in GuardianRecords /\ guardian'.pc = "input"
          /\ guardian'.reduced = guardian.reduced /\ guardian'.n = guardian.n + 1
          /\ guardian'.transferred = guardian.transferred
          /\ guardian'.request = guardian.request
      BY <2>2, <3>1, Parts, Zenon DEF Types, GuardianRecords
    <3>4. Heard = 1 + guardian.n /\ Heard' = 1 + guardian'.n
      BY <2>2, <3>3 DEF Heard
    <3> QED
      BY <2>2, <3>1, <3>2, <3>3, <3>4
  <2> QED
    BY <2>1, <2>2 DEF GuardianReceiveLaunch
<1>6. GuardianCounts'
  BY <1>1, <1>5, Fields DEF GuardianCounts, Reduced, Serving
<1>7. InnerSound'
  BY <1>1, <1>5, Parts, Zenon DEF InnerSound, Told, Taken, Learning, Serving
<1>8. Stages'
  BY <1>1, <1>5, Parts DEF Stages, Learning, Reduced, Serving
<1>9. UpSound'
  BY <1>1, <1>5, Parts, Zenon DEF UpSound
<1>10. GuardianAlive'
  BY <1>5 DEF GuardianAlive
<1> QED
  BY <1>1, <1>3, <1>5, <1>6, <1>7, <1>8, <1>9, <1>10, HearKeeps

\* A step of the guardian within what it has heard.
LEMMA GuardianStays ==
    ASSUME LInv, GuardianAlive, guardian' \in GuardianRecords, GuardianAlive', Heard' = Heard,
           guardian'.pc # "none", UNCHANGED <<inputs, host, target, down, up>>,
           guardian'.transferred = guardian.transferred,
           init' \in InitRecords, ready' \in {"open", "ready", "error"},
           inner' \in Seq(Messages), outer' \in Seq(Messages),
           GuardianCounts', InitCounts', InnerSound', Stages'
    PROVE  LInv'
<1>1. Types'
  BY Parts, Zenon DEF Types
<1>2. HostCounts'
  BY Parts, Zenon DEF HostCounts
<1>3. DownSound'
  <2>1. \A i : Said(i)' = Said(i)
    BY DEF Said
  <2> QED
    BY <2>1, Parts, Zenon DEF DownSound
<1>4. UpSound'
  BY Parts DEF UpSound, GuardianAlive
<1>5. Closing'
  BY Parts DEF Closing, GuardianAlive
<1> QED
  BY <1>1, <1>2, <1>3, <1>4, <1>5, Zenon DEF LInv

\* The guardian spawns the init with an empty socket.
LEMMA SpawnKeeps ==
    ASSUME LInv, GuardianSpawn
    PROVE  LInv'
<1>1. /\ guardian.pc = "input" /\ guardian.n = guardian.request
      /\ GuardianTo("drop") /\ init' = [init EXCEPT !.pc = "arm"]
      /\ UNCHANGED <<inputs, host, target, ready, down, up, inner, outer>>
  BY DEF GuardianSpawn
<1>2. /\ guardian' \in GuardianRecords /\ guardian'.pc = "drop"
      /\ guardian'.reduced = guardian.reduced /\ guardian'.n = guardian.n
      /\ guardian'.transferred = guardian.transferred /\ guardian'.request = guardian.request
  BY <1>1, Parts, GuardianToFacts DEF GuardianPcs
<1>3. /\ init' \in InitRecords /\ init'.pc = "arm" /\ init'.reduced = init.reduced
      /\ init'.n = init.n /\ init'.count = init.count
  BY <1>1, Parts, InitToFacts DEF InitTo, InitPcs, Waiting
<1>4. /\ init.pc = "none" /\ inner = <<>> /\ outer = <<>> /\ target = "none" /\ ready # "ready"
      /\ ~guardian.transferred /\ guardian.n = inputs
  BY <1>1, Parts DEF Stages, Learning, GuardianCounts
<1>5. GuardianCounts'
  BY <1>1, <1>2, <1>4, Parts DEF GuardianCounts, Reduced, Serving
<1>6. InitCounts'
  BY <1>1, <1>3, <1>4, Parts DEF InitCounts, Waiting, Prepared
<1>7. Heard' = Heard
  BY <1>1, <1>2, <1>4 DEF Heard, Asked
<1>8. InnerSound'
  <2>1. Len(inner') = 0 /\ Taken' = 0
    BY <1>1, <1>3, <1>4 DEF Taken
  <2> QED
    BY <1>1, <1>2, <1>4, <2>1 DEF InnerSound, Serving
<1>9. Stages'
  BY <1>1, <1>2, <1>3, <1>4, Parts DEF Stages, Learning, Reduced, Serving, Prepared
<1>10. GuardianAlive /\ GuardianAlive'
  BY <1>1, <1>2 DEF GuardianAlive
<1> QED
  BY <1>1, <1>2, <1>3, <1>5, <1>6, <1>7, <1>8, <1>9, <1>10, Parts, Queues, GuardianStays
     DEF Types

\* The guardian drops its privileges.
LEMMA GuardianDropKeeps ==
    ASSUME LInv, GuardianDrop
    PROVE  LInv'
<1>1. /\ guardian.pc = "drop"
      /\ guardian' = [guardian EXCEPT !.pc = "armed", !.reduced = TRUE]
      /\ UNCHANGED <<inputs, host, init, target, ready, down, up, inner, outer>>
  BY DEF GuardianDrop, GuardianOnly
<1>2. /\ guardian' \in GuardianRecords /\ guardian'.pc = "armed"
      /\ guardian'.reduced = TRUE /\ guardian'.n = guardian.n
      /\ guardian'.transferred = guardian.transferred /\ guardian'.request = guardian.request
  BY <1>1, Parts, Zenon DEF Types, GuardianRecords, GuardianPcs, Reduced
<1>3. ~guardian.transferred
  BY <1>1, Parts DEF Stages
<1>4. GuardianCounts'
  BY <1>1, <1>2, Parts DEF GuardianCounts
<1>5. InitCounts'
  BY <1>1, Parts, Zenon DEF InitCounts
<1>6. Heard' = Heard
  BY <1>1, <1>2, <1>3 DEF Heard, Asked
<1>7. InnerSound'
  BY <1>1, <1>2, Parts DEF InnerSound, Told, Taken, Serving
<1>8. Stages'
  BY <1>1, <1>2, <1>3, Parts DEF Stages, Learning, Serving
<1>9. GuardianAlive /\ GuardianAlive'
  BY <1>1, <1>2 DEF GuardianAlive
<1> QED
  BY <1>1, <1>2, <1>4, <1>5, <1>6, <1>7, <1>8, <1>9, Parts, Queues, GuardianStays DEF Types

\* The guardian tells the init the next message of its conversation.
LEMMA TellKeeps ==
    ASSUME LInv, guardian.pc \in Reduced, NEW m \in Messages, inner' = Append(inner, m),
           guardian' \in GuardianRecords, guardian'.pc \in Reduced,
           guardian'.reduced = guardian.reduced,
           guardian'.transferred = guardian.transferred, Heard' = Heard,
           UNCHANGED <<inputs, host, init, target, ready, down, up>>,
           outer' \in Seq(Messages),
           \A i \in 1..Len(outer') : \E j \in 1..Len(outer) : outer'[i] = outer[j],
           GuardianCounts',
           guardian'.transferred => guardian'.pc = "serve",
           guardian'.pc \in Serving => guardian.pc \in Serving,
           init.pc \in {"none", "inputs"} \cup Waiting =>
              /\ m = Told(Taken + Len(inner) + 1)
              /\ guardian'.pc = "forward" => Len(inner) + 1 + Taken = 1 + guardian'.request
              /\ guardian'.pc \notin {"armed", "started"}
    PROVE  LInv'
<1>1. /\ inner' \in Seq(Messages) /\ Len(inner') = Len(inner) + 1
      /\ inner'[Len(inner) + 1] = m /\ Len(inner) \in Nat
      /\ \A i \in 1..Len(inner) : inner'[i] = inner[i]
  BY Queues, AppendFacts, SMTT(30)
<1>2. InitCounts'
  BY Parts, Zenon DEF InitCounts
<1>3. guardian.reduced /\ GuardianAlive /\ GuardianAlive' /\ guardian'.pc # "none"
      /\ guardian'.pc \notin {"none"} \cup Learning
  BY Parts, Zenon DEF Stages, GuardianAlive, Reduced, Serving, Learning
<1>4. Taken \in Nat /\ Taken' = Taken /\ \A i : Told(i)' = Told(i)
  <2>1. init.n \in Nat /\ 1 + init.n \in Nat /\ 0 \in Nat
    BY Fields, NextNumber, Zenon
  <2> QED
    BY <2>1, Zenon DEF Taken, Told
<1>5. InnerSound'
  <2>1. ASSUME init.pc \in {"none", "inputs"} \cup Waiting, NEW i \in 1..Len(inner')
        PROVE  inner'[i] = Told(Taken + i)
    <3>1. CASE i = Len(inner) + 1
      BY <1>1, <1>4, <2>1, <3>1, SMTT(30)
    <3>2. CASE i \in 1..Len(inner)
      BY <1>1, <2>1, <3>2, Parts, Zenon DEF InnerSound
    <3> QED
      BY <1>1, <2>1, <3>1, <3>2, SMTT(30)
  <2>2. init.pc \in {"none", "inputs"} \cup Waiting => guardian'.pc \notin Serving
    BY Parts, Zenon DEF InnerSound
  <2> QED
    BY <1>1, <1>3, <1>4, <2>1, <2>2, Zenon DEF InnerSound, Learning, Reduced, Serving
<1>6. (\E i \in 1..Len(outer') : outer'[i].kind = "started") =>
         \E i \in 1..Len(outer) : outer[i].kind = "started"
  BY Zenon
<1>7. Stages'
  <2>1. (ready' = "ready" \/ \E i \in 1..Len(outer') : outer'[i].kind = "started") =>
           target' # "none" /\ init'.pc \in {"serve", "exiting", "dead"}
    BY <1>6, Parts, Zenon DEF Stages
  <2>2. guardian'.transferred => guardian'.pc \in {"serve", "dead"}
    OBVIOUS
  <2>3. /\ host'.pc = "idle" => guardian'.pc = "none"
        /\ guardian'.pc \in Serving => ready' = "ready"
    BY <1>3, Parts, Zenon DEF Stages, GuardianAlive
  <2>4. /\ init'.pc \in {"inputs"} \cup Prepared => guardian'.reduced
        /\ init'.pc \in Prepared => init'.reduced
        /\ target' # "none" =>
              /\ init'.pc \in {"started", "serve", "exiting", "dead"}
              /\ guardian'.reduced /\ init'.reduced /\ init'.n = inputs'
        /\ init'.pc \in {"started", "serve"} => target' # "none"
    BY Parts, Zenon DEF Stages
  <2> QED
    BY <1>3, <2>1, <2>2, <2>3, <2>4, Zenon DEF Stages
<1> QED
  BY <1>1, <1>2, <1>3, <1>5, <1>7, Parts, Queues, GuardianStays, Zenon DEF Types

\* GO and the inputs go to the init in order.
LEMMA HandshakeKeeps ==
    ASSUME LInv, GuardianHandshake
    PROVE  LInv'
<1>1. /\ guardian.pc \in {"armed", "forward"} /\ guardian.pc \in Reduced
      /\ UNCHANGED <<inputs, host, init, target, ready, down, up>>
  BY DEF GuardianHandshake, Reduced
<1>2. /\ ~guardian.transferred /\ guardian.reduced /\ GuardianAlive /\ guardian.n = inputs
      /\ inputs \in Nat /\ guardian.n \in Nat /\ guardian.request \in Nat
  BY <1>1, Parts, Fields, Zenon DEF Stages, GuardianAlive, GuardianCounts
<1>3. Len(inner) \in Nat /\ Taken \in Nat
  <2>1. init.n \in Nat /\ 1 + init.n \in Nat /\ 0 \in Nat
    BY Fields, NextNumber, Zenon
  <2> QED
    BY <2>1, Queues, Zenon DEF Taken
<1>4. CASE /\ guardian.pc = "armed" /\ FromInit("armed")
           /\ outer' = Tail(outer) /\ inner' = Append(inner, Message("go", guardian.n))
           /\ guardian' = [guardian EXCEPT !.pc = "forward", !.request = 0]
  <2>1. /\ guardian' \in GuardianRecords /\ guardian'.pc = "forward"
        /\ guardian'.reduced = guardian.reduced /\ guardian'.n = guardian.n
        /\ guardian'.transferred = guardian.transferred /\ guardian'.request = 0
    BY <1>4, Parts, Zenon DEF Types, GuardianRecords, GuardianPcs, Reduced
  <2>2. Heard' = Heard
    BY <1>1, <1>2, <1>4, <2>1 DEF Heard, Asked
  <2>3. /\ outer' \in Seq(Messages) /\ Len(outer) \in Nat /\ Len(outer) >= 1
        /\ Len(outer') = Len(outer) - 1
        /\ \A i \in 1..Len(outer') : outer'[i] = outer[i + 1]
    BY <1>4, Queues, TailFacts DEF FromInit
  <2>4. \A i \in 1..Len(outer') : \E j \in 1..Len(outer) : outer'[i] = outer[j]
    <3> SUFFICES ASSUME NEW i \in 1..Len(outer')
                 PROVE  \E j \in 1..Len(outer) : outer'[i] = outer[j]
      OBVIOUS
    <3>1. i + 1 \in 1..Len(outer)
      BY <2>3
    <3> QED
      BY <2>3, <3>1
  <2>5. GuardianCounts'
    BY <1>1, <1>2, <2>1, Fields, SMTT(30) DEF GuardianCounts, Reduced, Serving
  <2>6. Message("go", guardian.n) \in Messages
    BY <1>2, MessageFacts, Fields DEF Kinds
  <2>7. init.pc \in {"none", "inputs"} \cup Waiting => Len(inner) = 0 /\ Taken = 0
    BY <1>3, <1>4, Parts DEF InnerSound
  <2>8. Told(1) = Message("go", guardian.n)
    BY <1>2 DEF Told
  <2>9. init.pc \in {"none", "inputs"} \cup Waiting =>
              /\ Message("go", guardian.n) = Told(Taken + Len(inner) + 1)
              /\ Len(inner) + 1 + Taken = 1 + guardian'.request
    BY <2>1, <2>7, <2>8
  <2> QED
    BY <1>1, <1>2, <1>4, <2>1, <2>2, <2>3, <2>4, <2>5, <2>6, <2>9, TellKeeps, Zenon
       DEF Reduced, Serving
<1>5. CASE /\ guardian.pc = "forward" /\ guardian.request < guardian.n
           /\ inner' = Append(inner, Message("input", guardian.request + 1))
           /\ guardian' = [guardian EXCEPT !.request = @ + 1]
           /\ UNCHANGED outer
  <2>0. guardian.request + 1 \in Nat /\ guardian.request + 1 <= inputs
        /\ guardian.request + 1 \in 0..(MaxInputs + MaxCalls)
    <3>1. guardian.request < inputs
      BY <1>2, <1>5, Zenon
    <3> QED
      BY <1>2, <3>1, Fields, NextNumber, Zenon
  <2>1. /\ guardian' \in GuardianRecords /\ guardian'.pc = "forward"
        /\ guardian'.reduced = guardian.reduced /\ guardian'.n = guardian.n
        /\ guardian'.transferred = guardian.transferred
        /\ guardian'.request = guardian.request + 1
    BY <1>5, <2>0, Parts, Zenon DEF Types, GuardianRecords
  <2>2. Heard' = Heard
    BY <1>1, <1>2, <1>5, <2>1 DEF Heard, Asked
  <2>3. outer' \in Seq(Messages)
        /\ \A i \in 1..Len(outer') : \E j \in 1..Len(outer) : outer'[i] = outer[j]
    BY <1>5, Queues
  <2>4. GuardianCounts'
    BY <1>1, <1>2, <2>0, <2>1, Fields, SMTT(30) DEF GuardianCounts, Reduced, Serving
  <2>5. Message("input", guardian.request + 1) \in Messages
    BY <2>0, MessageFacts DEF Kinds
  <2>6. init.pc \in {"none", "inputs"} \cup Waiting => Len(inner) + Taken = 1 + guardian.request
    BY <1>5, Parts DEF InnerSound
  <2>7. Told(guardian.request + 2) = Message("input", guardian.request + 1)
    <3>1. /\ guardian.request + 2 # 1 /\ guardian.request + 2 <= 1 + inputs
          /\ guardian.request + 2 - 1 = guardian.request + 1
      BY <1>2, <2>0
    <3> QED
      BY <1>2, <3>1 DEF Told
  <2>8. init.pc \in {"none", "inputs"} \cup Waiting =>
              /\ Taken + Len(inner) + 1 = guardian.request + 2
              /\ Len(inner) + 1 + Taken = 1 + guardian'.request
    BY <1>2, <1>3, <2>1, <2>6
  <2>9. init.pc \in {"none", "inputs"} \cup Waiting =>
              Message("input", guardian.request + 1) = Told(Taken + Len(inner) + 1)
    BY <2>7, <2>8
  <2> QED
    BY <1>1, <1>2, <1>5, <2>1, <2>2, <2>3, <2>4, <2>5, <2>8, <2>9, TellKeeps, Zenon DEF Reduced, Serving
<1>6. CASE /\ guardian.pc = "forward" /\ guardian.request = guardian.n
           /\ GuardianTo("started") /\ UNCHANGED <<inner, outer>>
  <2>1. /\ guardian' \in GuardianRecords /\ guardian'.pc = "started"
        /\ guardian'.reduced = guardian.reduced /\ guardian'.n = guardian.n
        /\ guardian'.transferred = guardian.transferred /\ guardian'.request = guardian.request
    BY <1>6, Parts, GuardianToFacts DEF GuardianPcs, Reduced
  <2>2. Heard' = Heard
    BY <1>1, <1>2, <1>6, <2>1, Zenon DEF Heard, Asked
  <2>3. GuardianCounts'
    BY <1>1, <1>6, <2>1, Parts, Zenon DEF GuardianCounts
  <2>4. InitCounts'
    BY <1>1, Parts, Zenon DEF InitCounts
  <2>5. InnerSound'
    BY <1>1, <1>2, <1>6, <2>1, Parts, Zenon DEF InnerSound, Told, Taken, Learning, Serving
  <2>6. Stages'
    BY <1>1, <1>2, <1>6, <2>1, Parts, Zenon DEF Stages, Learning, Serving
  <2>7. GuardianAlive'
    BY <2>1 DEF GuardianAlive
  <2> QED
    BY <1>1, <1>2, <1>6, <2>1, <2>2, <2>3, <2>4, <2>5, <2>6, <2>7, Parts, Queues, GuardianStays, Zenon
       DEF Types
<1> QED
  BY <1>4, <1>5, <1>6 DEF GuardianHandshake

\* The guardian answers READY once the init has said the target started.
LEMMA GuardianReadyKeeps ==
    ASSUME LInv, GuardianReady
    PROVE  LInv'
<1>1. /\ guardian.pc = "started" /\ outer # <<>> /\ Head(outer).kind = "started"
      /\ outer' = Tail(outer) /\ ready' = "ready" /\ GuardianTo("serve")
      /\ UNCHANGED <<inputs, host, init, target, down, up, inner>>
  BY DEF GuardianReady, FromInit
<1>2. /\ guardian' \in GuardianRecords /\ guardian'.pc = "serve"
      /\ guardian'.reduced = guardian.reduced /\ guardian'.n = guardian.n
      /\ guardian'.transferred = guardian.transferred /\ guardian'.request = guardian.request
  BY <1>1, Parts, GuardianToFacts, Zenon DEF GuardianPcs, Reduced, Serving
<1>3. /\ outer' \in Seq(Messages) /\ outer[1].kind = "started" /\ 1 \in 1..Len(outer)
  BY <1>1, Queues, TailFacts
<1>4. target # "none" /\ init.pc \in {"serve", "exiting", "dead"} /\ guardian.reduced
      /\ ~guardian.transferred
  <2>1. \E i \in 1..Len(outer) : outer[i].kind = "started"
    BY <1>3
  <2> QED
    BY <1>1, <2>1, Parts, Zenon DEF Stages, Reduced
<1>5. GuardianCounts'
  BY <1>1, <1>2, Parts, Zenon DEF GuardianCounts, Reduced, Serving
<1>6. InitCounts'
  BY <1>1, Parts, Zenon DEF InitCounts
<1>7. Heard' = Heard
  BY <1>1, <1>2, <1>4, Zenon DEF Heard, Asked
<1>8. InnerSound'
  BY <1>1, <1>2, <1>4 DEF InnerSound, Waiting
<1>9. Stages'
  BY <1>1, <1>2, <1>4, Parts, Zenon DEF Stages, Learning, Serving
<1>10. GuardianAlive /\ GuardianAlive'
  BY <1>1, <1>2 DEF GuardianAlive
<1> QED
  BY <1>1, <1>2, <1>3, <1>5, <1>6, <1>7, <1>8, <1>9, <1>10, Parts, Queues, GuardianStays DEF Types

\* What a serving guardian hears is the one request.
LEMMA ServeKeeps ==
    ASSUME LInv, GuardianServe
    PROVE  LInv'
<1>1. /\ guardian.pc = "serve" /\ down # <<>> /\ down' = Tail(down)
      /\ UNCHANGED <<inputs, host, init, target, ready, inner, outer>>
  BY DEF GuardianServe
<1>2. /\ Head(down) = down[1] /\ Len(down) \in Nat /\ Len(down) >= 1
  BY <1>1, Queues, TailFacts
<1>3. GuardianAlive /\ host.requests <= 1 /\ inputs \in Nat /\ host.requests \in Nat
  BY <1>1, Parts, Fields DEF GuardianAlive, HostCounts
<1>4. ~guardian.transferred /\ Heard = 1 + inputs /\ host.requests = 1
  <2>1. Len(down) + Heard <= 1 + inputs + host.requests
    BY <1>3, Parts DEF DownSound
  <2>2. Heard = IF guardian.transferred THEN 2 + inputs ELSE 1 + inputs
    BY <1>1 DEF Heard, Asked
  <2> QED
    BY <1>2, <1>3, <2>1, <2>2
<1>5. Head(down) = Message("connect", 1)
  <2>1. down[1] = Said(Heard + 1)
    BY <1>2, <1>3, Parts DEF DownSound
  <2> QED
    BY <1>2, <1>3, <1>4, <2>1 DEF Said
<1>6. /\ guardian' = [guardian EXCEPT !.pc = "connect", !.request = 1] /\ UNCHANGED up
  <2>1. Head(down).kind = "connect" /\ Head(down).n = 1
    BY <1>5, MessageFacts
  <2> QED
    BY <1>4, <2>1, Zenon DEF GuardianServe
<1>7. /\ guardian' \in GuardianRecords /\ guardian'.pc = "connect"
      /\ guardian'.reduced = guardian.reduced /\ guardian'.n = guardian.n
      /\ guardian'.transferred = guardian.transferred /\ guardian'.request = 1
  BY <1>6, Parts, Zenon DEF Types, GuardianRecords, GuardianPcs, Reduced, Serving
<1>8. Heard' = Heard + 1
  BY <1>1, <1>3, <1>4, <1>7 DEF Heard, Asked
<1>9. GuardianCounts'
  <2>1. 1 <= inputs + MaxCalls
    BY <1>3, <1>4, Parts, Fields DEF HostCounts
  <2> QED
    BY <1>1, <1>4, <1>7, <2>1, Parts DEF GuardianCounts, Reduced, Serving
<1>10. InnerSound'
  BY <1>1, <1>7, Parts DEF InnerSound, Serving
<1>11. Stages'
  BY <1>1, <1>4, <1>7, Parts, Zenon DEF Stages, Learning, Reduced, Serving
<1>12. UpSound'
  BY <1>1, <1>6, <1>7, Parts DEF UpSound
<1>13. GuardianAlive'
  BY <1>7 DEF GuardianAlive
<1> QED
  BY <1>1, <1>3, <1>6, <1>7, <1>8, <1>9, <1>10, <1>11, <1>12, <1>13, HearKeeps

\* A captured channel goes up as the answer to the request.
LEMMA TransferKeeps ==
    ASSUME LInv, GuardianTransfer
    PROVE  LInv'
<1>1. /\ guardian.pc \in {"connect", "captured"} /\ guardian.pc \in Serving
      /\ guardian.pc \in Reduced
      /\ UNCHANGED <<inputs, host, init, target, ready, down>>
  BY DEF GuardianTransfer, Reduced, Serving
<1>2. /\ ~guardian.transferred /\ guardian.reduced /\ GuardianAlive
      /\ guardian.request = host.requests /\ init.pc \notin {"none", "inputs"} \cup Waiting
  BY <1>1, Parts, Zenon DEF Stages, GuardianAlive, GuardianCounts, InnerSound
<1>3. CASE /\ GuardianTo("captured") /\ inner' = Append(inner, Message("capture", 0))
           /\ UNCHANGED <<up, outer>>
  <2>1. /\ guardian' \in GuardianRecords /\ guardian'.pc = "captured"
        /\ guardian'.reduced = guardian.reduced /\ guardian'.n = guardian.n
        /\ guardian'.transferred = guardian.transferred /\ guardian'.request = guardian.request
    BY <1>3, Parts, GuardianToFacts DEF GuardianPcs, Reduced, Serving
  <2>2. Heard' = Heard
    BY <1>1, <2>1 DEF Heard, Asked
  <2>3. outer' \in Seq(Messages)
        /\ \A i \in 1..Len(outer') : \E j \in 1..Len(outer) : outer'[i] = outer[j]
    BY <1>3, Queues
  <2>4. GuardianCounts'
    BY <1>1, <1>2, <2>1, Parts, Zenon DEF GuardianCounts, Reduced, Serving
  <2>5. Message("capture", 0) \in Messages
    BY MessageFacts, Fields DEF Kinds
  <2>6. guardian'.pc \in Reduced /\ guardian'.pc \in Serving
    BY <2>1 DEF Reduced, Serving
  <2> QED
    BY <1>1, <1>2, <1>3, <2>1, <2>2, <2>3, <2>4, <2>5, <2>6, TellKeeps, Zenon
<1>4. CASE /\ outer # <<>> /\ outer' = Tail(outer)
           /\ up' = Append(up, Message("connected", guardian.request))
           /\ guardian' = [guardian EXCEPT !.pc = "serve", !.transferred = TRUE]
           /\ UNCHANGED inner
  <2>1. /\ guardian' \in GuardianRecords /\ guardian'.pc = "serve"
        /\ guardian'.reduced = guardian.reduced /\ guardian'.n = guardian.n
        /\ guardian'.transferred = TRUE /\ guardian'.request = guardian.request
    BY <1>4, Parts, Zenon DEF Types, GuardianRecords, GuardianPcs, Reduced, Serving
  <2>2. Heard' = Heard
    BY <1>1, <2>1 DEF Heard, Asked
  <2>3. /\ outer' \in Seq(Messages) /\ Len(outer) \in Nat /\ Len(outer) >= 1
        /\ Len(outer') = Len(outer) - 1
        /\ \A i \in 1..Len(outer') : outer'[i] = outer[i + 1]
    BY <1>4, Queues, TailFacts
  <2>4. up = <<>> /\ host.channel = 0
    BY <1>1, <1>2, Parts DEF UpSound
  <2>5. Message("connected", guardian.request) \in Messages
    <3>1. guardian.request \in 0..(MaxInputs + MaxCalls)
      BY Parts, Fields DEF GuardianCounts
    <3> QED
      BY <3>1, MessageFacts DEF Kinds
  <2>6. up' \in Seq(Messages) /\ Len(up') = 1 /\ up'[1] = Message("connected", guardian.request)
    <3>1. Len(up) = 0
      BY <2>4
    <3> QED
      BY <1>4, <2>5, <3>1, Queues, AppendFacts
  <2>7. UpSound'
    BY <1>1, <1>2, <2>1, <2>4, <2>6, MessageFacts DEF UpSound
  <2>8. Types'
    BY <1>1, <1>4, <2>1, <2>3, <2>6, Parts, Zenon DEF Types
  <2>9. HostCounts' /\ InitCounts'
    BY <1>1, Parts, Zenon DEF HostCounts, InitCounts
  <2>10. GuardianCounts'
    BY <1>1, <2>1, Parts DEF GuardianCounts, Reduced, Serving
  <2>11. DownSound'
    <3>1. (\A i : Said(i)' = Said(i)) /\ GuardianAlive'
      BY <1>1, <2>1 DEF Said, GuardianAlive
    <3> QED
      BY <1>1, <1>2, <2>1, <2>2, <3>1, Parts, Zenon DEF DownSound
  <2>12. InnerSound'
    BY <1>1, <1>2, <1>4, <2>1 DEF InnerSound
  <2>13. Stages'
    <3>1. ready = "ready"
      BY <1>1, Parts, Zenon DEF Stages
    <3> QED
      BY <1>1, <1>2, <2>1, <3>1, Parts, Zenon DEF Stages, Learning
  <2>14. Closing'
    BY <1>1, <1>2, AliveGuardian
  <2> QED
    BY <2>7, <2>8, <2>9, <2>10, <2>11, <2>12, <2>13, <2>14, Zenon DEF LInv
<1>5. CASE /\ up' = Append(up, Message("error", 0)) /\ GuardianTo("dead")
           /\ UNCHANGED <<inner, outer>>
  BY <1>1, <1>2, <1>5, GuardianEnds, Zenon
<1> QED
  BY <1>3, <1>4, <1>5 DEF GuardianTransfer, FromInit

-----------------------------------------------------------------------------
(* Steps of the init, of the kernel and of the target.                     *)

\* An init that takes a step that leaves the host, the guardian and their
\* sockets alone.
LEMMA InitStays ==
    ASSUME LInv, InitAlive, init' \in InitRecords,
           UNCHANGED <<inputs, host, guardian, ready, down, up>>,
           target' \in {"none", "running", "dead"}, target = "dead" => target' = "dead",
           inner' \in Seq(Messages), outer' \in Seq(Messages),
           InitCounts', InnerSound', Stages'
    PROVE  LInv'
<1>1. Types'
  BY Parts, Zenon DEF Types
<1>2. HostCounts' /\ GuardianCounts'
  BY Parts, Zenon DEF HostCounts, GuardianCounts
<1>3. DownSound'
  <2>1. (\A i : Said(i)' = Said(i)) /\ Heard' = Heard
    BY DEF Said, Heard, Asked
  <2> QED
    BY <2>1, Parts, Zenon DEF DownSound, GuardianAlive
<1>4. UpSound'
  BY Parts, Zenon DEF UpSound
<1>5. Closing'
  BY Parts DEF Closing, GuardianAlive
<1> QED
  BY <1>1, <1>2, <1>3, <1>4, <1>5, Zenon DEF LInv

\* An init that lives has a guardian that has dropped its privileges or is
\* about to.
LEMMA AliveInit ==
    ASSUME LInv, InitAlive
    PROVE  guardian.pc \notin {"none"} \cup Learning
  BY Parts DEF Stages, InitAlive

\* The init ends.
LEMMA InitEnds ==
    ASSUME LInv, InitAlive, InitTo("exiting"), inner' \in Seq(Messages), outer' \in Seq(Messages),
           UNCHANGED <<inputs, host, guardian, target, ready, down, up>>,
           inner' # <<>> => inner # <<>>,
           \A i \in 1..Len(outer') :
              outer'[i].kind = "started" => \E j \in 1..Len(outer) : outer[j].kind = "started"
    PROVE  LInv'
<1>1. /\ init' \in InitRecords /\ init'.pc = "exiting" /\ init'.reduced = init.reduced
      /\ init'.n = init.n /\ init'.count = init.count
  BY Parts, InitToFacts, Zenon DEF InitPcs
<1>2. InitCounts'
  BY <1>1, Parts DEF InitCounts, Waiting, Prepared
<1>3. InnerSound'
  BY <1>1, Parts, Zenon DEF InnerSound, Waiting
<1>4. Stages'
  <2>1. guardian.pc \notin {"none"} \cup Learning
    BY AliveInit
  <2>2. (ready' = "ready" \/ \E i \in 1..Len(outer') : outer'[i].kind = "started") =>
           target' # "none" /\ init'.pc \in {"serve", "exiting", "dead"}
    BY <1>1, Parts, Zenon DEF Stages
  <2>3. target' # "none" => guardian'.reduced /\ init'.reduced /\ init'.n = inputs'
    BY <1>1, Parts, Zenon DEF Stages
  <2> QED
    BY <1>1, <2>1, <2>2, <2>3, Parts, Zenon DEF Stages, Prepared
<1>5. target' \in {"none", "running", "dead"}
  BY Parts DEF Types
<1> QED
  BY <1>1, <1>2, <1>3, <1>4, <1>5, InitStays, Zenon

\* The init gives up, or is killed.
LEMMA InitGivesUpKeeps ==
    ASSUME LInv, InitGivesUp \/ KillInit
    PROVE  LInv'
<1>1. InitAlive /\ InitTo("exiting") /\ InitOnly
  BY DEF InitGivesUp, KillInit, InitAlive
<1> QED
  BY <1>1, Queues, InitEnds DEF InitOnly

\* An init that waits arms its death signal and says so.
LEMMA InitArmKeeps ==
    ASSUME LInv, InitArm \/ InitSendArmed
    PROVE  LInv'
<1>1. /\ init.pc \in {"arm", "armed"} /\ init.pc \in Waiting /\ InitAlive
      /\ UNCHANGED <<inputs, host, guardian, target, ready, down, up, inner>>
  BY DEF InitArm, InitSendArmed, InitOnly, InitAlive, Waiting
<1>2. /\ init' \in InitRecords /\ init'.pc \in {"armed", "go"} /\ init'.reduced = init.reduced
      /\ init'.n = init.n /\ init'.count = init.count
  <2>1. CASE InitArm
    <3>1. GuardianAlive \in BOOLEAN
      BY DEF GuardianAlive
    <3> QED
      BY <2>1, <3>1, Parts, Zenon DEF InitArm, Types, InitRecords, InitPcs, Waiting
  <2>2. CASE InitSendArmed
    BY <2>2, Parts, InitToFacts, Zenon DEF InitSendArmed, InitPcs, Waiting
  <2> QED
    BY <2>1, <2>2
<1>3. /\ outer' \in Seq(Messages)
      /\ \A i \in 1..Len(outer') :
            outer'[i].kind = "started" => \E j \in 1..Len(outer) : outer[j].kind = "started"
  <2>1. CASE InitArm
    BY <2>1, Queues DEF InitArm, InitOnly
  <2>2. CASE InitSendArmed
    <3>1. /\ Message("armed", 0) \in Messages /\ Message("armed", 0).kind # "started"
      BY MessageFacts, Fields DEF Kinds
    <3> QED
      BY <2>2, <3>1, Queues, AppendFacts, SMTT(30) DEF InitSendArmed
  <2> QED
    BY <2>1, <2>2, Zenon
<1>4. InitCounts'
  BY <1>1, <1>2, Parts DEF InitCounts, Waiting, Prepared
<1>5. InnerSound'
  <2>1. Taken' = Taken /\ \A i : Told(i)' = Told(i)
    BY <1>1, <1>2 DEF Taken, Told
  <2> QED
    BY <1>1, <1>2, <2>1, Parts DEF InnerSound, Waiting
<1>6. Stages'
  <2>1. guardian.pc \notin {"none"} \cup Learning
    BY <1>1, AliveInit
  <2>2. target = "none"
    BY <1>1, Parts, Zenon DEF Stages
  <2>3. ~(ready' = "ready" \/ \E i \in 1..Len(outer') : outer'[i].kind = "started")
    BY <1>1, <1>3, <2>2, Parts, Zenon DEF Stages
  <2> QED
    BY <1>1, <1>2, <2>1, <2>2, <2>3, Parts, Zenon DEF Stages, Waiting, Prepared
<1>7. target' \in {"none", "running", "dead"} /\ inner' \in Seq(Messages)
  BY <1>1, Parts, Queues DEF Types
<1> QED
  BY <1>1, <1>2, <1>3, <1>4, <1>5, <1>6, <1>7, InitStays, Zenon

\* What the init takes from its socket is what it waits for.
LEMMA ReceiveGoKeeps ==
    ASSUME LInv, InitReceiveGo \/ InitReceiveInput
    PROVE  LInv'
<1>1. /\ init.pc \in {"go", "inputs"} /\ InitAlive /\ inner # <<>> /\ inner' = Tail(inner)
      /\ UNCHANGED <<inputs, host, guardian, target, ready, down, up, outer>>
      /\ init.pc \in {"none", "inputs"} \cup Waiting
  BY DEF InitReceiveGo, InitReceiveInput, InitAlive, Waiting
<1>2. /\ inner' \in Seq(Messages) /\ Len(inner') = Len(inner) - 1 /\ Len(inner) \in Nat
      /\ Len(inner) >= 1 /\ \A i \in 1..Len(inner') : inner'[i] = inner[i + 1]
      /\ Head(inner) = inner[1]
  BY <1>1, Queues, TailFacts
<1>3. inner[1] = Told(Taken + 1) /\ guardian.reduced
  BY <1>1, <1>2, Parts DEF InnerSound
<1>4. /\ init' \in InitRecords /\ init'.pc = "inputs" /\ init'.reduced = init.reduced
      /\ init'.n <= init'.count /\ init'.count = inputs /\ Taken' = Taken + 1 /\ Taken \in Nat
  <2>1. CASE init.pc = "go" /\ init' = [init EXCEPT !.pc = "inputs", !.count = Head(inner).n]
    <3>1. Taken = 0 /\ init.n = 0
      BY <2>1, Parts DEF Taken, InitCounts, Waiting
    <3>2. Head(inner).n = inputs
      BY <1>2, <1>3, <3>1, MessageFacts DEF Told
    <3>3. /\ init' \in InitRecords /\ init'.pc = "inputs" /\ init'.reduced = init.reduced
          /\ init'.n = init.n /\ init'.count = inputs
      BY <2>1, <3>2, Parts, Fields, Zenon DEF Types, InitRecords, InitPcs
    <3>4. Taken' = 1 + init'.n
      BY <3>3, Zenon DEF Taken
    <3> QED
      BY <3>1, <3>3, <3>4, Fields
  <2>2. CASE /\ init.pc = "inputs" /\ init.n < init.count /\ init' = [init EXCEPT !.n = @ + 1]
    <3>1. init.count = inputs /\ init.n + 1 \in Nat
      BY <2>2, Parts, Fields DEF InitCounts
    <3>2. /\ init' \in InitRecords /\ init'.pc = "inputs" /\ init'.reduced = init.reduced
          /\ init'.n = init.n + 1 /\ init'.count = init.count
      BY <2>2, <3>1, Parts, Zenon DEF Types, InitRecords
    <3>3. Taken' = 1 + init'.n /\ Taken = 1 + init.n
      BY <2>2, <3>2, Zenon DEF Taken
    <3> QED
      BY <2>2, <3>1, <3>2, <3>3, Fields
  <2> QED
    BY <2>1, <2>2 DEF InitReceiveGo, InitReceiveInput
<1>5. InitCounts'
  BY <1>1, <1>4, Fields DEF InitCounts, Waiting, Prepared
<1>6. InnerSound'
  <2>1. (\A i : Told(i)' = Told(i)) /\ Taken \in Nat
    BY <1>1, <1>4 DEF Told
  <2>2. \A i \in 1..Len(inner') : inner'[i] = Told(Taken + i)'
    <3> SUFFICES ASSUME NEW i \in 1..Len(inner') PROVE inner'[i] = Told(Taken + i)'
      OBVIOUS
    <3>1. i + 1 \in 1..Len(inner) /\ Taken + (i + 1) = Taken' + i
      BY <1>2, <1>4
    <3>2. inner[i + 1] = Told(Taken + (i + 1))
      BY <1>1, <3>1, Parts DEF InnerSound
    <3>3. Told(Taken + i)' = Told(Taken + (i + 1))
      BY <1>1, <3>1 DEF Told
    <3> QED
      BY <1>2, <3>1, <3>2, <3>3
  <2>3. Len(inner') + Taken' = Len(inner) + Taken
    BY <1>2, <1>4
  <2>4. /\ guardian.pc \in {"none", "drop", "armed"} \cup Learning => Len(inner) + Taken = 0
        /\ guardian.pc = "forward" => Len(inner) + Taken = 1 + guardian.request
        /\ guardian.pc = "started" => Len(inner) + Taken = 1 + inputs
        /\ guardian.pc \notin Serving
    BY <1>1, Parts, Zenon DEF InnerSound
  <2> QED
    BY <1>1, <1>3, <2>2, <2>3, <2>4 DEF InnerSound
<1>7. Stages'
  <2>1. guardian.pc \notin {"none"} \cup Learning
    BY <1>1, AliveInit
  <2>2. target = "none"
    BY <1>1, Parts, Zenon DEF Stages
  <2>3. ~(ready' = "ready" \/ \E i \in 1..Len(outer') : outer'[i].kind = "started")
    BY <1>1, <2>2, Parts, Zenon DEF Stages
  <2> QED
    BY <1>1, <1>3, <1>4, <2>1, <2>2, <2>3, Parts, Zenon DEF Stages, Prepared
<1>8. target' \in {"none", "running", "dead"} /\ outer' \in Seq(Messages)
  BY <1>1, Parts, Queues DEF Types
<1> QED
  BY <1>1, <1>2, <1>4, <1>5, <1>6, <1>7, <1>8, InitStays, Zenon

\* The init drops its privileges and starts the target.
LEMMA SetupKeeps ==
    ASSUME LInv, InitSetup \/ InitSpawnTarget
    PROVE  LInv'
<1>1. /\ init.pc \in {"inputs", "spawn"} /\ InitAlive
      /\ UNCHANGED <<inputs, host, guardian, ready, down, up, inner, outer>>
  BY DEF InitSetup, InitSpawnTarget, InitOnly, InitAlive
<1>2. guardian.reduced /\ target = "none" /\ guardian.pc \notin {"none"} \cup Learning
  BY <1>1, AliveInit, Parts DEF Stages, Prepared
<1>3. /\ init' \in InitRecords /\ init'.reduced = TRUE /\ init'.n = inputs
      /\ init'.count = init.count
      /\ \/ init'.pc = "spawn" /\ target' = "none"
         \/ init'.pc = "started" /\ target' = "running"
  <2>1. CASE InitSetup
    <3>1. init.n = inputs
      BY <2>1, Parts, Fields DEF InitSetup, InitCounts
    <3> QED
      BY <1>2, <2>1, <3>1, Parts, Zenon DEF InitSetup, InitOnly, Types, InitRecords, InitPcs, Prepared
  <2>2. CASE InitSpawnTarget
    <3>1. init.n = inputs /\ init.reduced = TRUE
      <4>1. init.reduced \in BOOLEAN
        BY Parts DEF Types, InitRecords
      <4> QED
        BY <2>2, <4>1, Parts, Zenon DEF InitSpawnTarget, InitCounts, Stages, Prepared
    <3> QED
      BY <2>2, <3>1, Parts, InitToFacts, Zenon DEF InitSpawnTarget, InitPcs, Prepared
  <2> QED
    BY <2>1, <2>2, Zenon
<1>4. InitCounts'
  <2>1. inputs <= init.count /\ init.count <= inputs
    <3>1. init.n = inputs
      BY <1>1, Parts, Fields DEF InitCounts, InitSetup, InitSpawnTarget, Prepared
    <3> QED
      BY <3>1, Parts, Fields DEF InitCounts
  <2> QED
    BY <1>1, <1>3, <2>1 DEF InitCounts, Waiting, Prepared
<1>5. InnerSound'
  BY <1>1, <1>2, <1>3 DEF InnerSound, Waiting
<1>6. Stages'
  <2>1. ~(ready' = "ready" \/ \E i \in 1..Len(outer') : outer'[i].kind = "started")
    BY <1>1, <1>2, Parts DEF Stages
  <2> QED
    BY <1>1, <1>2, <1>3, <2>1, Parts, Zenon DEF Stages, Prepared
<1>7. target' \in {"none", "running", "dead"} /\ inner' \in Seq(Messages) /\ outer' \in Seq(Messages)
  BY <1>1, <1>3, Queues
<1> QED
  BY <1>1, <1>2, <1>3, <1>4, <1>5, <1>6, <1>7, InitStays

\* The init reports a target it has started.
LEMMA SendStartedKeeps ==
    ASSUME LInv, InitSendStarted
    PROVE  LInv'
<1>1. /\ init.pc = "started" /\ InitAlive /\ InitTo("serve")
      /\ outer' = Append(outer, Message("started", 0))
      /\ UNCHANGED <<inputs, host, guardian, target, ready, down, up, inner>>
  BY DEF InitSendStarted, InitAlive
<1>2. /\ init' \in InitRecords /\ init'.pc = "serve" /\ init'.reduced = init.reduced
      /\ init'.n = init.n /\ init'.count = init.count
  BY <1>1, Parts, InitToFacts DEF InitPcs, Prepared
<1>3. outer' \in Seq(Messages)
  <2>1. Message("started", 0) \in Messages
    BY MessageFacts, Fields DEF Kinds
  <2> QED
    BY <1>1, <2>1, Queues, AppendFacts
<1>4. InitCounts'
  BY <1>1, <1>2, Parts DEF InitCounts, Waiting, Prepared
<1>5. InnerSound'
  BY <1>1, <1>2, Parts DEF InnerSound, Waiting
<1>6. Stages'
  <2>1. target # "none" /\ guardian.pc \notin {"none"} \cup Learning
    BY <1>1, AliveInit, Parts, Zenon DEF Stages
  <2> QED
    BY <1>1, <1>2, <2>1, Parts, Zenon DEF Stages, Prepared
<1>7. target' \in {"none", "running", "dead"} /\ inner' \in Seq(Messages)
  BY <1>1, Parts, Queues DEF Types
<1> QED
  BY <1>1, <1>2, <1>3, <1>4, <1>5, <1>6, <1>7, InitStays

\* A first capture is answered, anything else ends the init.
LEMMA InitServeKeeps ==
    ASSUME LInv, InitServe
    PROVE  LInv'
<1>1. /\ init.pc = "serve" /\ InitAlive /\ inner # <<>> /\ inner' = Tail(inner)
      /\ UNCHANGED <<inputs, host, guardian, target, ready, down, up>>
  BY DEF InitServe, InitAlive
<1>2. inner' \in Seq(Messages)
  BY <1>1, Queues, TailFacts
<1>3. ASSUME NEW kind \in {"captured", "error"}, outer' = Append(outer, Message(kind, 0))
      PROVE  /\ outer' \in Seq(Messages)
             /\ \A i \in 1..Len(outer') : outer'[i].kind = "started" =>
                   \E j \in 1..Len(outer) : outer[j].kind = "started"
  <2>1. Message(kind, 0) \in Messages /\ Message(kind, 0).kind # "started"
    BY MessageFacts, Fields DEF Kinds
  <2> QED
    BY <1>3, <2>1, Queues, AppendFacts
<1>4. CASE outer' = Append(outer, Message("error", 0)) /\ InitTo("exiting")
  BY <1>1, <1>2, <1>3, <1>4, InitEnds, Zenon
<1>5. CASE /\ init' = [init EXCEPT !.captured = TRUE]
           /\ outer' = Append(outer, Message("captured", 0))
  <2>1. /\ init' \in InitRecords /\ init'.pc = "serve" /\ init'.reduced = init.reduced
        /\ init'.n = init.n /\ init'.count = init.count
    BY <1>1, <1>5, Parts, Zenon DEF Types, InitRecords
  <2>2. InitCounts'
    BY <1>1, <2>1, Parts DEF InitCounts
  <2>3. InnerSound'
    BY <1>1, <2>1, Parts, Zenon DEF InnerSound, Waiting
  <2>4. Stages'
    <3>1. guardian.pc \notin {"none"} \cup Learning /\ target # "none"
      BY <1>1, AliveInit, Parts, Zenon DEF Stages
    <3> QED
      BY <1>1, <2>1, <3>1, Parts, Zenon DEF Stages, Prepared
  <2>5. target' \in {"none", "running", "dead"} /\ outer' \in Seq(Messages)
    BY <1>1, <1>3, <1>5, Parts DEF Types
  <2> QED
    BY <1>1, <1>2, <2>1, <2>2, <2>3, <2>4, <2>5, InitStays, Zenon
<1> QED
  BY <1>4, <1>5 DEF InitServe

\* The target dies, by itself or with the namespace.
LEMMA TargetDies ==
    ASSUME LInv, target = "running", target' = "dead",
           UNCHANGED <<inputs, host, guardian, init, ready, down, up, inner, outer>>
    PROVE  LInv'
<1>1. Types'
  BY Parts DEF Types
<1>2. HostCounts' /\ GuardianCounts' /\ InitCounts' /\ UpSound'
  <2>1. HostCounts' /\ GuardianCounts'
    BY Parts, Zenon DEF HostCounts, GuardianCounts
  <2>2. InitCounts' /\ UpSound'
    BY Parts, Zenon DEF InitCounts, UpSound
  <2> QED
    BY <2>1, <2>2
<1>3. DownSound' /\ InnerSound'
  <2>1. (\A i : Said(i)' = Said(i)) /\ Heard' = Heard
    BY DEF Said, Heard, Asked
  <2>2. (\A i : Told(i)' = Told(i)) /\ Taken' = Taken
    BY DEF Told, Taken
  <2>3. DownSound'
    BY <2>1, Parts DEF DownSound, GuardianAlive
  <2>4. InnerSound'
    BY <2>2, Parts DEF InnerSound
  <2> QED
    BY <2>3, <2>4
<1>4. Stages'
  BY Parts, Zenon DEF Stages
<1>5. Closing'
  BY Parts DEF Closing, GuardianAlive, InitAlive
<1> QED
  BY <1>1, <1>2, <1>3, <1>4, <1>5, Zenon DEF LInv

\* The kernel kills the target after the init.
LEMMA EmptyNamespaceKeeps ==
    ASSUME LInv, EmptyNamespace
    PROVE  LInv'
<1>1. CASE target = "running"
  BY <1>1, TargetDies DEF EmptyNamespace
<1>2. CASE target # "running"
  <2>1. /\ init.pc = "exiting" /\ InitAlive /\ InitTo("dead")
        /\ UNCHANGED <<inputs, host, guardian, target, ready, down, up, inner, outer>>
    BY <1>2 DEF EmptyNamespace, InitAlive
  <2>2. /\ init' \in InitRecords /\ init'.pc = "dead" /\ init'.reduced = init.reduced
        /\ init'.n = init.n /\ init'.count = init.count
    BY <2>1, Parts, InitToFacts DEF InitPcs
  <2>3. InitCounts'
    BY <2>1, <2>2, Parts DEF InitCounts, Waiting, Prepared
  <2>4. InnerSound'
    BY <2>1, <2>2, Parts, Zenon DEF InnerSound, Waiting
  <2>5. Stages'
    <3>1. guardian.pc \notin {"none"} \cup Learning
      BY <2>1, AliveInit
    <3> QED
      BY <2>1, <2>2, <3>1, Parts, Zenon DEF Stages, Prepared
  <2>6. target' \in {"none", "running", "dead"} /\ inner' \in Seq(Messages) /\ outer' \in Seq(Messages)
    BY <2>1, Parts, Queues DEF Types
  <2> QED
    BY <2>1, <2>2, <2>3, <2>4, <2>5, <2>6, InitStays
<1> QED
  BY <1>1, <1>2

-----------------------------------------------------------------------------
(* The theorems.                                                           *)

\* Before the launch there is no process and nothing in a socket.
LEMMA InitLInv == Init => LInv
<1> SUFFICES ASSUME Init PROVE LInv
  OBVIOUS
<1>1. /\ host.pc = "idle" /\ host.sent = 0 /\ host.calls = 0 /\ host.requests = 0
      /\ host.channel = 0
      /\ guardian.pc = "none" /\ guardian.n = 0 /\ guardian.request = 0
      /\ guardian.transferred = FALSE
      /\ init.pc = "none" /\ init.n = 0 /\ init.count = 0
      /\ inputs \in Nat /\ MaxCalls \in Nat
  <2>1. inputs \in Nat /\ MaxCalls \in Nat
    <3>1. inputs \in 0..MaxInputs
      BY Zenon DEF Init
    <3> QED
      BY <3>1, IsolationAssumption
  <2>2. /\ host.pc = "idle" /\ host.sent = 0 /\ host.calls = 0 /\ host.requests = 0
        /\ host.channel = 0
    BY Zenon DEF Init
  <2>3. /\ guardian.pc = "none" /\ guardian.n = 0 /\ guardian.request = 0
        /\ guardian.transferred = FALSE
        /\ init.pc = "none" /\ init.n = 0 /\ init.count = 0
    BY Zenon DEF Init
  <2> QED
    BY <2>1, <2>2, <2>3
<1>2. target = "none" /\ ready = "open" /\ down = <<>> /\ up = <<>> /\ inner = <<>> /\ outer = <<>>
  BY Zenon DEF Init
<1>3. Types
  <2>1. host \in HostRecords
    BY Zenon DEF Init, HostRecords, HostPcs
  <2>2. guardian \in GuardianRecords
    BY Zenon DEF Init, GuardianRecords, GuardianPcs
  <2>3. init \in InitRecords
    BY Zenon DEF Init, InitRecords, InitPcs
  <2>4. inputs \in 0..MaxInputs /\ <<>> \in Seq(Messages)
    <3>1. inputs \in 0..MaxInputs
      BY Zenon DEF Init
    <3>2. <<>> \in Seq(Messages)
      BY EmptySeq
    <3> QED
      BY <3>1, <3>2
  <2> QED
    BY <1>2, <2>1, <2>2, <2>3, <2>4 DEF Types
<1>4. HostCounts /\ GuardianCounts /\ InitCounts
  BY <1>1, SMTT(30) DEF HostCounts, GuardianCounts, InitCounts, Leased, Reduced, Serving, Prepared
<1>5. DownSound
  BY <1>1, <1>2 DEF DownSound, GuardianAlive
<1>6. InnerSound
  BY <1>1, <1>2 DEF InnerSound, Taken, Serving
<1>7. Stages
  BY <1>1, <1>2 DEF Stages, Learning, Reduced, Serving, Prepared
<1>8. UpSound /\ Closing
  BY <1>1, <1>2 DEF UpSound, Closing
<1> QED
  BY <1>3, <1>4, <1>5, <1>6, <1>7, <1>8 DEF LInv

\* Every step keeps the invariant.
LEMMA NextLInv == LInv /\ [Next]_vars => LInv'
<1> SUFFICES ASSUME LInv, [Next]_vars PROVE LInv'
  OBVIOUS
<1>1. CASE HostStep
  <2>1. \/ Launch \/ SendDescriptor \/ SendInput \/ ReceiveReady \/ VerifyLaunch
        \/ Abort \/ RequestChannel \/ ReceiveChannel \/ Close \/ DropLease
    BY <1>1, Zenon DEF HostStep
  <2> QED
    BY <2>1, LaunchKeeps, DescriptorKeeps, SendInputKeeps, ReadyKeeps, AbortKeeps, RequestKeeps,
       ReceiveChannelKeeps, CloseKeeps, DropKeeps, Zenon
<1>2. CASE GuardianStep
  BY <1>2, GuardianArmKeeps, ReceiveLaunchKeeps, SpawnKeeps, GuardianDropKeeps, HandshakeKeeps,
     GuardianReadyKeeps, ServeKeeps, TransferKeeps, GivesUpKeeps, Zenon DEF GuardianStep
<1>3. CASE InitStep
  BY <1>3, InitArmKeeps, ReceiveGoKeeps, SetupKeeps, SendStartedKeeps, InitServeKeeps,
     InitGivesUpKeeps, Zenon DEF InitStep
<1>4. CASE Kernel
  BY <1>4, GivesUpKeeps, InitGivesUpKeeps, EmptyNamespaceKeeps, Zenon DEF Kernel
<1>5. CASE TargetExits
  BY <1>5, TargetDies, Zenon DEF TargetExits
<1>6. CASE UNCHANGED vars
  <2>1. UNCHANGED <<inputs, host, guardian, init, target, ready, down, up, inner, outer>>
    BY <1>6, Zenon DEF vars
  <2>2. Types' /\ HostCounts'
    BY <2>1, Parts, Zenon DEF Types, HostCounts
  <2>3. GuardianCounts' /\ InitCounts'
    BY <2>1, Parts, Zenon DEF GuardianCounts, InitCounts
  <2>4. DownSound'
    <3>1. (\A i : Said(i)' = Said(i)) /\ Heard' = Heard
      BY <2>1 DEF Said, Heard, Asked
    <3> QED
      BY <2>1, <3>1, Parts, Zenon DEF DownSound, GuardianAlive
  <2>5. InnerSound'
    <3>1. (\A i : Told(i)' = Told(i)) /\ Taken' = Taken
      BY <2>1 DEF Told, Taken
    <3> QED
      BY <2>1, <3>1, Parts DEF InnerSound
  <2>6. Stages'
    BY <2>1, Parts, Zenon DEF Stages
  <2>7. UpSound' /\ Closing'
    BY <2>1, Parts, Zenon DEF UpSound, Closing, GuardianAlive, InitAlive
  <2> QED
    BY <2>2, <2>3, <2>4, <2>5, <2>6, <2>7, Zenon DEF LInv
<1> QED
  BY <1>1, <1>2, <1>3, <1>4, <1>5, <1>6, StopKeeps, Zenon DEF Next

\* The launch protocol of linux.rs and linux_helper.rs keeps its sockets, its
\* phases and its privileges in step, for any number of inputs and calls.
THEOREM LaunchInvariant == Spec => []LInv
  BY InitLInv, NextLInv, PTL DEF Spec

\* A target runs only behind two processes that dropped their privileges and
\* with exactly the inputs the host sent; READY stands for such a target
\* (linux_helper.rs:147-165, 308-320).
THEOREM TargetConfinedTheorem == Spec => []TargetConfined
<1>1. LInv => TargetConfined
  <2> SUFFICES ASSUME LInv PROVE TargetConfined
    OBVIOUS
  <2>1. /\ inputs \in 0..MaxInputs
        /\ host.sent \in 0..inputs /\ host.requests \in 0..MaxCalls
        /\ host.calls \in 0..MaxCalls
        /\ guardian.n \in 0..MaxInputs /\ guardian.request \in 0..(MaxInputs + MaxCalls)
        /\ init.n \in 0..init.count /\ init.count \in 0..MaxInputs
    <3>1. inputs \in 0..MaxInputs
      BY Fields
    <3>2. host.sent <= inputs /\ host.calls <= MaxCalls /\ host.requests <= host.calls
      BY Parts, Zenon DEF HostCounts
    <3>3. guardian.n <= inputs /\ guardian.request <= inputs + MaxCalls
      BY Parts, Zenon DEF GuardianCounts
    <3>4. init.n <= init.count /\ init.count <= inputs
      BY Parts, Zenon DEF InitCounts
    <3> QED
      BY <3>1, <3>2, <3>3, <3>4, Fields
  <2>2. host.channel \in 0..MaxCalls
    BY <2>1, Parts, Fields DEF UpSound
  <2>3. \A queue \in {down, up, inner, outer} : queue \in Seq(Messages)
    BY Queues, Zenon
  <2>4. target \in {"none", "running", "dead"} /\ ready \in {"open", "ready", "error"}
    BY Parts DEF Types
  <2>5. TypeOK
    BY <2>1, <2>2, <2>3, <2>4, Zenon DEF TypeOK, Messages, Kinds
  <2>6. /\ target # "none" => guardian.reduced /\ init.reduced /\ init.n = inputs
        /\ ready = "ready" => target # "none" /\ init.pc \in {"serve", "exiting", "dead"}
    BY Parts, Zenon DEF Stages
  <2> QED
    BY <2>5, <2>6 DEF TargetConfined
<1> QED
  BY <1>1, LaunchInvariant, PTL

\* A lease that reports it is closed has outlived the guardian, the target and
\* the namespace init (linux.rs:418-427).
THEOREM CloseMeansGoneTheorem == Spec => []CloseMeansGone
<1>1. LInv => CloseMeansGone
  BY DEF LInv, Closing, CloseMeansGone
<1> QED
  BY <1>1, LaunchInvariant, PTL

\* A channel answers the request it is returned for, and a lease never has two
\* requests or two answers on the way (linux.rs:368-371,
\* linux_helper_channel.rs:44-50).
THEOREM ChannelAnswersRequestTheorem == Spec => []ChannelAnswersRequest
<1>1. LInv => ChannelAnswersRequest
  BY DEF LInv, UpSound, ChannelAnswersRequest
<1> QED
  BY <1>1, LaunchInvariant, PTL

-----------------------------------------------------------------------------
(* The conversations inside the helper, to their end.                      *)

\* What the init has to say, how much of it the guardian has heard, and how
\* much was said.
Reply(i) == IF i = 1 THEN Message("armed", 0)
            ELSE IF i = 2 THEN Message("started", 0)
            ELSE Message("captured", 0)

Understood == IF guardian.pc \in {"forward", "started"} THEN 1
              ELSE IF guardian.transferred THEN 3
              ELSE IF guardian.pc \in Serving THEN 2 ELSE 0

Replied == IF init.pc \in {"go", "inputs", "spawn", "started"} THEN 1
           ELSE IF init.pc = "serve" THEN IF init.captured THEN 3 ELSE 2
           ELSE 0

OuterSound ==
    GuardianAlive =>
      /\ Len(outer) + Understood <= 3
      /\ \A i \in 1..Len(outer) : outer[i] = Reply(Understood + i)
      /\ init.pc \notin {"exiting", "dead"} => Len(outer) + Understood = Replied

\* What the guardian says after the inputs.
CaptureAsked == guardian.pc = "captured" \/ guardian.transferred

CaptureSound ==
    /\ init.captured => init.pc \in {"serve", "exiting", "dead"}
    /\ init.pc \in {"none", "inputs"} \cup Waiting => Len(inner) + Taken <= 1 + inputs
    /\ init.pc \in Prepared =>
          /\ inner # <<>> => inner = <<Message("capture", 0)>> /\ ~init.captured
          /\ GuardianAlive =>
                /\ guardian.pc \in {"forward", "started"} \cup Serving
                /\ guardian.pc = "forward" => guardian.request = inputs
                /\ (inner # <<>> \/ init.captured) <=> CaptureAsked

\* The invariant LInv, strengthened by both.
EInv == LInv /\ OuterSound /\ CaptureSound

\* Whoever reads from one of the sockets finds the message it waits for, with
\* the number it expects: the descriptor, the inputs and one CONNECT from the
\* host, GO, the inputs and one CAPTURE from the guardian, ARMED, TARGET_STARTED
\* and the capture from the init.  So the refusals of another message answer a
\* timeout, a closed socket or a foreign sender, and never an order of steps of
\* the three processes (linux_helper.rs:179-237, 322-396,
\* linux_helper_channel.rs:39-50, 170-234).
EveryMessageExpected ==
    /\ down # <<>> =>
          /\ guardian.pc = "launch" => Head(down) = Message("launch", inputs)
          /\ guardian.pc = "input" /\ guardian.n < guardian.request =>
                Head(down) = Message("input", guardian.n + 1)
          /\ guardian.pc = "serve" =>
                ~guardian.transferred /\ Head(down) = Message("connect", host.requests)
    /\ inner # <<>> =>
          /\ init.pc = "go" => Head(inner) = Message("go", inputs)
          /\ init.pc = "inputs" =>
                init.n < init.count /\ Head(inner) = Message("input", init.n + 1)
          /\ init.pc = "serve" => ~init.captured /\ Head(inner) = Message("capture", 0)
    /\ outer # <<>> =>
          /\ guardian.pc = "armed" => Head(outer) = Message("armed", 0)
          /\ guardian.pc = "started" => Head(outer) = Message("started", 0)
          /\ guardian.pc = "captured" => Head(outer) = Message("captured", 0)

\* The processes of a launch are started once and end once: no step brings one
\* back, and the target never runs a second time (linux.rs:418-427 waits for
\* each of them in turn and does not look at the earlier ones again).
NoneComesBack ==
    [][/\ guardian.pc = "dead" => guardian'.pc = "dead"
       /\ init.pc = "dead" => init'.pc = "dead"
       /\ target # "none" => target' # "none"
       /\ target = "dead" => target' = "dead"]_vars

\* Once close has reported success, guardian, init and target are gone for good,
\* whatever the host and the kernel do afterwards (linux.rs:418-427).
ClosedForGood ==
    [](host.pc = "closed" => [](~GuardianAlive /\ ~InitAlive /\ target = "dead"))
-----------------------------------------------------------------------------
(* What a step does to the answers of the init.                            *)

\* The parts of the strengthened invariant.
LEMMA EParts ==
    ASSUME EInv
    PROVE  LInv /\ OuterSound /\ CaptureSound
  BY DEF EInv

\* How far the two have come is a number.
LEMMA ReplyCounts ==
    /\ Understood \in 0..3 /\ Replied \in 0..3
  BY DEF Understood, Replied, Reply

\* Nothing said and nothing heard.
LEMMA OuterSame ==
    ASSUME EInv, outer' = outer,
           GuardianAlive' => GuardianAlive /\ Understood' = Understood,
           GuardianAlive' /\ init'.pc \notin {"exiting", "dead"} =>
              init.pc \notin {"exiting", "dead"} /\ Replied' = Replied
    PROVE  OuterSound'
  BY EParts, ReplyCounts DEF OuterSound

\* The guardian hears the next answer.
LEMMA OuterHeard ==
    ASSUME EInv, outer # <<>>, outer' = Tail(outer), GuardianAlive,
           Understood' = Understood + 1, init' = init
    PROVE  OuterSound'
<1>1. /\ Len(outer') = Len(outer) - 1 /\ Len(outer) \in Nat /\ Len(outer) >= 1
      /\ \A i \in 1..Len(outer') : outer'[i] = outer[i + 1]
  BY EParts, Queues, TailFacts
<1>2. /\ Len(outer) + Understood <= 3
      /\ \A i \in 1..Len(outer) : outer[i] = Reply(Understood + i)
      /\ init.pc \notin {"exiting", "dead"} => Len(outer) + Understood = Replied
  BY EParts DEF OuterSound
<1>3. Replied' = Replied
  BY Zenon DEF Replied
<1>4. \A i \in 1..Len(outer') : outer'[i] = Reply(Understood' + i)
  <2> SUFFICES ASSUME NEW i \in 1..Len(outer') PROVE outer'[i] = Reply(Understood' + i)
    OBVIOUS
  <2>1. i + 1 \in 1..Len(outer) /\ Understood + (i + 1) = Understood' + i
    BY <1>1, ReplyCounts
  <2>2. outer'[i] = Reply(Understood + (i + 1))
    BY <1>1, <1>2, <2>1, Zenon
  <2> QED
    BY <2>1, <2>2, ReplyCounts
<1>5. Len(outer') + Understood' = Len(outer) + Understood
  BY <1>1, ReplyCounts
<1> QED
  BY <1>2, <1>3, <1>4, <1>5 DEF OuterSound

\* The init says the next answer.
LEMMA OuterSaid ==
    ASSUME EInv, init.pc \notin {"exiting", "dead"}, guardian' = guardian,
           Replied < 3, outer' = Append(outer, Reply(Replied + 1)),
           Replied' = Replied + 1
    PROVE  OuterSound'
<1> SUFFICES ASSUME GuardianAlive
             PROVE  /\ Len(outer') + Understood' <= 3
                    /\ \A i \in 1..Len(outer') : outer'[i] = Reply(Understood' + i)
                    /\ Len(outer') + Understood' = Replied'
  <2>1. GuardianAlive' => GuardianAlive
    BY Zenon DEF GuardianAlive
  <2> QED
    BY <2>1 DEF OuterSound
<1>1. Reply(Replied + 1) \in Messages
  <2>1. 0 \in 0..(MaxInputs + MaxCalls)
    BY EParts, Fields
  <2>2. Reply(Replied + 1) \in {Message("armed", 0), Message("started", 0), Message("captured", 0)}
    BY DEF Reply
  <2> QED
    BY <2>1, <2>2, MessageFacts DEF Kinds
<1>2. /\ Len(outer') = Len(outer) + 1 /\ Len(outer) \in Nat
      /\ outer'[Len(outer) + 1] = Reply(Replied + 1)
      /\ \A i \in 1..Len(outer) : outer'[i] = outer[i]
  BY <1>1, EParts, Queues, AppendFacts
<1>3. /\ Len(outer) + Understood = Replied
      /\ \A i \in 1..Len(outer) : outer[i] = Reply(Understood + i)
  BY EParts DEF OuterSound
<1>4. Understood' = Understood
  BY Zenon DEF Understood
<1>5. \A i \in 1..Len(outer') : outer'[i] = Reply(Understood' + i)
  <2> SUFFICES ASSUME NEW i \in 1..Len(outer') PROVE outer'[i] = Reply(Understood + i)
    BY <1>4
  <2>1. CASE i \in 1..Len(outer)
    BY <1>2, <1>3, <2>1
  <2>2. CASE i = Len(outer) + 1
    <3>1. Understood + i = Replied + 1
      BY <1>2, <1>3, <2>2, ReplyCounts
    <3> QED
      BY <1>2, <2>2, <3>1
  <2> QED
    BY <1>2, <2>1, <2>2
<1> QED
  BY <1>2, <1>3, <1>4, <1>5, ReplyCounts

-----------------------------------------------------------------------------
(* Steps that keep both conversations in step.                             *)

Conversations == OuterSound /\ CaptureSound

\* What the invariant says of a request for the captured output.
LEMMA Transferred ==
    ASSUME EInv
    PROVE  guardian.transferred => guardian.pc \in {"serve", "dead"}
  BY EParts, Parts DEF Stages

\* A step that concerns neither process of the helper.
LEMMA CalmKeeps ==
    ASSUME EInv, UNCHANGED <<inputs, guardian, init, inner, outer>>
    PROVE  Conversations'
<1>1. Understood' = Understood /\ Replied' = Replied /\ GuardianAlive' = GuardianAlive
      /\ Taken' = Taken /\ CaptureAsked' = CaptureAsked
  BY Zenon DEF Understood, Replied, GuardianAlive, Taken, CaptureAsked
<1>2. OuterSound'
  BY <1>1, OuterSame
<1>3. CaptureSound'
  BY <1>1, EParts DEF CaptureSound
<1> QED
  BY <1>2, <1>3 DEF Conversations

\* The guardian comes to its end.
LEMMA GuardianGone ==
    ASSUME EInv, guardian'.pc = "dead", UNCHANGED <<inputs, init, inner, outer>>
    PROVE  Conversations'
<1>1. ~GuardianAlive' /\ Taken' = Taken
  BY Zenon DEF GuardianAlive, Taken
<1>2. OuterSound'
  BY <1>1 DEF OuterSound
<1>3. CaptureSound'
  BY <1>1, EParts DEF CaptureSound
<1> QED
  BY <1>2, <1>3 DEF Conversations

\* The init comes to its end, in one step or two, and says nothing to a
\* guardian that could hear it.
LEMMA InitGone ==
    ASSUME EInv, init'.pc \in {"exiting", "dead"},
           UNCHANGED guardian, outer' = outer \/ ~GuardianAlive
    PROVE  Conversations'
<1>1. GuardianAlive' = GuardianAlive /\ Understood' = Understood
  BY Zenon DEF GuardianAlive, Understood
<1>2. OuterSound'
  <2>1. CASE ~GuardianAlive
    BY <1>1, <2>1 DEF OuterSound
  <2>2. CASE outer' = outer
    BY <1>1, <2>2, OuterSame
  <2> QED
    BY <2>1, <2>2
<1>3. CaptureSound'
  BY DEF CaptureSound, Waiting, Prepared
<1> QED
  BY <1>2, <1>3 DEF Conversations

\* The guardian before there is an init.
LEMMA LearningKeeps ==
    ASSUME EInv, guardian.pc \in {"none"} \cup Learning, guardian'.pc \in Learning,
           guardian'.transferred = guardian.transferred,
           UNCHANGED <<inputs, init, inner, outer>>
    PROVE  Conversations'
<1>1. init.pc = "none" /\ outer = <<>> /\ inner = <<>> /\ ~guardian.transferred
  BY EParts, Parts, Transferred DEF Stages, Learning
<1>2. Understood' = 0 /\ Replied' = 0 /\ Taken' = Taken /\ Len(outer') = 0
  BY <1>1 DEF Understood, Replied, Taken, Learning, Serving
<1>3. OuterSound'
  BY <1>2 DEF OuterSound
<1>4. CaptureSound'
  BY <1>1, <1>2, EParts DEF CaptureSound, Prepared
<1> QED
  BY <1>3, <1>4 DEF Conversations

-----------------------------------------------------------------------------
(* Steps of the host and of the guardian.                                  *)

\* The launch starts the guardian; nothing else of the host reaches further
\* than the guardian's socket.
LEMMA HostTalks ==
    ASSUME EInv, HostStep
    PROVE  Conversations'
<1>1. CASE /\ host.pc = "idle" /\ guardian' = [guardian EXCEPT !.pc = "arm"]
           /\ UNCHANGED <<inputs, init, inner, outer>>
  <2>1. guardian.pc = "none" /\ guardian \in GuardianRecords
    BY <1>1, EParts, Parts DEF Stages, Types
  <2>2. guardian'.pc = "arm" /\ guardian'.transferred = guardian.transferred
    BY <1>1, <2>1, Zenon DEF GuardianRecords
  <2> QED
    BY <1>1, <2>1, <2>2, LearningKeeps DEF Learning
<1>2. CASE UNCHANGED <<inputs, guardian, init, inner, outer>>
  BY <1>2, CalmKeeps
<1> QED
  BY <1>1, <1>2, Zenon DEF HostStep, Launch, SendDescriptor, SendInput, ReceiveReady, VerifyLaunch,
     Abort, Terminate, RequestChannel, ReceiveChannel, Close, DropLease, HostOnly

\* Arming, the descriptor and the inputs come before there is an init.
LEMMA GuardianLearns ==
    ASSUME EInv, GuardianArm \/ GuardianReceiveLaunch
    PROVE  Conversations'
<1>1. guardian \in GuardianRecords
  BY EParts, Parts DEF Types
<1>2. /\ guardian.pc \in Learning /\ guardian'.pc \in Learning
      /\ guardian'.transferred = guardian.transferred
      /\ UNCHANGED <<inputs, init, inner, outer>>
  BY <1>1, Zenon DEF GuardianArm, GuardianReceiveLaunch, GuardianOnly, GuardianRecords, Learning
<1> QED
  BY <1>2, LearningKeeps

\* Stage two is there and has said nothing.
LEMMA SpawnTalks ==
    ASSUME EInv, GuardianSpawn
    PROVE  Conversations'
<1>1. guardian.pc = "input" /\ init.pc = "none" /\ outer = <<>> /\ inner = <<>>
  BY EParts, Parts, Zenon DEF GuardianSpawn, Stages, Learning
<1>2. /\ guardian'.pc = "drop" /\ guardian'.transferred = guardian.transferred
  BY EParts, Parts, GuardianToFacts DEF GuardianSpawn, GuardianPcs
<1>3. init'.pc = "arm" /\ init'.captured = init.captured
      /\ UNCHANGED <<inputs, inner, outer>>
  BY EParts, Parts, Zenon DEF GuardianSpawn, Types, InitRecords
<1>4. ~init.captured /\ ~guardian.transferred
  BY <1>1, EParts, Transferred DEF CaptureSound
<1>5. Understood' = 0 /\ Replied' = 0 /\ Taken' = 0 /\ Len(outer') = 0 /\ Len(inner') = 0
  BY <1>1, <1>2, <1>3, <1>4 DEF Understood, Replied, Taken, Serving
<1>6. OuterSound'
  BY <1>5 DEF OuterSound
<1>7. CaptureSound'
  BY <1>1, <1>3, <1>4, <1>5, EParts, Fields DEF CaptureSound, Prepared
<1> QED
  BY <1>6, <1>7 DEF Conversations

\* A guardian that has not heard from an init has none that is prepared.
LEMMA EarlyGuardian ==
    ASSUME EInv, guardian.pc \in {"drop", "armed"}
    PROVE  init.pc \notin Prepared /\ ~guardian.transferred
  BY EParts, Transferred DEF CaptureSound, GuardianAlive, Serving

\* Privileges are dropped before anything is said.
LEMMA DropTalks ==
    ASSUME EInv, GuardianDrop
    PROVE  Conversations'
<1>1. /\ guardian.pc = "drop" /\ guardian'.pc = "armed"
      /\ guardian'.transferred = guardian.transferred
      /\ UNCHANGED <<inputs, init, inner, outer>>
  BY EParts, Parts, Zenon DEF GuardianDrop, GuardianOnly, Types, GuardianRecords
<1>2. /\ Understood' = Understood /\ Replied' = Replied /\ GuardianAlive /\ Taken' = Taken
      /\ init.pc \notin Prepared
  BY <1>1, EarlyGuardian DEF Understood, Replied, GuardianAlive, Taken, Serving
<1>3. OuterSound'
  BY <1>1, <1>2, OuterSame
<1>4. CaptureSound'
  BY <1>1, <1>2, EParts DEF CaptureSound
<1> QED
  BY <1>3, <1>4 DEF Conversations

\* ARMED is heard and answered by GO and the inputs.
LEMMA HandshakeTalks ==
    ASSUME EInv, GuardianHandshake, LInv'
    PROVE  Conversations'
<1>1. guardian \in GuardianRecords /\ UNCHANGED <<inputs, init>> /\ inputs \in Nat
      /\ guardian.n \in Nat /\ guardian.request \in Nat
  BY EParts, Parts, Fields DEF Types, GuardianHandshake
<1>2. Replied' = Replied /\ Taken' = Taken /\ Taken \in Nat
  BY <1>1, EParts, Fields DEF Replied, Taken
<1>3. CASE guardian.pc = "armed" /\ FromInit("armed") /\ outer' = Tail(outer)
           /\ guardian' = [guardian EXCEPT !.pc = "forward", !.request = 0]
  <2>1. guardian'.pc = "forward" /\ guardian'.request = 0
        /\ guardian'.transferred = guardian.transferred
    BY <1>1, <1>3, Zenon DEF GuardianRecords
  <2>2. ~guardian.transferred /\ init.pc \notin Prepared
    BY <1>3, EarlyGuardian
  <2>3. Understood = 0 /\ Understood' = 1 /\ GuardianAlive
    BY <1>3, <2>1, <2>2 DEF Understood, GuardianAlive, Serving
  <2>4. OuterSound'
    BY <1>1, <1>3, <2>3, OuterHeard DEF FromInit
  <2>5. init.pc \in {"none", "inputs"} \cup Waiting => Len(inner') + Taken' = 1
    BY <1>1, <2>1 DEF LInv, InnerSound
  <2>6. CaptureSound'
    BY <1>1, <2>2, <2>5, EParts DEF CaptureSound
  <2> QED
    BY <2>4, <2>6 DEF Conversations
<1>4. CASE /\ guardian.pc = "forward" /\ guardian.request < guardian.n
           /\ guardian' = [guardian EXCEPT !.request = @ + 1] /\ UNCHANGED outer
  <2>1. guardian'.pc = "forward" /\ guardian'.request = guardian.request + 1
        /\ guardian'.transferred = guardian.transferred
    BY <1>1, <1>4, Zenon DEF GuardianRecords
  <2>2. guardian.n = inputs
    BY <1>4, EParts, Parts DEF GuardianCounts, Reduced
  <2>3. init.pc \notin Prepared
    BY <1>1, <1>4, <2>2, EParts DEF CaptureSound, GuardianAlive
  <2>4. Understood' = Understood /\ GuardianAlive
    BY <1>4, <2>1 DEF Understood, GuardianAlive
  <2>5. OuterSound'
    BY <1>1, <1>2, <1>4, <2>4, OuterSame
  <2>6. init.pc \in {"none", "inputs"} \cup Waiting => Len(inner') + Taken' = 2 + guardian.request
    BY <1>1, <2>1 DEF LInv, InnerSound
  <2>7. init.pc \in {"none", "inputs"} \cup Waiting => Len(inner') + Taken' <= 1 + inputs
    BY <1>1, <1>4, <2>2, <2>6
  <2>8. CaptureSound'
    BY <1>1, <2>3, <2>7, EParts DEF CaptureSound
  <2> QED
    BY <2>5, <2>8 DEF Conversations
<1>5. CASE guardian.pc = "forward" /\ GuardianTo("started") /\ UNCHANGED <<inner, outer>>
  <2>1. guardian'.pc = "started" /\ guardian'.transferred = guardian.transferred
    BY <1>5, EParts, Parts, GuardianToFacts DEF GuardianPcs, Reduced
  <2>2. Understood' = Understood /\ GuardianAlive /\ CaptureAsked' = CaptureAsked
    BY <1>5, <2>1 DEF Understood, GuardianAlive, CaptureAsked
  <2>3. OuterSound'
    BY <1>1, <1>2, <1>5, <2>2, OuterSame
  <2>4. CaptureSound'
    BY <1>1, <1>2, <1>5, <2>1, <2>2, EParts DEF CaptureSound
  <2> QED
    BY <2>3, <2>4 DEF Conversations
<1> QED
  BY <1>3, <1>4, <1>5 DEF GuardianHandshake

\* TARGET_STARTED is heard.
LEMMA ReadyTalks ==
    ASSUME EInv, GuardianReady
    PROVE  Conversations'
<1>1. /\ guardian.pc = "started" /\ guardian'.pc = "serve" /\ outer # <<>>
      /\ guardian'.transferred = guardian.transferred
      /\ outer' = Tail(outer) /\ UNCHANGED <<inputs, init, inner>>
  BY EParts, Parts, GuardianToFacts DEF GuardianReady, FromInit, GuardianPcs, Reduced, Serving
<1>2. ~guardian.transferred
  BY <1>1, Transferred
<1>3. Understood' = 2 /\ Understood = 1 /\ GuardianAlive /\ Taken' = Taken
      /\ CaptureAsked' = CaptureAsked
  BY <1>1, <1>2 DEF Understood, GuardianAlive, Taken, CaptureAsked, Serving
<1>4. OuterSound'
  BY <1>1, <1>3, OuterHeard
<1>5. CaptureSound'
  BY <1>1, <1>3, EParts DEF CaptureSound, Serving
<1> QED
  BY <1>4, <1>5 DEF Conversations

\* A CONNECT is served or ends the guardian.
LEMMA ServeTalks ==
    ASSUME EInv, GuardianServe
    PROVE  Conversations'
<1>1. UNCHANGED <<inputs, init, inner, outer>> /\ guardian.pc = "serve"
  BY DEF GuardianServe
<1>2. CASE /\ ~guardian.transferred
           /\ guardian' = [guardian EXCEPT !.pc = "connect", !.request = Head(down).n]
  <2>1. guardian'.pc = "connect" /\ guardian'.transferred = guardian.transferred
    BY <1>2, EParts, Parts, Zenon DEF Types, GuardianRecords
  <2>2. /\ Understood' = Understood /\ Replied' = Replied /\ GuardianAlive /\ Taken' = Taken
        /\ CaptureAsked' = CaptureAsked
    BY <1>1, <1>2, <2>1 DEF Understood, Replied, GuardianAlive, Taken, CaptureAsked, Serving
  <2>3. OuterSound'
    BY <1>1, <2>2, OuterSame
  <2>4. CaptureSound'
    BY <1>1, <2>1, <2>2, EParts DEF CaptureSound, Serving
  <2> QED
    BY <2>3, <2>4 DEF Conversations
<1>3. CASE GuardianTo("dead")
  <2>1. guardian'.pc = "dead"
    BY <1>3, EParts, Parts, GuardianToFacts DEF GuardianPcs
  <2> QED
    BY <1>1, <2>1, GuardianGone
<1> QED
  BY <1>2, <1>3 DEF GuardianServe

\* A message in an empty socket.
LEMMA OneMessage ==
    ASSUME NEW m
    PROVE  Append(<<>>, m) = <<m>> /\ <<m>> # <<>> /\ Head(<<m>>) = m /\ Tail(<<m>>) = <<>>
  OBVIOUS

\* CAPTURE is asked for once, and its answer heard.
LEMMA TransferTalks ==
    ASSUME EInv, GuardianTransfer
    PROVE  Conversations'
<1>1. UNCHANGED <<inputs, init>> /\ guardian \in GuardianRecords
  BY EParts, Parts DEF GuardianTransfer, Types
<1>2. CASE /\ guardian.pc = "connect" /\ GuardianTo("captured")
           /\ inner' = Append(inner, Message("capture", 0)) /\ UNCHANGED outer
  <2>1. guardian'.pc = "captured" /\ guardian'.transferred = guardian.transferred
    BY <1>2, EParts, Parts, GuardianToFacts DEF GuardianPcs, Reduced, Serving
  <2>2. ~guardian.transferred /\ GuardianAlive /\ GuardianAlive'
    BY <1>2, <2>1, Transferred DEF GuardianAlive
  <2>3. Understood' = Understood /\ Replied' = Replied
    BY <1>1, <1>2, <2>1 DEF Understood, Replied, Serving
  <2>4. init.pc \notin {"none", "inputs"} \cup Waiting
    BY <1>2, EParts, Parts DEF InnerSound, Serving
  <2>5. init.pc \in Prepared => inner = <<>> /\ ~init.captured
    BY <1>2, <2>2, EParts DEF CaptureSound, CaptureAsked
  <2>6. init.pc \in Prepared => inner' = <<Message("capture", 0)>> /\ inner' # <<>>
    BY <1>2, <2>5, OneMessage, Zenon
  <2>7. OuterSound'
    BY <1>1, <1>2, <2>2, <2>3, OuterSame
  <2>8. CaptureSound'
    BY <1>1, <2>1, <2>4, <2>5, <2>6, EParts DEF CaptureSound, CaptureAsked, Serving
  <2> QED
    BY <2>7, <2>8 DEF Conversations
<1>3. CASE /\ guardian.pc = "captured" /\ FromInit("captured") /\ outer' = Tail(outer)
           /\ guardian' = [guardian EXCEPT !.pc = "serve", !.transferred = TRUE]
           /\ UNCHANGED inner
  <2>1. guardian'.pc = "serve" /\ guardian'.transferred = TRUE
    BY <1>1, <1>3, Zenon DEF GuardianRecords
  <2>2. ~guardian.transferred
    BY <1>3, Transferred
  <2>3. Understood = 2 /\ Understood' = 3 /\ GuardianAlive /\ Taken' = Taken
        /\ CaptureAsked /\ CaptureAsked'
    BY <1>1, <1>3, <2>1, <2>2 DEF Understood, GuardianAlive, Taken, CaptureAsked, Serving
  <2>4. OuterSound'
    BY <1>1, <1>3, <2>3, OuterHeard DEF FromInit
  <2>5. CaptureSound'
    BY <1>1, <1>3, <2>1, <2>3, EParts DEF CaptureSound, Serving
  <2> QED
    BY <2>4, <2>5 DEF Conversations
<1>4. CASE GuardianTo("dead") /\ UNCHANGED <<inner, outer>>
  <2>1. guardian'.pc = "dead"
    BY <1>4, EParts, Parts, GuardianToFacts DEF GuardianPcs
  <2> QED
    BY <1>1, <1>4, <2>1, GuardianGone
<1> QED
  BY <1>2, <1>3, <1>4 DEF GuardianTransfer

\* The guardian gives up or is killed.
LEMMA GuardianEndTalks ==
    ASSUME EInv, GuardianGivesUp \/ KillGuardian
    PROVE  Conversations'
<1>1. GuardianTo("dead") /\ UNCHANGED <<inputs, init, inner, outer>>
  BY DEF GuardianGivesUp, GuardianFails, KillGuardian, GuardianOnly
<1>2. guardian'.pc = "dead"
  BY <1>1, EParts, Parts, GuardianToFacts DEF GuardianPcs
<1> QED
  BY <1>1, <1>2, GuardianGone

-----------------------------------------------------------------------------
(* Steps of the init.                                                      *)

\* Stage two arms its death signal.
LEMMA InitArmTalks ==
    ASSUME EInv, InitArm
    PROVE  Conversations'
<1>1. /\ init.pc = "arm" /\ init'.pc = "armed" /\ init'.captured = init.captured
      /\ UNCHANGED <<inputs, guardian, inner, outer>>
  BY EParts, Parts, Zenon DEF InitArm, InitOnly, Types, InitRecords
<1>2. /\ Understood' = Understood /\ Replied' = Replied /\ GuardianAlive' = GuardianAlive
      /\ Taken' = 0 /\ Taken = 0
  BY <1>1 DEF Understood, Replied, GuardianAlive, Taken
<1>3. OuterSound'
  BY <1>1, <1>2, OuterSame
<1>4. CaptureSound'
  BY <1>1, <1>2, EParts DEF CaptureSound, Waiting, Prepared
<1> QED
  BY <1>3, <1>4 DEF Conversations

\* ARMED is said.
LEMMA SendArmedTalks ==
    ASSUME EInv, InitSendArmed
    PROVE  Conversations'
<1>1. /\ init.pc = "armed" /\ init'.pc = "go" /\ init'.captured = init.captured
      /\ outer' = Append(outer, Message("armed", 0))
      /\ UNCHANGED <<inputs, guardian, inner>>
  BY EParts, Parts, InitToFacts DEF InitSendArmed, InitPcs, Waiting
<1>2. Replied = 0 /\ Replied' = 1 /\ Taken' = 0 /\ Taken = 0
  BY <1>1 DEF Replied, Taken
<1>3. Reply(Replied + 1) = Message("armed", 0)
  BY <1>2 DEF Reply
<1>4. OuterSound'
  BY <1>1, <1>2, <1>3, OuterSaid
<1>5. CaptureSound'
  BY <1>1, <1>2, EParts DEF CaptureSound, Waiting, Prepared
<1> QED
  BY <1>4, <1>5 DEF Conversations

\* GO and the inputs are heard.
LEMMA ReceiveGoTalks ==
    ASSUME EInv, InitReceiveGo \/ InitReceiveInput
    PROVE  Conversations'
<1>1. inner # <<>> /\ inner' = Tail(inner) /\ UNCHANGED <<inputs, guardian, outer>>
      /\ init \in InitRecords
  BY EParts, Parts DEF InitReceiveGo, InitReceiveInput, Types
<1>2. Len(inner') = Len(inner) - 1 /\ Len(inner) \in Nat
  BY <1>1, EParts, Queues, TailFacts
<1>3. /\ init.pc \in {"go", "inputs"} /\ init'.pc = "inputs"
      /\ init'.captured = init.captured
      /\ init.pc = "go" => init'.n = init.n /\ init.n = 0
      /\ init.pc = "inputs" => init'.n = init.n + 1
  <2>1. init.pc = "go" => init.n = 0
    BY EParts, Parts DEF InitCounts, Waiting
  <2> QED
    BY <1>1, <2>1, Zenon DEF InitReceiveGo, InitReceiveInput, InitRecords
<1>4. /\ Understood' = Understood /\ Replied' = Replied /\ GuardianAlive' = GuardianAlive
      /\ Taken' = Taken + 1 /\ Taken \in Nat
  <2>1. Understood' = Understood /\ GuardianAlive' = GuardianAlive
    BY <1>1, Zenon DEF Understood, GuardianAlive
  <2>2. Replied' = Replied
    BY <1>3 DEF Replied
  <2>3. init.n \in Nat /\ Taken' = 1 + init'.n
    BY <1>3, EParts, Fields DEF Taken
  <2>4. CASE init.pc = "go"
    BY <1>3, <2>1, <2>2, <2>3, <2>4 DEF Taken
  <2>5. CASE init.pc = "inputs"
    BY <1>3, <2>1, <2>2, <2>3, <2>5 DEF Taken
  <2> QED
    BY <1>3, <2>4, <2>5
<1>5. OuterSound'
  BY <1>1, <1>3, <1>4, OuterSame
<1>6. Len(inner') + Taken' <= 1 + inputs'
  BY <1>1, <1>2, <1>3, <1>4, EParts, Fields DEF CaptureSound, Waiting
<1>7. CaptureSound'
  BY <1>3, <1>6, EParts DEF CaptureSound, Prepared
<1> QED
  BY <1>5, <1>7 DEF Conversations

\* All inputs are there, so all that was said was heard.
LEMMA SetupTalks ==
    ASSUME EInv, InitSetup
    PROVE  Conversations'
<1>1. /\ init.pc = "inputs" /\ init.n = init.count
      /\ init'.pc = "spawn" /\ init'.captured = init.captured
      /\ UNCHANGED <<inputs, guardian, inner, outer>>
  BY EParts, Parts, Zenon DEF InitSetup, InitOnly, Types, InitRecords
<1>2. Taken = 1 + inputs /\ Len(inner) \in Nat /\ inputs \in Nat
  BY <1>1, EParts, Parts, Fields, Queues DEF InitCounts, Taken
<1>3. inner = <<>> /\ Len(inner) = 0
  BY <1>1, <1>2, EParts, Queues DEF CaptureSound
<1>4. ~init.captured
  BY <1>1, EParts DEF CaptureSound
<1>5. GuardianAlive => /\ guardian.pc \in {"forward", "started"}
                       /\ guardian.pc = "forward" => guardian.request = inputs
  <2>1. guardian.pc \in GuardianPcs /\ guardian.request \in Nat
    BY EParts, Parts, Fields DEF Types, GuardianRecords
  <2>2. /\ guardian.pc \notin {"none", "drop", "armed"} \cup Learning
        /\ guardian.pc = "forward" => Len(inner) + Taken = 1 + guardian.request
        /\ guardian.pc \notin Serving
    BY <1>1, <1>2, EParts, Parts DEF InnerSound
  <2> QED
    BY <1>2, <1>3, <2>1, <2>2 DEF GuardianPcs, Reduced, GuardianAlive
<1>6. GuardianAlive => ~CaptureAsked
  BY <1>5, Transferred DEF CaptureAsked
<1>7. Understood' = Understood /\ Replied' = Replied /\ GuardianAlive' = GuardianAlive
      /\ CaptureAsked' = CaptureAsked
  BY <1>1 DEF Understood, Replied, GuardianAlive, CaptureAsked
<1>8. OuterSound'
  BY <1>1, <1>7, OuterSame
<1>9. CaptureSound'
  BY <1>1, <1>3, <1>4, <1>5, <1>6, <1>7 DEF CaptureSound, Waiting
<1> QED
  BY <1>8, <1>9 DEF Conversations

\* The target is started, and nothing said yet.
LEMMA SpawnTargetTalks ==
    ASSUME EInv, InitSpawnTarget
    PROVE  Conversations'
<1>1. /\ init.pc = "spawn" /\ init'.pc = "started" /\ init'.captured = init.captured
      /\ UNCHANGED <<inputs, guardian, inner, outer>>
  BY EParts, Parts, InitToFacts DEF InitSpawnTarget, InitPcs, Prepared
<1>2. /\ Understood' = Understood /\ Replied' = Replied /\ GuardianAlive' = GuardianAlive
      /\ CaptureAsked' = CaptureAsked
  BY <1>1 DEF Understood, Replied, GuardianAlive, CaptureAsked
<1>3. OuterSound'
  BY <1>1, <1>2, OuterSame
<1>4. CaptureSound'
  BY <1>1, <1>2, EParts DEF CaptureSound, Prepared, Waiting
<1> QED
  BY <1>3, <1>4 DEF Conversations

\* TARGET_STARTED is said.
LEMMA SendStartedTalks ==
    ASSUME EInv, InitSendStarted
    PROVE  Conversations'
<1>1. /\ init.pc = "started" /\ init'.pc = "serve" /\ init'.captured = init.captured
      /\ outer' = Append(outer, Message("started", 0))
      /\ UNCHANGED <<inputs, guardian, inner>>
  BY EParts, Parts, InitToFacts DEF InitSendStarted, InitPcs, Prepared
<1>2. ~init.captured
  BY <1>1, EParts DEF CaptureSound
<1>3. Replied = 1 /\ Replied' = 2 /\ GuardianAlive' = GuardianAlive
      /\ CaptureAsked' = CaptureAsked
  BY <1>1, <1>2 DEF Replied, GuardianAlive, CaptureAsked
<1>4. Reply(Replied + 1) = Message("started", 0)
  BY <1>3 DEF Reply
<1>5. OuterSound'
  BY <1>1, <1>3, <1>4, OuterSaid
<1>6. CaptureSound'
  BY <1>1, <1>3, EParts DEF CaptureSound, Prepared, Waiting
<1> QED
  BY <1>5, <1>6 DEF Conversations

\* The one CAPTURE is answered; the init refuses only a guardian that has gone.
LEMMA InitServeTalks ==
    ASSUME EInv, InitServe
    PROVE  Conversations'
<1>1. /\ init.pc = "serve" /\ inner # <<>> /\ inner' = Tail(inner)
      /\ UNCHANGED <<inputs, guardian>> /\ init \in InitRecords
  BY EParts, Parts DEF InitServe, Types
<1>2. inner = <<Message("capture", 0)>> /\ ~init.captured
  BY <1>1, EParts DEF CaptureSound, Prepared
<1>3. Head(inner).kind = "capture" /\ inner' = <<>>
  BY <1>1, <1>2, OneMessage, MessageFacts
<1>4. CASE GuardianAlive
  <2>1. /\ init' = [init EXCEPT !.captured = TRUE]
        /\ outer' = Append(outer, Message("captured", 0))
    BY <1>2, <1>3, <1>4 DEF InitServe
  <2>2. init'.pc = "serve" /\ init'.captured = TRUE
    BY <1>1, <2>1, Zenon DEF InitRecords
  <2>3. Replied = 2 /\ Replied' = 3 /\ CaptureAsked' = CaptureAsked
        /\ GuardianAlive' = GuardianAlive
    BY <1>1, <1>2, <2>2 DEF Replied, CaptureAsked, GuardianAlive
  <2>4. Reply(Replied + 1) = Message("captured", 0)
    BY <2>3 DEF Reply
  <2>5. OuterSound'
    BY <1>1, <2>1, <2>3, <2>4, OuterSaid
  <2>6. CaptureSound'
    BY <1>1, <1>3, <2>2, <2>3, EParts DEF CaptureSound, Prepared, Waiting
  <2> QED
    BY <2>5, <2>6 DEF Conversations
<1>5. CASE ~GuardianAlive
  <2>1. init'.pc = "exiting"
    BY <1>5, EParts, Parts, InitToFacts DEF InitServe, InitPcs
  <2> QED
    BY <1>1, <1>5, <2>1, InitGone
<1> QED
  BY <1>4, <1>5

\* The init gives up, is killed or empties its namespace.
LEMMA InitEndTalks ==
    ASSUME EInv, InitGivesUp \/ KillInit \/ EmptyNamespace
    PROVE  Conversations'
<1>1. UNCHANGED <<guardian, outer>>
  BY DEF InitGivesUp, KillInit, EmptyNamespace, InitOnly
<1>2. init'.pc \in {"exiting", "dead"}
  <2>1. CASE InitTo("exiting") \/ InitTo("dead")
    BY <2>1, EParts, Parts, InitToFacts DEF InitPcs
  <2>2. CASE init.pc = "exiting" /\ UNCHANGED init
    BY <2>2
  <2> QED
    BY <2>1, <2>2 DEF InitGivesUp, KillInit, EmptyNamespace
<1> QED
  BY <1>1, <1>2, InitGone

-----------------------------------------------------------------------------
(* The theorems on the conversations.                                      *)

\* Before the launch nothing was said.
LEMMA InitEInv == Init => EInv
<1> SUFFICES ASSUME Init PROVE EInv
  OBVIOUS
<1>1. LInv
  BY InitLInv
<1>2. /\ guardian.pc = "none" /\ guardian.transferred = FALSE
      /\ init.pc = "none" /\ init.captured = FALSE /\ inner = <<>> /\ outer = <<>>
  BY Zenon DEF Init
<1>3. OuterSound
  BY <1>2 DEF OuterSound, GuardianAlive
<1>4. CaptureSound
  <2>1. Len(inner) = 0 /\ Taken = 0 /\ inputs \in Nat
    BY <1>1, <1>2, Fields DEF Taken
  <2> QED
    BY <1>2, <2>1 DEF CaptureSound, Prepared
<1> QED
  BY <1>1, <1>3, <1>4 DEF EInv

\* Every step keeps the conversations.
LEMMA NextEInv == EInv /\ [Next]_vars => EInv'
<1> SUFFICES ASSUME EInv, [Next]_vars PROVE EInv'
  OBVIOUS
<1>0. LInv'
  BY EParts, NextLInv, Zenon
<1> SUFFICES Conversations'
  BY <1>0 DEF EInv, Conversations
<1>1. CASE HostStep
  BY <1>1, HostTalks
<1>2. CASE GuardianStep
  BY <1>0, <1>2, GuardianLearns, SpawnTalks, DropTalks, HandshakeTalks, ReadyTalks, ServeTalks,
     TransferTalks, GuardianEndTalks, Zenon DEF GuardianStep
<1>3. CASE InitStep
  BY <1>3, InitArmTalks, SendArmedTalks, ReceiveGoTalks, SetupTalks, SpawnTargetTalks,
     SendStartedTalks, InitServeTalks, InitEndTalks, Zenon DEF InitStep
<1>4. CASE Kernel
  BY <1>4, GuardianEndTalks, InitEndTalks, Zenon DEF Kernel
<1>5. CASE Stop \/ HostDies \/ TargetExits \/ UNCHANGED vars
  <2>1. UNCHANGED <<inputs, guardian, init, inner, outer>>
    BY <1>5, Zenon DEF Stop, HostDies, HostOnly, TargetExits, vars
  <2> QED
    BY <2>1, CalmKeeps
<1> QED
  BY <1>1, <1>2, <1>3, <1>4, <1>5, Zenon DEF Next

\* The invariant of all three conversations holds in every reachable state.
THEOREM ConversationInvariant == Spec => []EInv
  BY InitEInv, NextEInv, PTL DEF Spec

\* No order of the steps of host, guardian and init, and no death among them,
\* lets one of them read a message it does not wait for
\* (linux_helper.rs:179-237, 322-396, linux_helper_channel.rs:39-50, 170-234).
THEOREM EveryMessageExpectedTheorem == Spec => []EveryMessageExpected
<1>1. EInv => EveryMessageExpected
  <2> SUFFICES ASSUME EInv PROVE EveryMessageExpected
    OBVIOUS
  <2>1. /\ inputs \in Nat /\ guardian.n \in Nat /\ init.n \in Nat /\ host.requests \in Nat
        /\ host.requests <= 1
    BY EParts, Parts, Fields DEF HostCounts
  <2>2. down # <<>> =>
          /\ guardian.pc = "launch" => Head(down) = Message("launch", inputs)
          /\ guardian.pc = "input" /\ guardian.n < guardian.request =>
                Head(down) = Message("input", guardian.n + 1)
          /\ guardian.pc = "serve" =>
                ~guardian.transferred /\ Head(down) = Message("connect", host.requests)
    <3> SUFFICES ASSUME down # <<>>, guardian.pc \in {"launch", "input", "serve"}
                 PROVE  /\ guardian.pc = "launch" => Head(down) = Message("launch", inputs)
                        /\ guardian.pc = "input" /\ guardian.n < guardian.request =>
                              Head(down) = Message("input", guardian.n + 1)
                        /\ guardian.pc = "serve" =>
                              ~guardian.transferred /\ Head(down) = Message("connect", host.requests)
      BY Zenon
    <3>1. Len(down) \in Nat /\ Len(down) >= 1 /\ Head(down) = down[1]
      BY EParts, Queues, TailFacts
    <3>2. Heard \in Nat
      BY <2>1 DEF Heard
    <3>3. Head(down) = Said(Heard + 1) /\ Len(down) + Heard <= 1 + inputs + host.requests
      BY <3>1, EParts, Parts DEF DownSound, GuardianAlive
    <3>4. CASE guardian.pc = "launch"
      BY <3>3, <3>4 DEF Heard, Said
    <3>5. CASE guardian.pc = "input" /\ guardian.n < guardian.request
      <4>1. Heard = 1 + guardian.n /\ guardian.request = inputs
        BY <3>5, EParts, Parts DEF Heard, GuardianCounts
      <4>2. guardian.n + 1 \in Nat /\ guardian.n + 1 >= 1 /\ guardian.n + 1 <= inputs
            /\ Heard = guardian.n + 1
        BY <2>1, <3>5, <4>1
      <4> QED
        BY <2>1, <3>3, <3>5, <4>2, SaidInput, Zenon
    <3>6. CASE guardian.pc = "serve"
      <4>1. ~guardian.transferred /\ Heard = 1 + inputs /\ host.requests = 1
        BY <2>1, <3>1, <3>3, <3>6 DEF Heard, Asked
      <4> QED
        BY <2>1, <3>3, <3>6, <4>1 DEF Said
    <3> QED
      BY <3>4, <3>5, <3>6
  <2>3. inner # <<>> =>
          /\ init.pc = "go" => Head(inner) = Message("go", inputs)
          /\ init.pc = "inputs" =>
                init.n < init.count /\ Head(inner) = Message("input", init.n + 1)
          /\ init.pc = "serve" => ~init.captured /\ Head(inner) = Message("capture", 0)
    <3> SUFFICES ASSUME inner # <<>>, init.pc \in {"go", "inputs", "serve"}
                 PROVE  /\ init.pc = "go" => Head(inner) = Message("go", inputs)
                        /\ init.pc = "inputs" =>
                              init.n < init.count /\ Head(inner) = Message("input", init.n + 1)
                        /\ init.pc = "serve" =>
                              ~init.captured /\ Head(inner) = Message("capture", 0)
      BY Zenon
    <3>1. Len(inner) \in Nat /\ Len(inner) >= 1 /\ Head(inner) = inner[1]
      BY EParts, Queues, TailFacts
    <3>2. init.pc \in {"go", "inputs"} =>
             Head(inner) = Told(Taken + 1) /\ Len(inner) + Taken <= 1 + inputs
      BY <3>1, EParts, Parts DEF InnerSound, CaptureSound, Waiting
    <3>3. CASE init.pc = "go"
      BY <3>2, <3>3 DEF Taken, Told
    <3>4. CASE init.pc = "inputs"
      <4>1. Taken = 1 + init.n /\ init.count = inputs
        BY <3>4, EParts, Parts DEF Taken, InitCounts
      <4> QED
        <5>1. 1 + init.n + 1 = init.n + 2 /\ init.n < inputs
          BY <2>1, <3>1, <3>2, <3>4, <4>1
        <5>2. Told(init.n + 2) = Message("input", init.n + 1)
          <6>1. init.n + 2 # 1 /\ init.n + 2 <= 1 + inputs /\ (init.n + 2) - 1 = init.n + 1
            BY <2>1, <5>1
          <6> QED
            BY <6>1 DEF Told
        <5> QED
          BY <3>2, <3>4, <4>1, <5>1, <5>2
    <3>5. CASE init.pc = "serve"
      <4>1. inner = <<Message("capture", 0)>> /\ ~init.captured
        BY <3>5, EParts DEF CaptureSound, Prepared
      <4> QED
        BY <3>5, <4>1, OneMessage
    <3> QED
      BY <3>3, <3>4, <3>5
  <2>4. outer # <<>> =>
          /\ guardian.pc = "armed" => Head(outer) = Message("armed", 0)
          /\ guardian.pc = "started" => Head(outer) = Message("started", 0)
          /\ guardian.pc = "captured" => Head(outer) = Message("captured", 0)
    <3> SUFFICES ASSUME outer # <<>>, guardian.pc \in {"armed", "started", "captured"}
                 PROVE  /\ guardian.pc = "armed" => Head(outer) = Message("armed", 0)
                        /\ guardian.pc = "started" => Head(outer) = Message("started", 0)
                        /\ guardian.pc = "captured" => Head(outer) = Message("captured", 0)
      BY Zenon
    <3>1. Len(outer) \in Nat /\ Len(outer) >= 1 /\ Head(outer) = outer[1]
      BY EParts, Queues, TailFacts
    <3>2. Head(outer) = Reply(Understood + 1)
      BY <3>1, EParts DEF OuterSound, GuardianAlive
    <3>3. ~guardian.transferred
      BY Transferred
    <3> QED
      BY <3>2, <3>3 DEF Understood, Reply, Serving
  <2> QED
    BY <2>2, <2>3, <2>4, Zenon DEF EveryMessageExpected
<1> QED
  BY <1>1, ConversationInvariant, PTL

-----------------------------------------------------------------------------
(* What has ended.                                                         *)

\* No step starts a process for the second time.
Ended ==
    /\ guardian.pc = "dead" => guardian'.pc = "dead"
    /\ init.pc = "dead" => init'.pc = "dead"
    /\ target # "none" => target' # "none"
    /\ target = "dead" => target' = "dead"

\* The guardian is started from none, the init from none and the target by an
\* init that has started none.
LEMMA EndedStep == LInv /\ [Next]_vars => Ended
<1> SUFFICES ASSUME LInv, [Next]_vars PROVE Ended
  OBVIOUS
<1>1. guardian \in GuardianRecords /\ init \in InitRecords
      /\ target \in {"none", "running", "dead"}
  BY Parts DEF Types
<1>2. guardian.pc = "dead" => guardian'.pc = "dead"
  <2> SUFFICES ASSUME guardian.pc = "dead" PROVE guardian'.pc = "dead"
    OBVIOUS
  <2>1. host.pc # "idle"
    BY Parts DEF Stages
  <2>2. CASE guardian' = guardian \/ GuardianTo("dead")
    BY <2>2, Parts, GuardianToFacts DEF GuardianPcs
  <2>3. guardian' = guardian \/ GuardianTo("dead")
    BY <2>1, Zenon DEF Next, vars, HostStep, Launch, SendDescriptor, SendInput, ReceiveReady,
       VerifyLaunch, Abort, Terminate, RequestChannel, ReceiveChannel, Close, DropLease, HostOnly,
       Stop, HostDies, GuardianStep, GuardianArm, GuardianReceiveLaunch, GuardianSpawn,
       GuardianDrop, GuardianHandshake, GuardianReady, GuardianServe, GuardianTransfer,
       GuardianGivesUp, GuardianFails, InitStep, InitArm, InitSendArmed,
       InitReceiveGo, InitReceiveInput, InitSetup, InitSpawnTarget, InitSendStarted, InitServe,
       InitGivesUp, InitOnly, Kernel, KillGuardian, KillInit, EmptyNamespace, TargetExits
  <2> QED
    BY <2>2, <2>3
<1>3. init.pc = "dead" => init'.pc = "dead"
  <2> SUFFICES ASSUME init.pc = "dead" PROVE init'.pc = "dead"
    OBVIOUS
  <2>1. guardian.pc # "input"
    BY Parts DEF Stages, Learning
  <2>2. init' = init
    BY <2>1, Zenon DEF Next, vars, HostStep, Launch, SendDescriptor, SendInput, ReceiveReady,
       VerifyLaunch, Abort, Terminate, RequestChannel, ReceiveChannel, Close, DropLease, HostOnly,
       Stop, HostDies, GuardianStep, GuardianArm, GuardianOnly, GuardianReceiveLaunch,
       GuardianSpawn, GuardianDrop, GuardianHandshake, GuardianReady, GuardianServe,
       GuardianTransfer, GuardianGivesUp, GuardianFails, InitStep, InitArm, InitSendArmed,
       InitReceiveGo, InitReceiveInput, InitSetup, InitSpawnTarget, InitSendStarted, InitServe,
       InitGivesUp, InitOnly, Kernel, KillGuardian, KillInit, InitAlive, EmptyNamespace,
       TargetExits
  <2> QED
    BY <2>2
<1>4. /\ target # "none" => target' # "none"
      /\ target = "dead" => target' = "dead"
  <2>1. target # "none" => init.pc # "spawn"
    BY Parts DEF Stages
  <2>2. target # "none" => target' = target \/ target' = "dead"
    BY <2>1, Zenon DEF Next, vars, HostStep, Launch, SendDescriptor, SendInput, ReceiveReady,
       VerifyLaunch, Abort, Terminate, RequestChannel, ReceiveChannel, Close, DropLease, HostOnly,
       Stop, HostDies, GuardianStep, GuardianArm, GuardianOnly, GuardianReceiveLaunch,
       GuardianSpawn, GuardianDrop, GuardianHandshake, GuardianReady, GuardianServe,
       GuardianTransfer, GuardianGivesUp, GuardianFails, InitStep, InitArm, InitSendArmed,
       InitReceiveGo, InitReceiveInput, InitSetup, InitSpawnTarget, InitSendStarted, InitServe,
       InitGivesUp, InitOnly, Kernel, KillGuardian, KillInit, InitAlive, EmptyNamespace,
       TargetExits
  <2> QED
    BY <2>2
<1> QED
  BY <1>2, <1>3, <1>4 DEF Ended

\* A process of a launch is started once: the spawn of the helper, that of stage
\* two and launch_target are never reached again for one that has ended
\* (linux_helper.rs:117-165, 414).
THEOREM NoneComesBackTheorem == Spec => NoneComesBack
<1>1. LInv /\ [Next]_vars => [Ended]_vars
  BY EndedStep
<1> QED
  BY <1>1, LaunchInvariant, PTL DEF Spec, NoneComesBack, Ended

\* What close reports stays true for ever: the caller may release what the
\* target used (linux.rs:418-427).
THEOREM ClosedForGoodTheorem == Spec => ClosedForGood
<1> DEFINE Gone == guardian.pc = "dead" /\ init.pc = "dead" /\ target = "dead"
<1>1. LInv /\ host.pc = "closed" => Gone
  <2> SUFFICES ASSUME LInv, host.pc = "closed" PROVE Gone
    OBVIOUS
  <2>1. ~GuardianAlive /\ ~InitAlive /\ target = "dead"
    BY Parts DEF Closing
  <2>2. guardian.pc # "none" /\ init.pc # "none"
    BY <2>1, Parts DEF Stages
  <2> QED
    BY <2>1, <2>2 DEF GuardianAlive, InitAlive
<1>2. LInv /\ [Next]_vars => (Gone => Gone')
  BY EndedStep DEF Ended
<1>3. Gone => ~GuardianAlive /\ ~InitAlive /\ target = "dead"
  BY DEF GuardianAlive, InitAlive
<1> QED
  BY <1>1, <1>2, <1>3, LaunchInvariant, PTL DEF Spec, ClosedForGood

=============================================================================
