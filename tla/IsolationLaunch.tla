-------------------------- MODULE IsolationLaunch --------------------------
(***************************************************************************)
(* A managed launch of crates/runtime-isolation: the host that launches,   *)
(* connects and closes (platform/linux.rs), the guardian (stage one) and   *)
(* the namespace init (stage two) of the helper (linux_helper.rs,          *)
(* linux_helper_channel.rs), and the target, over the two SEQPACKET        *)
(* control sockets of linux_control.rs.                                    *)
(*                                                                         *)
(* Time is a choice: a wait may reach its timeout, and a call may be       *)
(* cancelled or pass its operation deadline, in any state.  Any step may   *)
(* fail; the host and the target may end at any time.  The kernel delivers *)
(* death signals and empties a process namespace after its init.           *)
(* reobserve only reads and is left out; so is the probe of prepare.       *)
(***************************************************************************)
EXTENDS Naturals, Sequences

CONSTANTS
    MaxInputs,  \* bound on retained runtime inputs of a launch
    MaxCalls    \* bound on calls on one lease

ASSUME IsolationAssumption == MaxInputs \in Nat /\ MaxCalls \in Nat

VARIABLES
    inputs,    \* the number of runtime inputs of this launch
    host,      \* the calling process
    guardian,  \* stage one
    init,      \* stage two, pid 1 of the process namespace
    target,    \* "none", "running" or "dead"
    ready,     \* what the helper's standard output holds
    down, up,  \* control messages host -> guardian and back
    inner, outer  \* control messages guardian -> init and back

vars == <<inputs, host, guardian, init, target, ready, down, up, inner, outer>>

Message(kind, n) == [kind |-> kind, n |-> n]

Init ==
    /\ inputs \in 0..MaxInputs
    /\ host = [pc |-> "idle", alive |-> TRUE, stopped |-> FALSE, sent |-> 0,
               killing |-> FALSE, released |-> FALSE, calls |-> 0,
               requested |-> FALSE, requests |-> 0, channel |-> 0]
    /\ guardian = [pc |-> "none", armed |-> FALSE, reduced |-> FALSE, n |-> 0,
                   transferred |-> FALSE, request |-> 0]
    /\ init = [pc |-> "none", armed |-> FALSE, reduced |-> FALSE, n |-> 0,
               count |-> 0, captured |-> FALSE]
    /\ target = "none" /\ ready = "open"
    /\ down = <<>> /\ up = <<>> /\ inner = <<>> /\ outer = <<>>

GuardianAlive == guardian.pc \notin {"none", "dead"}
InitAlive == init.pc \notin {"none", "dead"}

\* The host's end of its control socket is open.
HostEndOpen == host.alive /\ ~host.released

-----------------------------------------------------------------------------
(* The host.                                                               *)

HostOnly == UNCHANGED <<inputs, guardian, init, target, ready, down, up, inner, outer>>

\* ensure_active_until: the call is not cancelled and its deadline not passed.
Active == ~host.stopped

HostTo(pc) == host' = [host EXCEPT !.pc = pc]

\* Dropping the lease or an aborted launch closes the host's control socket.
Release(pc) == host' = [host EXCEPT !.pc = pc, !.released = TRUE]

Launch ==
    /\ host.pc = "idle"
    /\ \/ /\ Active
          /\ HostTo("descriptor")
          /\ guardian' = [guardian EXCEPT !.pc = "arm"]
          /\ UNCHANGED <<inputs, init, target, ready, down, up, inner, outer>>
       \/ Release("failed") /\ HostOnly

\* send: while the launch's command holds the helper's end, a message to a
\* dead guardian is accepted.
SendDescriptor ==
    /\ host.pc = "descriptor"
    /\ \/ /\ Active
          /\ HostTo("inputs")
          /\ down' = Append(down, Message("launch", inputs))
          /\ UNCHANGED <<inputs, guardian, init, target, ready, up, inner, outer>>
       \/ HostTo("abort") /\ HostOnly

SendInput ==
    /\ host.pc = "inputs"
    /\ \/ host.sent = inputs /\ HostTo("ready") /\ HostOnly
       \/ /\ host.sent < inputs /\ Active
          /\ host' = [host EXCEPT !.sent = @ + 1]
          /\ down' = Append(down, Message("input", host.sent + 1))
          /\ UNCHANGED <<inputs, guardian, init, target, ready, up, inner, outer>>
       \/ host.sent < inputs /\ HostTo("abort") /\ HostOnly

\* receive_ready_until: the READY line, an ERROR line or the end of the pipe,
\* which the init inherits.
ReceiveReady ==
    /\ host.pc = "ready"
    /\ \/ ready = "ready" /\ HostTo("verify")
       \/ HostTo("abort")
    /\ HostOnly

\* finish_launch and verify::launch.
VerifyLaunch ==
    /\ host.pc = "verify"
    /\ \/ /\ Active /\ GuardianAlive /\ InitAlive /\ target = "running"
          /\ HostTo("leased")
       \/ HostTo("abort")
    /\ HostOnly

\* Mutant: the guardian is awaited but not killed.
TerminateUnkilled(from, reaping, blocking, reaped) ==
    /\ host.pc = from
    /\ IF GuardianAlive THEN HostTo(blocking) ELSE HostTo(reaped)
    /\ HostOnly

\* terminate_and_reap: kill, then a reaper thread and a bounded wait for it,
\* or a plain wait when no thread can be started.
Terminate(from, reaping, blocking, reaped) ==
    /\ host.pc = from
    /\ \/ ~GuardianAlive /\ HostTo(reaped)
       \/ /\ GuardianAlive
          /\ \E pc \in {reaping, blocking} :
                /\ host.killing => pc = reaping
                /\ host' = [host EXCEPT !.pc = pc, !.killing = TRUE]
    /\ HostOnly

\* abort_helper: its error or the error of the clean-up; either way the launch
\* has failed.
Abort ==
    \/ Terminate("abort", "abortReap", "abortWait", "aborted")
    \/ host.pc \in {"abortReap", "abortWait"} /\ ~GuardianAlive /\ HostTo("aborted") /\ HostOnly
    \/ host.pc = "abortReap" /\ HostTo("aborted") /\ HostOnly
    \/ host.pc = "aborted" /\ Release("failed") /\ HostOnly

\* A call on the lease, with a cancellation token and a deadline of its own.
Called == host.pc = "leased" /\ host.calls < MaxCalls

BeginCall(pc) == [host EXCEPT !.pc = pc, !.calls = @ + 1, !.stopped = FALSE]

\* Mutant: a request is remembered only when it was answered in time.
RequestChannelForgotten ==
    /\ Called /\ host.channel = 0
    /\ GuardianAlive /\ InitAlive /\ target = "running"
    /\ host' = [BeginCall("await") EXCEPT !.requests = @ + 1]
    /\ down' = Append(down, Message("connect", host.requests + 1))
    /\ UNCHANGED <<inputs, guardian, init, target, ready, up, inner, outer>>

\* connect_loopback: one request per lease, whatever becomes of it.
RequestChannel ==
    /\ Called
    /\ \/ /\ ~host.requested
          /\ GuardianAlive /\ InitAlive /\ target = "running"
          /\ host' = [BeginCall("await") EXCEPT !.requested = TRUE, !.requests = @ + 1]
          /\ down' = Append(down, Message("connect", host.requests + 1))
       \/ /\ host' = [BeginCall("leased") EXCEPT !.requested = TRUE]
          /\ UNCHANGED down
    /\ UNCHANGED <<inputs, guardian, init, target, ready, up, inner, outer>>

\* receive, the deadline again, the checks of the channel and
\* operation_result_precedence.
ReceiveChannel ==
    /\ host.pc = "await"
    /\ \/ /\ up # <<>> /\ Active
          /\ up' = Tail(up)
          /\ \/ /\ Head(up).kind = "connected"
                /\ host' = [host EXCEPT !.pc = "leased", !.channel = Head(up).n]
             \/ HostTo("leased")
       \/ HostTo("leased") /\ UNCHANGED up
    /\ UNCHANGED <<inputs, guardian, init, target, ready, down, inner, outer>>

\* Mutant: the guardian's end is taken for the end of the namespace.
CloseAtReap ==
    \/ /\ Called
       /\ host' = BeginCall("close")
       /\ HostOnly
    \/ Terminate("close", "closeReap", "closeWait", "closed")
    \/ /\ host.pc \in {"closeReap", "closeWait"} /\ ~GuardianAlive
       /\ HostTo("closed") /\ HostOnly
    \/ host.pc = "closeReap" /\ HostTo("leased") /\ HostOnly

\* close: reap the guardian, then wait for the target and the init.
Close ==
    \/ /\ Called
       /\ host' = BeginCall("close")
       /\ HostOnly
    \/ Terminate("close", "closeReap", "closeWait", "closeTarget")
    \/ /\ host.pc \in {"closeReap", "closeWait"} /\ ~GuardianAlive
       /\ HostTo("closeTarget") /\ HostOnly
    \/ /\ host.pc = "closeTarget" /\ target = "dead"
       /\ HostTo("closeInit") /\ HostOnly
    \/ /\ host.pc = "closeInit" /\ ~InitAlive
       /\ HostTo("closed") /\ HostOnly
    \/ /\ host.pc \in {"closeReap", "closeTarget", "closeInit"}
       /\ HostTo("leased") /\ HostOnly

\* Drop for HelperProcess kills and leaves the reaper behind.
DropLease ==
    /\ host.pc \in {"leased", "closed"}
    /\ host' = [host EXCEPT !.pc = "dropped", !.released = TRUE, !.killing = TRUE]
    /\ HostOnly

HostStep ==
    /\ host.alive
    /\ \/ Launch \/ SendDescriptor \/ SendInput \/ ReceiveReady \/ VerifyLaunch
       \/ Abort \/ RequestChannel \/ ReceiveChannel \/ Close \/ DropLease

\* The call's token is cancelled or its operation deadline passes.
Stop ==
    /\ ~host.stopped
    /\ host' = [host EXCEPT !.stopped = TRUE] /\ HostOnly

HostDies ==
    /\ host.alive
    /\ host' = [host EXCEPT !.alive = FALSE] /\ HostOnly

-----------------------------------------------------------------------------
(* The guardian.                                                           *)

GuardianTo(pc) == guardian' = [guardian EXCEPT !.pc = pc]
GuardianOnly == UNCHANGED <<inputs, host, init, target, ready, down, up, inner, outer>>

\* The next message from the host, or from the init, has this kind.
FromHost(kind) == down # <<>> /\ Head(down).kind = kind
FromInit(kind) == outer # <<>> /\ Head(outer).kind = kind

\* run_inner returns an error: an ERROR line, and the process ends.
GuardianFails ==
    /\ GuardianAlive
    /\ GuardianTo("dead")
    /\ ready' = IF ready = "open" THEN "error" ELSE ready
    /\ UNCHANGED <<inputs, host, init, target, down, up, inner, outer>>

\* arm_parent_death compares the parent before and after: it can bind to the
\* process that adopted it when the host was already gone.
GuardianArm ==
    /\ guardian.pc = "arm"
    /\ guardian' = [guardian EXCEPT !.pc = "launch", !.armed = host.alive]
    /\ GuardianOnly

\* receive_managed_launch: the descriptor with the number of inputs, then each
\* input in order.
GuardianReceiveLaunch ==
    /\ \/ /\ guardian.pc = "launch" /\ FromHost("launch")
          /\ guardian' = [guardian EXCEPT !.pc = "input", !.request = Head(down).n]
       \/ /\ guardian.pc = "input" /\ guardian.n < guardian.request
          /\ FromHost("input") /\ Head(down).n = guardian.n + 1
          /\ guardian' = [guardian EXCEPT !.n = @ + 1]
    /\ down' = Tail(down)
    /\ UNCHANGED <<inputs, host, init, target, ready, up, inner, outer>>

\* Mutant: the handshake is not preceded by the drop of privileges.
GuardianSpawnUnreduced ==
    /\ guardian.pc = "input" /\ guardian.n = guardian.request
    /\ GuardianTo("armed")
    /\ init' = [init EXCEPT !.pc = "arm"]
    /\ UNCHANGED <<inputs, host, target, ready, down, up, inner, outer>>

\* establish_isolation and the spawn of stage two.
GuardianSpawn ==
    /\ guardian.pc = "input" /\ guardian.n = guardian.request
    /\ GuardianTo("drop")
    /\ init' = [init EXCEPT !.pc = "arm"]
    /\ UNCHANGED <<inputs, host, target, ready, down, up, inner, outer>>

\* drop_managed_privileges, after the spawn and before the handshake.
GuardianDrop ==
    /\ guardian.pc = "drop"
    /\ guardian' = [guardian EXCEPT !.pc = "armed", !.reduced = TRUE]
    /\ GuardianOnly

\* managed_spawn_handshake: ARMED is answered by GO and the inputs.
GuardianHandshake ==
    /\ \/ /\ guardian.pc = "armed" /\ FromInit("armed")
          /\ outer' = Tail(outer) /\ inner' = Append(inner, Message("go", guardian.n))
          /\ guardian' = [guardian EXCEPT !.pc = "forward", !.request = 0]
       \/ /\ guardian.pc = "forward" /\ guardian.request < guardian.n
          /\ inner' = Append(inner, Message("input", guardian.request + 1))
          /\ guardian' = [guardian EXCEPT !.request = @ + 1]
          /\ UNCHANGED outer
       \/ /\ guardian.pc = "forward" /\ guardian.request = guardian.n
          /\ GuardianTo("started")
          /\ UNCHANGED <<inner, outer>>
    /\ UNCHANGED <<inputs, host, init, target, ready, down, up>>

\* TARGET_STARTED, then the READY line.
GuardianReady ==
    /\ guardian.pc = "started" /\ FromInit("started")
    /\ outer' = Tail(outer) /\ ready' = "ready"
    /\ GuardianTo("serve")
    /\ UNCHANGED <<inputs, host, init, target, down, up, inner>>

\* serve_parent_control: a first CONNECT is served.
GuardianServe ==
    /\ guardian.pc = "serve" /\ down # <<>>
    /\ down' = Tail(down)
    /\ \/ /\ ~guardian.transferred /\ Head(down).kind = "connect"
          /\ guardian' = [guardian EXCEPT !.pc = "connect", !.request = Head(down).n]
          /\ UNCHANGED up
       \/ /\ guardian.transferred \/ Head(down).kind # "connect"
          /\ up' = Append(up, Message("error", 0))
          /\ GuardianTo("dead")
    /\ UNCHANGED <<inputs, host, init, target, ready, inner, outer>>

\* transfer_channel: connect to the target, ask the init for the captured
\* output, pass both on.
GuardianTransfer ==
    \/ /\ guardian.pc = "connect" /\ target = "running"
       /\ GuardianTo("captured")
       /\ inner' = Append(inner, Message("capture", 0))
       /\ UNCHANGED <<inputs, host, init, target, ready, down, up, outer>>
    \/ /\ guardian.pc = "captured" /\ FromInit("captured") /\ HostEndOpen
       /\ outer' = Tail(outer)
       /\ up' = Append(up, Message("connected", guardian.request))
       /\ guardian' = [guardian EXCEPT !.pc = "serve", !.transferred = TRUE]
       /\ UNCHANGED <<inputs, host, init, target, ready, down, inner>>
    \/ /\ guardian.pc \in {"connect", "captured"}
       /\ up' = Append(up, Message("error", 0))
       /\ GuardianTo("dead")
       /\ UNCHANGED <<inputs, host, init, target, ready, down, inner, outer>>

\* Mutant: a closed control socket is taken for an empty one.
GuardianIgnoresClosed ==
    /\ \/ guardian.pc \in {"arm", "launch", "input", "drop", "armed", "forward", "started"}
       \/ guardian.pc = "serve" /\ ~InitAlive
    /\ GuardianFails

\* A wait that ends without the expected message: a timeout, a closed socket
\* or another message.  Serving has no timeout: it ends with the init or with
\* the host's end of the socket.
GuardianGivesUp ==
    /\ \/ guardian.pc \in {"arm", "launch", "input", "drop", "armed", "forward", "started"}
       \/ guardian.pc = "serve" /\ (~InitAlive \/ ~HostEndOpen)
    /\ GuardianFails

GuardianStep ==
    \/ GuardianArm \/ GuardianReceiveLaunch \/ GuardianSpawn \/ GuardianDrop
    \/ GuardianHandshake \/ GuardianReady \/ GuardianServe \/ GuardianTransfer
    \/ GuardianGivesUp

-----------------------------------------------------------------------------
(* The namespace init.                                                     *)

InitTo(pc) == init' = [init EXCEPT !.pc = pc]
InitOnly == UNCHANGED <<inputs, host, guardian, target, ready, down, up, inner, outer>>

\* validate_stage_two sets the death signal and does not look back; a dead
\* guardian is noticed at the control socket.
InitArm ==
    /\ init.pc = "arm"
    /\ init' = [init EXCEPT !.pc = "armed", !.armed = GuardianAlive]
    /\ InitOnly

InitSendArmed ==
    /\ init.pc = "armed" /\ GuardianAlive
    /\ InitTo("go")
    /\ outer' = Append(outer, Message("armed", 0))
    /\ UNCHANGED <<inputs, host, guardian, target, ready, down, up, inner>>

\* GO with the number of inputs ...
InitReceiveGo ==
    /\ init.pc = "go" /\ inner # <<>> /\ Head(inner).kind = "go"
    /\ init' = [init EXCEPT !.pc = "inputs", !.count = Head(inner).n]
    /\ inner' = Tail(inner)
    /\ UNCHANGED <<inputs, host, guardian, target, ready, down, up, outer>>

\* ... then each input in order.
InitReceiveInput ==
    /\ init.pc = "inputs" /\ init.n < init.count
    /\ inner # <<>> /\ Head(inner) = Message("input", init.n + 1)
    /\ init' = [init EXCEPT !.n = @ + 1]
    /\ inner' = Tail(inner)
    /\ UNCHANGED <<inputs, host, guardian, target, ready, down, up, outer>>

\* complete_managed_setup.
InitSetup ==
    /\ init.pc = "inputs" /\ init.n = init.count
    /\ init' = [init EXCEPT !.pc = "spawn", !.reduced = TRUE]
    /\ InitOnly

\* launch_target.
InitSpawnTarget ==
    /\ init.pc = "spawn"
    /\ InitTo("started") /\ target' = "running"
    /\ UNCHANGED <<inputs, host, guardian, ready, down, up, inner, outer>>

InitSendStarted ==
    /\ init.pc = "started" /\ GuardianAlive
    /\ InitTo("serve")
    /\ outer' = Append(outer, Message("started", 0))
    /\ UNCHANGED <<inputs, host, guardian, target, ready, down, up, inner>>

\* serve_stage_control: a first CAPTURE is answered.
InitServe ==
    /\ init.pc = "serve" /\ inner # <<>>
    /\ inner' = Tail(inner)
    /\ IF ~init.captured /\ Head(inner).kind = "capture" /\ GuardianAlive
       THEN /\ init' = [init EXCEPT !.captured = TRUE]
            /\ outer' = Append(outer, Message("captured", 0))
       ELSE /\ outer' = Append(outer, Message("error", 0))
            /\ InitTo("exiting")
    /\ UNCHANGED <<inputs, host, guardian, target, ready, down, up>>

\* A wait that ends without the expected message; serving ends with the target
\* or with the guardian's end of the socket.
InitGivesUp ==
    /\ \/ init.pc \in {"arm", "armed", "go", "inputs", "spawn", "started"}
       \/ init.pc = "serve" /\ (target = "dead" \/ ~GuardianAlive)
    /\ InitTo("exiting")
    /\ InitOnly

InitStep ==
    \/ InitArm \/ InitSendArmed \/ InitReceiveGo \/ InitReceiveInput \/ InitSetup
    \/ InitSpawnTarget \/ InitSendStarted \/ InitServe \/ InitGivesUp

-----------------------------------------------------------------------------
(* The kernel and the target.                                              *)

\* The host's kill, or the death of the process the guardian is armed for.
KillGuardian ==
    /\ GuardianAlive
    /\ host.killing \/ (guardian.armed /\ ~host.alive)
    /\ GuardianTo("dead") /\ GuardianOnly

KillInit ==
    /\ InitAlive /\ init.pc # "exiting" /\ init.armed /\ ~GuardianAlive
    /\ InitTo("exiting") /\ InitOnly

\* The end of its init ends every process of a namespace; the init is gone
\* when they are.
EmptyNamespace ==
    /\ init.pc = "exiting"
    /\ IF target = "running"
       THEN target' = "dead" /\ UNCHANGED init
       ELSE InitTo("dead") /\ UNCHANGED target
    /\ UNCHANGED <<inputs, host, guardian, ready, down, up, inner, outer>>

Kernel == KillGuardian \/ KillInit \/ EmptyNamespace

TargetExits ==
    /\ target = "running" /\ target' = "dead"
    /\ UNCHANGED <<inputs, host, guardian, init, ready, down, up, inner, outer>>

Next ==
    \/ HostStep \/ Stop \/ HostDies
    \/ GuardianStep \/ InitStep \/ Kernel \/ TargetExits

Spec == Init /\ [][Next]_vars

\* A call that has begun goes on: every wait of it ends at a timeout.
CallStep == host.pc \notin {"idle", "leased", "closed"} /\ HostStep

\* The kernel delivers signals; nothing is asked of the helper or the caller.
FairSpec == Spec /\ WF_vars(Kernel) /\ WF_vars(CallStep)

\* What a helper that does not hang adds.
HelperRuns == WF_vars(GuardianStep) /\ WF_vars(InitStep)

-----------------------------------------------------------------------------
(* Properties.                                                             *)

\* Types of the variables.
TypeOK ==
    /\ inputs \in 0..MaxInputs
    /\ host.sent \in 0..inputs /\ host.requests \in 0..MaxCalls
    /\ host.calls \in 0..MaxCalls /\ host.channel \in 0..MaxCalls
    /\ guardian.n \in 0..MaxInputs /\ guardian.request \in 0..(MaxInputs + MaxCalls)
    /\ init.n \in 0..init.count /\ init.count \in 0..MaxInputs
    /\ target \in {"none", "running", "dead"} /\ ready \in {"open", "ready", "error"}
    /\ \A queue \in {down, up, inner, outer} : queue \in
          Seq([kind : {"launch", "input", "connect", "connected", "error", "armed", "go",
                       "started", "capture", "captured"},
               n : 0..(MaxInputs + MaxCalls)])

\* The target starts only when both helper processes have dropped their
\* privileges and the init holds exactly the inputs the host sent, in order,
\* over both sockets (linux_helper.rs:147-149, 308-320), and the READY line, so
\* a lease, stands for a started target behind a finished handshake
\* (linux_helper.rs:151-165).
TargetConfined ==
    /\ TypeOK
    /\ target # "none" => guardian.reduced /\ init.reduced /\ init.n = inputs
    /\ ready = "ready" => /\ target # "none"
                          /\ init.pc \in {"serve", "exiting", "dead"}
                          /\ guardian.reduced

\* A lease that reports it is closed has outlived the guardian, the target and
\* the namespace init (linux.rs:418-427).
CloseMeansGone ==
    host.pc = "closed" => ~GuardianAlive /\ ~InitAlive /\ target = "dead"

\* A channel answers the request it is returned for, and no lease ever has two
\* requests or two answers on the way: a request that was cancelled or timed
\* out is not followed by another (linux.rs:368-371,
\* linux_helper_channel.rs:44-50).
ChannelAnswersRequest ==
    /\ host.channel # 0 => host.channel = host.requests /\ up = <<>>
    /\ Len(up) <= 1

\* Every call of the host returns, even when the helper hangs: launch, connect
\* and close wait with deadlines, a plain wait only for a killed process
\* (linux_process.rs:99-110, linux_control.rs:304-355).
HostReturns ==
    host.pc \notin {"idle", "leased", "failed", "closed", "dropped"}
      ~> host.pc \in {"leased", "failed", "closed", "dropped"} \/ ~host.alive

\* Unless the helper hangs: once the launch failed, the lease is closed or
\* dropped, or the host died, no target is left and none is started any more,
\* whichever process died before it could arm its death signal
\* (linux_helper_support.rs:93-101, linux_helper.rs:398-404,
\* linux_helper_channel.rs:39-41, 208-210).
NoOrphanedTarget ==
    HelperRuns =>
      ((~host.alive \/ host.pc \in {"failed", "closed", "dropped"})
        ~> [](target # "running"))

=============================================================================
