--------------------------- MODULE ReviewSession ---------------------------
(***************************************************************************)
(* The interactive document review of crates/cli/src/tui: the terminal     *)
(* loop (tui.rs, state.rs, terminal.rs), the background reader it hands    *)
(* loads to (worker.rs), and the folder both look at while another program *)
(* edits it (folder.rs).                                                   *)
(*                                                                         *)
(* The request and the response channel are sync_channel(1), here          *)
(* sequences of length at most one.  A document is its rank in the sorted  *)
(* catalogue order and its text is a version.  A review is recursive and   *)
(* has no candidate folder, whose discovery repeats that of the source.    *)
(* Panes, scrolling and rendering are presentation only and left out.      *)
(***************************************************************************)
EXTENDS Integers, Sequences, FiniteSets

CONSTANTS
    Documents,     \* relative paths, as integers in path order
    Versions,      \* texts a document may have
    MaxOperation,  \* the largest operation number, u64::MAX in the code
    MaxEdits,      \* bound on the changes other programs make
    MaxFaults,     \* bound on failing calls, failing loads and panics
    None           \* no value: no document, no operation, a load that failed

ASSUME ReviewAssumption ==
    /\ Documents \subseteq Int /\ IsFiniteSet(Documents)
    /\ MaxOperation \in Nat \ {0} /\ MaxEdits \in Nat /\ MaxFaults \in Nat
    /\ None \notin Int \cup Versions

VARIABLES
    ui,           \* State of state.rs, with the position of the terminal loop
    worker,       \* Worker of worker.rs and its two channels
    thread,       \* the reader thread and the load it runs
    term,         \* the terminal, the guard that restores it, the render gate
    folder,       \* [Documents -> Versions \cup {None}]: the files
    edits,        \* changes made by other programs so far
    faults,       \* failures so far
    interrupted,  \* the cancellation token of run, set by Ctrl-C
    panicAborts,  \* the build: panic = "abort" (release) or unwinding
    exit          \* how the command ended, None while it runs

vars == <<ui, worker, thread, term, folder, edits, faults, interrupted, panicAborts, exit>>

Min(S) == CHOOSE m \in S : \A n \in S : m <= n

Modes == {"raw", "alternate", "hidden"}

Requests == [index : Nat \cup {None}, document : Documents \cup {None}]
Snapshots == [document : Documents \cup {None}, selected : Nat, total : Nat,
              digest : Versions \cup {None}, text : Versions \cup {None}]
Jobs == [operation : 1..MaxOperation, request : Requests]
Responses == [operation : 1..MaxOperation, result : Snapshots \cup {None}]

ASSUME NoneAssumption ==
    None \notin Jobs \cup Snapshots
              \cup {"ui", "hook", "success", "operational", "cancelled", "aborted"}

LoopSteps == {"top", "response", "draw", "frame", "event"}
LoadSteps == {"list", "inventory", "read"}

TypeOK ==
    /\ ui \in [pc : {"enter", "new", "restore", "take", "join"} \cup LoopSteps,
               pending : 1..MaxOperation \cup {None}, nextOperation : 0..MaxOperation,
               asked : {"open", "reload", "navigate"}, argument : Documents \cup {None},
               help : BOOLEAN, quit : BOOLEAN, shown : Snapshots \cup {None}, ok : BOOLEAN]
    /\ worker.requests \in Seq(Jobs) /\ Len(worker.requests) <= 1
    /\ worker.responses \in Seq(Responses) /\ Len(worker.responses) <= 1
    /\ worker.open \in BOOLEAN /\ worker.cancelled \in BOOLEAN
    /\ worker.busy \in BOOLEAN /\ worker.operation \in 0..MaxOperation
    /\ thread.pc \in {"recv", "received", "loaded", "send", "gone",
                      "panic.flag", "panic.lock", "panic.restore", "panic.abort"} \cup LoadSteps
    /\ thread.job \in Jobs \cup {None}
    /\ thread.toRead \subseteq Documents
    /\ thread.catalog \in [Documents -> Versions \cup {None}]
    /\ thread.selected \in Nat
    /\ thread.result \in Snapshots \cup {None}
    /\ term \in [modes : SUBSET Modes, guarded : SUBSET Modes, stuck : SUBSET Modes,
                 lock : {None, "ui", "hook"}, panicking : BOOLEAN]
    /\ folder \in [Documents -> Versions \cup {None}]
    /\ edits \in 0..MaxEdits /\ faults \in 0..MaxFaults
    /\ interrupted \in BOOLEAN /\ panicAborts \in BOOLEAN
    /\ exit \in {None, "success", "operational", "cancelled", "aborted"}

\* The reader between two loads.
Idle == [pc |-> "recv", job |-> None, toRead |-> {}, selected |-> 0,
         catalog |-> [d \in Documents |-> None], result |-> None]

Init ==
    /\ \E d \in Documents \cup {None} :
          ui = [pc |-> "enter", pending |-> None, nextOperation |-> 0,
                asked |-> "open", argument |-> d,
                help |-> FALSE, quit |-> FALSE, shown |-> None, ok |-> TRUE]
    /\ worker = [requests |-> <<>>, responses |-> <<>>, open |-> TRUE,
                 cancelled |-> FALSE, busy |-> FALSE, operation |-> 0]
    /\ thread = Idle
    /\ term = [modes |-> {}, guarded |-> {}, stuck |-> {}, lock |-> None, panicking |-> FALSE]
    /\ folder \in [Documents -> Versions \cup {None}]
    /\ edits = 0 /\ faults = 0
    /\ interrupted = FALSE
    /\ panicAborts \in BOOLEAN
    /\ exit = None

-----------------------------------------------------------------------------
(* The terminal: with_lifecycle enters three modes and Guard leaves them.  *)

\* The modes entered before m, and left after it.
EnteredBefore(m) ==
    CASE m = "raw" -> {} [] m = "alternate" -> {"raw"} [] m = "hidden" -> {"raw", "alternate"}

EnterMode(m) ==
    /\ ui.pc = "enter" /\ term.guarded = EnteredBefore(m)
    /\ term' = [term EXCEPT !.guarded = @ \cup {m}, !.modes = @ \cup {m}]
    /\ ui' = [ui EXCEPT !.pc = IF m = "hidden" THEN "new" ELSE "enter"]
    /\ UNCHANGED <<worker, thread>>

\* A call that reports an error may still have had its effect, so the guard
\* is told before the call.
EnterFails(m) ==
    /\ ui.pc = "enter" /\ term.guarded = EnteredBefore(m)
    /\ \E taken \in SUBSET {m} :
          term' = [term EXCEPT !.guarded = @ \cup {m}, !.modes = @ \cup taken]
    /\ ui' = [ui EXCEPT !.pc = "restore", !.ok = FALSE]
    /\ UNCHANGED <<worker, thread>>

\* Guard::restore, one mode after the other.
RestoreMode(m) ==
    /\ ui.pc = "restore" /\ term.guarded = EnteredBefore(m) \cup {m}
    /\ term' = [term EXCEPT !.guarded = @ \ {m}, !.modes = @ \ {m}]
    /\ UNCHANGED <<ui, worker, thread>>

\* It goes on after a call that fails.
RestoreFails(m) ==
    /\ ui.pc = "restore" /\ term.guarded = EnteredBefore(m) \cup {m}
    /\ \E left \in SUBSET {m} :
          term' = [term EXCEPT !.guarded = @ \ {m}, !.modes = @ \ left, !.stuck = @ \cup {m}]
    /\ ui' = [ui EXCEPT !.ok = FALSE]
    /\ UNCHANGED <<worker, thread>>

\* Terminal::new, a draw, event::poll or event::read fails: the closure ends
\* with the error, and with it any render lock.
CallFails ==
    /\ ui.pc \in {"new", "frame", "event"}
    /\ ui' = [ui EXCEPT !.pc = "restore", !.ok = FALSE]
    /\ term' = [term EXCEPT !.lock = IF ui.pc = "frame" THEN None ELSE @]
    /\ UNCHANGED <<worker, thread>>

-----------------------------------------------------------------------------
(* Submitting a load.                                                      *)

\* State::begin: one operation at a time, and none once the counter is at its
\* end.
Begins(s) == s.pending = None /\ s.nextOperation < MaxOperation

\* Worker::submit, with try_send on the request channel.
Submits == ~worker.busy /\ worker.open /\ worker.requests = <<>> /\ thread.pc # "gone"

\* submit of tui.rs: a refused submission completes at once with an error.
Submit(s, asked, request) ==
    IF ~Begins(s) THEN ui' = s /\ UNCHANGED worker
    ELSE LET operation == s.nextOperation + 1 IN
         /\ ui' = [s EXCEPT !.nextOperation = operation, !.asked = asked,
                            !.pending = IF Submits THEN operation ELSE None]
         /\ worker' = IF worker.busy THEN worker
                      ELSE [worker EXCEPT !.busy = Submits, !.operation = operation,
                                          !.requests = IF Submits
                                                       THEN <<[operation |-> operation,
                                                               request |-> request]>>
                                                       ELSE @]

\* Terminal::new, then the load the command was started for.
Open ==
    /\ ui.pc = "new"
    /\ Submit([ui EXCEPT !.pc = "top"], "open", [index |-> None, document |-> ui.argument])
    /\ UNCHANGED <<thread, term>>

-----------------------------------------------------------------------------
(* The loop of interactive.                                                *)

Top ==
    /\ ui.pc = "top"
    /\ ui' = [ui EXCEPT !.pc = IF ui.quit \/ interrupted THEN "restore" ELSE "response"]
    /\ UNCHANGED <<worker, thread, term>>

\* Mutant: a failed load stays pending.
CompleteOnlySuccess(s, response) ==
    IF s.pending # response.operation \/ response.result = None THEN s
    ELSE [s EXCEPT !.pending = None, !.shown = response.result]

\* State::complete: an answer to another operation is ignored, a failure
\* keeps the snapshot.
Complete(s, response) ==
    IF s.pending # response.operation THEN s
    ELSE [s EXCEPT !.pending = None,
                   !.shown = IF response.result = None THEN @ ELSE response.result]

\* Mutant: a reader that has gone is reported as nothing to receive.
ResponseIgnoringStop ==
    /\ ui.pc = "response"
    /\ \/ /\ worker.responses # <<>>
          /\ worker' = [worker EXCEPT !.responses = <<>>, !.busy = FALSE]
          /\ ui' = [Complete(ui, Head(worker.responses)) EXCEPT !.pc = "draw"]
       \/ /\ worker.responses = <<>>
          /\ ui' = [ui EXCEPT !.pc = "draw"]
          /\ UNCHANGED worker
    /\ UNCHANGED <<thread, term>>

\* Worker::response: a buffered answer, or the news that the reader stopped
\* in the middle of an operation, which ends the loop with an error.
Response ==
    /\ ui.pc = "response"
    /\ \/ /\ worker.responses # <<>>
          /\ worker' = [worker EXCEPT !.responses = <<>>, !.busy = FALSE]
          /\ ui' = [Complete(ui, Head(worker.responses)) EXCEPT !.pc = "draw"]
       \/ /\ worker.responses = <<>> /\ thread.pc = "gone" /\ worker.busy
          /\ worker' = [worker EXCEPT !.busy = FALSE]
          /\ ui' = [ui EXCEPT !.pc = "restore", !.ok = FALSE]
       \/ /\ worker.responses = <<>> /\ ~(thread.pc = "gone" /\ worker.busy)
          /\ ui' = [ui EXCEPT !.pc = "draw"]
          /\ UNCHANGED worker
    /\ UNCHANGED <<thread, term>>

\* RenderGate::render takes the lock, then refuses to draw during a panic.
Render ==
    /\ ui.pc = "draw"
    /\ term.lock = None
    /\ \/ /\ ~term.panicking
          /\ ui' = [ui EXCEPT !.pc = "frame"]
          /\ term' = [term EXCEPT !.lock = "ui"]
       \/ /\ term.panicking
          /\ ui' = [ui EXCEPT !.pc = "restore", !.ok = FALSE]
          /\ UNCHANGED term
    /\ UNCHANGED <<worker, thread>>

\* The frame is written and the lock released.
Frame ==
    /\ ui.pc = "frame"
    /\ ui' = [ui EXCEPT !.pc = "event"]
    /\ term' = [term EXCEPT !.lock = None]
    /\ UNCHANGED <<worker, thread>>

\* event::poll ends without an event, or with one that changes nothing
\* modelled here.
Poll ==
    /\ ui.pc = "event"
    /\ ui' = [ui EXCEPT !.pc = "top"]
    /\ UNCHANGED <<worker, thread, term, interrupted>>

Quit ==
    /\ ui.pc = "event"
    /\ ui' = [ui EXCEPT !.pc = "top", !.quit = TRUE]
    /\ interrupted' \in {interrupted, TRUE}   \* q, or Ctrl-C read as a key
    /\ UNCHANGED <<worker, thread, term>>

Help ==
    /\ ui.pc = "event"
    /\ ui' = [ui EXCEPT !.pc = "top", !.help = ~@]
    /\ UNCHANGED <<worker, thread, term, interrupted>>

\* Action::Reload asks for the path shown, or repeats the first request when
\* nothing has been shown yet.
Reload ==
    /\ ui.pc = "event" /\ ~ui.help /\ ui.pending = None
    /\ Submit([ui EXCEPT !.pc = "top"], "reload",
              [index |-> None,
               document |-> IF ui.shown = None THEN ui.argument ELSE ui.shown.document])
    /\ UNCHANGED <<thread, term, interrupted>>

\* Action::Document: navigation_index, then submit.
Navigate(delta) ==
    /\ ui.pc = "event" /\ ~ui.help /\ ui.pending = None
    /\ ui.shown # None
    /\ ui.shown.selected + delta \in 0..(ui.shown.total - 1)
    /\ Submit([ui EXCEPT !.pc = "top"], "navigate",
              [index |-> ui.shown.selected + delta, document |-> None])
    /\ UNCHANGED <<thread, term, interrupted>>

-----------------------------------------------------------------------------
(* Worker::shutdown, once the terminal is restored, and finish_output.     *)

Cancel ==
    /\ ui.pc = "restore" /\ term.guarded = {}
    /\ worker' = [worker EXCEPT !.cancelled = TRUE]
    /\ ui' = [ui EXCEPT !.pc = "take"]
    /\ UNCHANGED <<thread, term, exit>>

\* Mutant: the request sender is kept, so that the reader waits for more.
TakeNothing ==
    /\ ui.pc = "take"
    /\ ui' = [ui EXCEPT !.pc = "join"]
    /\ UNCHANGED <<worker, thread, term, exit>>

TakeRequests ==
    /\ ui.pc = "take"
    /\ worker' = [worker EXCEPT !.open = FALSE]
    /\ ui' = [ui EXCEPT !.pc = "join"]
    /\ UNCHANGED <<thread, term, exit>>

Join ==
    /\ ui.pc = "join" /\ thread.pc = "gone"
    /\ worker' = [worker EXCEPT !.busy = FALSE]
    /\ exit' = IF interrupted THEN "cancelled" ELSE IF ui.ok THEN "success" ELSE "operational"
    /\ UNCHANGED <<ui, thread, term>>

-----------------------------------------------------------------------------
(* The reader thread of Worker::new and folder::load.                      *)

Receive ==
    /\ thread.pc = "recv"
    /\ \/ /\ worker.requests # <<>>
          /\ thread' = [thread EXCEPT !.pc = "received", !.job = Head(worker.requests)]
          /\ worker' = [worker EXCEPT !.requests = <<>>]
       \/ /\ worker.requests = <<>> /\ ~worker.open
          /\ thread' = [thread EXCEPT !.pc = "gone"]
          /\ UNCHANGED worker
    /\ UNCHANGED <<term, exit>>

\* The two cancellation checks of the loop, before and after the load.
CheckCancelled ==
    /\ \/ /\ thread.pc = "received"
          /\ thread' = [thread EXCEPT !.pc = IF worker.cancelled THEN "gone" ELSE "list"]
       \/ /\ thread.pc = "loaded"
          /\ thread' = [thread EXCEPT !.pc = IF worker.cancelled THEN "gone" ELSE "send"]
    /\ UNCHANGED <<worker, term, exit>>

Loaded(result) ==
    thread' = [Idle EXCEPT !.pc = "loaded", !.job = thread.job, !.result = result]

\* Any stage of a load may fail: a read error, a limit, an unsupported text,
\* the cancellation it polls.
LoadFails ==
    /\ thread.pc \in LoadSteps
    /\ Loaded(None)
    /\ UNCHANGED <<worker, term, exit>>

\* walk_cancellable lists the folder, then reads the entries one by one.
List ==
    /\ thread.pc = "list"
    /\ thread' = [thread EXCEPT !.pc = "inventory",
                                !.toRead = {d \in Documents : folder[d] # None},
                                !.catalog = [d \in Documents |-> None]]
    /\ UNCHANGED <<worker, term, exit>>

\* An entry that has gone since the listing is skipped as unreadable, or fails
\* the whole catalogue when it went after classify_entry looked at it.
Inventory ==
    /\ thread.pc = "inventory" /\ thread.toRead # {}
    /\ LET d == Min(thread.toRead) IN
       \/ thread' = [thread EXCEPT !.toRead = @ \ {d}, !.catalog[d] = folder[d]]
       \/ folder[d] = None /\ Loaded(None)
    /\ UNCHANGED <<worker, term, exit>>

Eligible == {d \in Documents : thread.catalog[d] # None}
Position(d) == Cardinality({e \in Eligible : e < d})
DocumentAt(i) == CHOOSE d \in Eligible : Position(d) = i

\* selection: an index is clamped, a path must be in the catalogue.
Selection(request) ==
    IF request.index # None
    THEN IF request.index < Cardinality(Eligible) THEN request.index
         ELSE IF Eligible = {} THEN 0 ELSE Cardinality(Eligible) - 1
    ELSE IF request.document = None THEN 0
    ELSE IF request.document \in Eligible THEN Position(request.document)
    ELSE None

Select ==
    /\ thread.pc = "inventory" /\ thread.toRead = {}
    /\ LET selected == Selection(thread.job.request) IN
       IF selected = None THEN Loaded(None)
       ELSE IF Eligible = {}
       THEN Loaded([document |-> None, selected |-> 0, total |-> 0,
                    digest |-> None, text |-> None])
       ELSE thread' = [thread EXCEPT !.pc = "read", !.selected = selected]
    /\ UNCHANGED <<worker, term, exit>>

Snapshot(d) ==
    [document |-> d, selected |-> thread.selected, total |-> Cardinality(Eligible),
     digest |-> thread.catalog[d], text |-> folder[d]]

\* Mutant: the bytes read for review are not compared with the catalogue.
ReadUnchecked ==
    /\ thread.pc = "read"
    /\ LET d == DocumentAt(thread.selected) IN
       Loaded(IF folder[d] # None THEN Snapshot(d) ELSE None)
    /\ UNCHANGED <<worker, term, exit>>

\* review_selected reads the document again and compares its digest.
Read ==
    /\ thread.pc = "read"
    /\ LET d == DocumentAt(thread.selected) IN
       Loaded(IF folder[d] # None /\ folder[d] = thread.catalog[d]
              THEN Snapshot(d) ELSE None)
    /\ UNCHANGED <<worker, term, exit>>

\* try_send of the answer; the thread ends if the channel is full.
Send ==
    /\ thread.pc = "send"
    /\ IF worker.responses = <<>>
       THEN /\ worker' = [worker EXCEPT !.responses =
                             <<[operation |-> thread.job.operation, result |-> thread.result]>>]
            /\ thread' = Idle
       ELSE /\ thread' = [thread EXCEPT !.pc = "gone"]
            /\ UNCHANGED worker
    /\ UNCHANGED <<term, exit>>

-----------------------------------------------------------------------------
(* A panic in a load, and the hook PanicRestoration installs.              *)

\* An unwinding thread drops its channel ends; an aborting build runs
\* RenderGate::restore_for_panic on the thread first, while with_terminal has
\* its hook installed.
Panic ==
    /\ thread.pc \in LoadSteps
    /\ thread' = [thread EXCEPT !.pc = IF ~panicAborts THEN "gone"
                                      ELSE IF ui.pc \in {"take", "join"} THEN "panic.abort"
                                      ELSE "panic.flag"]
    /\ UNCHANGED <<worker, term, exit>>

HookFlag ==
    /\ thread.pc = "panic.flag"
    /\ term' = [term EXCEPT !.panicking = TRUE]
    /\ thread' = [thread EXCEPT !.pc = "panic.lock"]
    /\ UNCHANGED <<worker, exit>>

\* Mutant: the hook restores without waiting for a frame being drawn.
HookLockWithoutWait ==
    /\ thread.pc = "panic.lock"
    /\ thread' = [thread EXCEPT !.pc = "panic.restore"]
    /\ UNCHANGED <<worker, term, exit>>

HookLock ==
    /\ thread.pc = "panic.lock" /\ term.lock = None
    /\ term' = [term EXCEPT !.lock = "hook"]
    /\ thread' = [thread EXCEPT !.pc = "panic.restore"]
    /\ UNCHANGED <<worker, exit>>

\* restore_before_panic; the lock is released at the end of the hook.
HookRestore ==
    /\ thread.pc = "panic.restore"
    /\ term' = [term EXCEPT !.modes = {}, !.lock = None]
    /\ thread' = [thread EXCEPT !.pc = "panic.abort"]
    /\ UNCHANGED <<worker, exit>>

\* A call of it that fails is ignored.
HookRestoreFails(m) ==
    /\ thread.pc = "panic.restore"
    /\ term' = [term EXCEPT !.modes = @ \cap {m}, !.stuck = @ \cup {m}, !.lock = None]
    /\ thread' = [thread EXCEPT !.pc = "panic.abort"]
    /\ UNCHANGED <<worker, exit>>

Abort ==
    /\ thread.pc = "panic.abort"
    /\ exit' = "aborted"
    /\ UNCHANGED <<worker, thread, term>>

-----------------------------------------------------------------------------
(* Other programs, the user's signals, and the specification.              *)

\* Another program creates, changes or removes a document.
Edit(d) ==
    /\ edits < MaxEdits
    /\ \E v \in (Versions \cup {None}) \ {folder[d]} : folder' = [folder EXCEPT ![d] = v]
    /\ edits' = edits + 1
    /\ UNCHANGED <<ui, worker, thread, term, interrupted>>

\* The ctrlc handler of run.
Signal ==
    /\ ~interrupted
    /\ interrupted' = TRUE
    /\ UNCHANGED <<ui, worker, thread, term, folder, edits>>

Terminal ==
    \/ \E m \in Modes : EnterMode(m) \/ RestoreMode(m)
    \/ Open \/ Top \/ Response \/ Render \/ Frame

Key == Poll \/ Quit \/ Help \/ Reload \/ \E delta \in {-1, 1} : Navigate(delta)

Shutdown == Cancel \/ TakeRequests \/ Join

Ui ==
    /\ exit = None
    /\ \/ Terminal /\ UNCHANGED <<interrupted, exit>>
       \/ Key /\ UNCHANGED exit
       \/ Shutdown /\ UNCHANGED interrupted
    /\ UNCHANGED <<folder, edits, faults, panicAborts>>

Reader ==
    /\ exit = None
    /\ \/ Receive \/ CheckCancelled \/ List \/ Inventory \/ Select \/ Read \/ Send
       \/ HookFlag \/ HookLock \/ HookRestore \/ Abort
    /\ UNCHANGED <<ui, folder, edits, faults, interrupted, panicAborts>>

Fault ==
    /\ exit = None
    /\ faults < MaxFaults /\ faults' = faults + 1
    /\ \/ \E m \in Modes : EnterFails(m) \/ RestoreFails(m)
       \/ CallFails
       \/ (LoadFails \/ Panic \/ \E m \in Modes : HookRestoreFails(m)) /\ UNCHANGED ui
    /\ UNCHANGED <<folder, edits, interrupted, panicAborts, exit>>

Environment ==
    /\ exit = None
    /\ Signal \/ \E d \in Documents : Edit(d)
    /\ UNCHANGED <<faults, panicAborts, exit>>

Next == Ui \/ Reader \/ Fault \/ Environment

\* Both threads are scheduled; a load, bounded in entries, depth and bytes,
\* comes to an end.
Spec == Init /\ [][Next]_vars /\ WF_vars(Ui) /\ WF_vars(Reader)

-----------------------------------------------------------------------------
(* Properties.                                                             *)

\* The operations under way: queued, with the reader, or answered.
InFlight ==
    [i \in DOMAIN worker.requests |-> worker.requests[i].operation]
    \o (IF thread.job = None THEN <<>> ELSE <<thread.job.operation>>)
    \o [i \in DOMAIN worker.responses |-> worker.responses[i].operation]

\* Until the session ends, the operation the screen waits for, and no other,
\* is in exactly one place on its way through the reader (worker.rs:71-107,
\* state.rs:66-75), so that no answer is dropped for a full channel
\* (worker.rs:49-58) and none meets a different pending operation.
OneOperationInFlight ==
    /\ TypeOK
    /\ ui.pc \in {"enter", "new"} \cup LoopSteps =>
          /\ InFlight = IF ui.pending = None THEN <<>> ELSE <<ui.pending>>
          /\ worker.busy <=> ui.pending # None

\* The terminal is the screen's while it draws and the user's afterwards: a
\* frame is never written once the panic hook began to restore it
\* (terminal.rs:38-60), and once Guard::restore or the hook is done, before the
\* reader is joined (tui.rs:141-142), no mode is left on except one whose
\* restoring call failed (terminal.rs:178-200, 154-159).
TerminalHandedBack ==
    /\ [][ui.pc = "frame" /\ ui' # ui => "alternate" \in term.modes]_vars
    /\ [](\/ ui.pc \in {"take", "join"}
          \/ ui.pc = "restore" /\ term.guarded = {}
          \/ exit = "aborted"
          => term.modes \subseteq term.stuck)

\* What is shown is one document of the catalogue it is counted in: its text
\* has the digest discovery recorded, although the file may have changed
\* between the two reads (folder.rs:194-222, document_intake.rs:132-138), and a
\* reload that succeeds shows the same document, wherever the folder's changes
\* have moved it (tui.rs:130-136; docs/current-state.md:155).
ShownMatchesCatalogue ==
    /\ [](ui.shown # None =>
            /\ ui.shown.text = ui.shown.digest
            /\ ui.shown.total > 0 =>
                  ui.shown.document # None /\ ui.shown.selected < ui.shown.total)
    /\ [][/\ ui.asked = "reload" /\ ui.shown # None /\ ui.shown.document # None
          /\ ui'.shown # ui.shown
          => ui'.shown.document = ui.shown.document]_vars

\* A load that was started is answered, or the session ends: the screen never
\* stays loading, even when the reader panics (worker.rs:98-104).
LoadingEnds == ui.pending # None ~> ui.pending = None \/ exit # None

\* A session that is quit, interrupted or in error comes to an end: joining
\* the reader (worker.rs:109-116) does not wait for ever.
SessionEnds == ui.quit \/ interrupted \/ ui.pc = "restore" ~> exit # None
=============================================================================
