---------------------------- MODULE ReviewProofs ----------------------------
(***************************************************************************)
(* Theorems about ReviewSession, for any documents, versions and bounds.   *)
(*                                                                         *)
(* Three facts carry each other: where the one operation is (Flight), who  *)
(* owns the terminal (Terminals), and what a load that is under way will   *)
(* show (Catalogue).                                                       *)
(***************************************************************************)
EXTENDS ReviewSession, FiniteSetTheorems, WellFoundedInduction, TLAPS

-----------------------------------------------------------------------------
(* The inductive invariant.                                                *)

UiPcs == {"enter", "new", "restore", "take", "join"} \cup LoopSteps
ThreadPcs == {"recv", "received", "loaded", "send", "gone",
              "panic.flag", "panic.lock", "panic.restore", "panic.abort"} \cup LoadSteps

UiRecords ==
    [pc : UiPcs, pending : 1..MaxOperation \cup {None}, nextOperation : 0..MaxOperation,
     asked : {"open", "reload", "navigate"}, argument : Documents \cup {None},
     help : BOOLEAN, quit : BOOLEAN, shown : Snapshots \cup {None}, ok : BOOLEAN]
WorkerRecords ==
    [requests : {<<>>} \cup {<<j>> : j \in Jobs}, responses : {<<>>} \cup {<<r>> : r \in Responses},
     open : BOOLEAN, cancelled : BOOLEAN, busy : BOOLEAN, operation : 0..MaxOperation]
ThreadRecords ==
    [pc : ThreadPcs, job : Jobs \cup {None}, toRead : SUBSET Documents, selected : Nat,
     catalog : [Documents -> Versions \cup {None}], result : Snapshots \cup {None}]
TermRecords ==
    [modes : SUBSET Modes, guarded : SUBSET Modes, stuck : SUBSET Modes,
     lock : {None, "ui", "hook"}, panicking : BOOLEAN]

Records ==
    /\ ui \in UiRecords /\ worker \in WorkerRecords /\ thread \in ThreadRecords
    /\ term \in TermRecords

Smalls ==
    /\ folder \in [Documents -> Versions \cup {None}]
    /\ edits \in 0..MaxEdits /\ faults \in 0..MaxFaults
    /\ interrupted \in BOOLEAN /\ panicAborts \in BOOLEAN
    /\ exit \in {None, "success", "operational", "cancelled", "aborted"}

Types == Records /\ Smalls

InLoop == ui.pc \in {"enter", "new"} \cup LoopSteps

\* A thread that works has a job.
Employed ==
    /\ thread.pc = "recv" => thread.job = None
    /\ thread.pc \notin {"recv", "gone"} => thread.job # None

\* While the screen loops, its operation is in one place.
Flight ==
    InLoop =>
      /\ worker.open /\ ~worker.cancelled
      /\ worker.busy <=> ui.pending # None
      /\ thread.job = None <=> thread.pc = "recv"
      /\ ui.pc \in {"enter", "new"} => ui.pending = None
      /\ worker.requests # <<>> =>
            /\ Head(worker.requests).operation = ui.pending
            /\ thread.job = None /\ worker.responses = <<>>
      /\ thread.job # None =>
            /\ thread.job.operation = ui.pending
            /\ worker.requests = <<>> /\ worker.responses = <<>>
      /\ worker.responses # <<>> =>
            /\ Head(worker.responses).operation = ui.pending
            /\ worker.requests = <<>> /\ thread.job = None
      /\ worker.requests = <<>> /\ thread.job = None /\ worker.responses = <<>> =>
            ui.pending = None

\* Who owns the terminal.
Terminals ==
    /\ term.modes \subseteq term.guarded \cup term.stuck
    /\ ui.pc = "enter" => term.modes = term.guarded /\ ~term.panicking
    /\ ui.pc \in {"take", "join"} => term.guarded = {}
    /\ ui.pc = "frame" <=> term.lock = "ui"
    /\ thread.pc = "panic.restore" <=> term.lock = "hook"
    /\ term.panicking => thread.pc \in {"panic.lock", "panic.restore", "panic.abort"}
    /\ thread.pc \in {"panic.lock", "panic.restore"} => term.panicking
    /\ ui.pc \in {"new"} \cup LoopSteps /\ (~term.panicking \/ ui.pc = "frame") =>
          term.modes = Modes
    /\ thread.pc = "panic.abort" \/ exit = "aborted" => term.modes \subseteq term.stuck

\* A snapshot of one document of the catalogue it is counted in.
Good(snapshot) ==
    snapshot # None =>
      /\ snapshot.text = snapshot.digest
      /\ snapshot.total > 0 => snapshot.document # None /\ snapshot.selected < snapshot.total

Catalogue ==
    /\ Good(ui.shown) /\ Good(thread.result)
    /\ worker.responses # <<>> => Good(Head(worker.responses).result)
    /\ thread.pc = "read" => thread.selected < Cardinality(Eligible)

\* A load that was asked for the document shown will show that document.
Asks(request) == request.index = None /\ request.document = ui.shown.document

Wanted ==
    InLoop /\ ui.pending # None /\ ui.asked = "reload" /\ ui.shown # None
    /\ ui.shown.document # None

Reloading ==
    Wanted =>
      /\ worker.requests # <<>> => Asks(Head(worker.requests).request)
      /\ thread.job # None => Asks(thread.job.request)
      /\ thread.pc = "read" => DocumentAt(thread.selected) = ui.shown.document
      /\ thread.pc \in {"loaded", "send"} /\ thread.result # None =>
            thread.result.document = ui.shown.document
      /\ worker.responses # <<>> /\ Head(worker.responses).result # None =>
            Head(worker.responses).result.document = ui.shown.document

RInv == Types /\ Employed /\ Flight /\ Terminals /\ Catalogue /\ Reloading

-----------------------------------------------------------------------------
(* Ranks in a finite set of integers.                                      *)

Below(E, d) == {e \in E : e < d}
Rank(E, d) == Cardinality(Below(E, d))

\* A set of numbers has a least one.
LEMMA Least ==
    ASSUME NEW N, N \subseteq Nat, N # {}
    PROVE  \E n \in N : \A m \in N : n <= m
<1>1. PICK n \in N : \A m \in N : ~(<<m, n>> \in OpToRel(<, Nat))
  BY NatLessThanWellFounded, WFMin, Zenon
<1>2. \A m \in N : n <= m
  <2> SUFFICES ASSUME NEW m \in N PROVE n <= m
    OBVIOUS
  <2>1. n \in Nat /\ m \in Nat
    BY <1>1, Zenon
  <2>2. ~(<<m, n>> \in OpToRel(<, Nat))
    BY <1>1, Zenon
  <2>3. ~(m < n)
    BY <2>1, <2>2 DEF OpToRel
  <2> QED
    BY <2>1, <2>3
<1> QED
  BY <1>2

\* Ranks are natural numbers less than the size of the set.
LEMMA RankBounded ==
    ASSUME NEW E, IsFiniteSet(E), E \subseteq Int, NEW d \in E
    PROVE  /\ IsFiniteSet(Below(E, d)) /\ Rank(E, d) \in Nat
           /\ Cardinality(E) \in Nat /\ Rank(E, d) < Cardinality(E)
<1>1. Below(E, d) \in SUBSET E /\ d \notin Below(E, d)
  BY DEF Below
<1>2. IsFiniteSet(Below(E, d)) /\ Cardinality(Below(E, d)) <= Cardinality(E)
      /\ (Cardinality(E) = Cardinality(Below(E, d)) => E = Below(E, d))
  BY <1>1, FS_Subset
<1>3. Cardinality(E) \in Nat /\ Cardinality(Below(E, d)) \in Nat
  BY <1>2, FS_CardinalityType
<1>4. Cardinality(E) # Cardinality(Below(E, d))
  BY <1>1, <1>2
<1> QED
  BY <1>2, <1>3, <1>4 DEF Rank

\* What is below the lower of two elements is below both.
LEMMA BelowBelow ==
    ASSUME NEW E, E \subseteq Int, NEW d \in E, NEW e \in E, d < e
    PROVE  Below(Below(E, e), d) = Below(E, d)
<1>1. \A x \in E : x < d => x < e
  OBVIOUS
<1> QED
  BY <1>1, Zenon DEF Below

\* The order of ranks is that of the elements.
LEMMA RankMonotone ==
    ASSUME NEW E, IsFiniteSet(E), E \subseteq Int, NEW d \in E, NEW e \in E, d < e
    PROVE  Rank(E, d) < Rank(E, e)
<1>1. IsFiniteSet(Below(E, e)) /\ Below(E, e) \subseteq Int /\ d \in Below(E, e)
  BY RankBounded, Zenon DEF Below
<1>2. Rank(Below(E, e), d) < Cardinality(Below(E, e))
  BY <1>1, RankBounded
<1>3. Below(Below(E, e), d) = Below(E, d)
  BY BelowBelow, Zenon
<1> QED
  BY <1>2, <1>3, Zenon DEF Rank

\* Two elements have different ranks.
LEMMA RankInjective ==
    ASSUME NEW E, IsFiniteSet(E), E \subseteq Int, NEW d \in E, NEW e \in E,
           Rank(E, d) = Rank(E, e)
    PROVE  d = e
<1>1. d \in Int /\ e \in Int /\ Rank(E, d) \in Nat /\ Rank(E, e) \in Nat
  BY RankBounded, Zenon
<1>2. d < e => Rank(E, d) < Rank(E, e)
  BY RankMonotone, Zenon
<1>3. e < d => Rank(E, e) < Rank(E, d)
  BY RankMonotone, Zenon
<1> QED
  BY <1>1, <1>2, <1>3

\* The element of the highest rank has all others below it.
LEMMA Greatest ==
    ASSUME NEW E, IsFiniteSet(E), E \subseteq Int, E # {}
    PROVE  \E m \in E : Below(E, m) = E \ {m} /\ Rank(E, m) = Cardinality(E) - 1
<1> DEFINE gaps == {Cardinality(E) - Rank(E, d) : d \in E}
<1>1. \A d \in E : Rank(E, d) \in Nat /\ Cardinality(E) \in Nat /\ Rank(E, d) < Cardinality(E)
  BY RankBounded, Zenon
<1>2. gaps \subseteq Nat /\ gaps # {}
  <2>1. ASSUME NEW d \in E PROVE Cardinality(E) - Rank(E, d) \in Nat
    <3>1. Rank(E, d) \in Nat /\ Cardinality(E) \in Nat /\ Rank(E, d) < Cardinality(E)
      BY <1>1, Zenon
    <3> QED
      BY <3>1
  <2>2. gaps \subseteq Nat
    BY <2>1, Zenon
  <2>3. gaps # {}
    BY Zenon
  <2> QED
    BY <2>2, <2>3, Zenon
<1>3. PICK g \in gaps : \A h \in gaps : g <= h
  <2> HIDE DEF gaps
  <2> QED
    BY <1>2, Least, Zenon
<1>4. PICK m \in E : g = Cardinality(E) - Rank(E, m)
  BY <1>3
<1>5. ASSUME NEW e \in E, e # m PROVE e < m
  <2>1. e \in Int /\ m \in Int /\ Cardinality(E) - Rank(E, e) \in gaps
    OBVIOUS
  <2>2. Cardinality(E) - Rank(E, m) <= Cardinality(E) - Rank(E, e)
    BY <1>3, <1>4, <2>1, Zenon
  <2>3. ~(Rank(E, m) < Rank(E, e))
    BY <1>1, <2>2
  <2>4. ~(m < e)
    BY <2>3, RankMonotone, Zenon
  <2> QED
    BY <1>5, <2>1, <2>4
<1>6. ~(m < m) /\ m \in Int
  OBVIOUS
<1>7. Below(E, m) = E \ {m}
  BY <1>5, <1>6, Zenon DEF Below
<1>8. Cardinality(E \ {m}) = Cardinality(E) - 1
  BY FS_RemoveElement
<1> QED
  BY <1>7, <1>8 DEF Rank

\* Every number less than the size of the set is a rank.
LEMMA RankOnto ==
    ASSUME NEW E, IsFiniteSet(E), E \subseteq Int, NEW i \in Nat, i < Cardinality(E)
    PROVE  \E d \in E : Rank(E, d) = i
<1> DEFINE High == {d \in E : Rank(E, d) >= i}
           ranks == {Rank(E, d) : d \in High}
<1>1. \A d \in E : IsFiniteSet(Below(E, d)) /\ Rank(E, d) \in Nat /\ Cardinality(E) \in Nat
  BY RankBounded, Zenon
<1>2. E # {}
  BY FS_EmptySet
<1>3. PICK m \in E : Rank(E, m) = Cardinality(E) - 1
  BY <1>2, Greatest, Zenon
<1>4. m \in High
  BY <1>1, <1>3
<1>5. ranks \subseteq Nat /\ ranks # {}
  BY <1>1, <1>4
<1>6. PICK r \in ranks : \A s \in ranks : r <= s
  <2> HIDE DEF ranks
  <2> QED
    BY <1>5, Least, Zenon
<1>7. PICK d \in High : r = Rank(E, d)
  BY <1>6
<1>8. ASSUME Rank(E, d) # i PROVE FALSE
  <2>1. d \in E /\ Rank(E, d) \in Nat /\ Rank(E, d) > i /\ IsFiniteSet(Below(E, d))
    BY <1>1, <1>7, <1>8
  <2>2. Below(E, d) # {} /\ Below(E, d) \subseteq Int
    <3>1. Below(E, d) \subseteq Int
      BY Zenon DEF Below
    <3>2. Below(E, d) # {}
      BY <2>1, FS_EmptySet DEF Rank
    <3> QED
      BY <3>1, <3>2
  <2>3. PICK e \in Below(E, d) : Rank(Below(E, d), e) = Cardinality(Below(E, d)) - 1
    BY <2>1, <2>2, Greatest
  <2>4. e \in E /\ e < d /\ e \in Int /\ d \in Int
    BY <2>1, <2>3 DEF Below
  <2>5. Below(Below(E, d), e) = Below(E, e)
    BY <2>1, <2>4, BelowBelow, Zenon
  <2>6. Rank(E, e) = Rank(E, d) - 1
    BY <2>3, <2>5 DEF Rank
  <2>7. Rank(E, e) >= i
    BY <2>1, <2>6
  <2>8. Rank(E, e) \in ranks
    BY <2>4, <2>7, Zenon
  <2>9. Rank(E, d) <= Rank(E, e)
    BY <1>6, <1>7, <2>8, Zenon
  <2> QED
    BY <2>1, <2>6, <2>9
<1> QED
  BY <1>7, <1>8

\* DocumentAt finds the one document at a position of the catalogue, and
\* Position is its inverse.
LEMMA CatalogueOrder ==
    ASSUME Types
    PROVE  /\ IsFiniteSet(Eligible) /\ Cardinality(Eligible) \in Nat
           /\ (Eligible = {} <=> Cardinality(Eligible) = 0)
           /\ \A i \in Nat : i < Cardinality(Eligible) =>
                 DocumentAt(i) \in Eligible /\ DocumentAt(i) \in Documents
           /\ \A d \in Eligible :
                 /\ Position(d) \in Nat /\ Position(d) < Cardinality(Eligible)
                 /\ DocumentAt(Position(d)) = d
<1>1. Eligible \in SUBSET Documents /\ Eligible \subseteq Int
  BY ReviewAssumption, Zenon DEF Eligible
<1>2. IsFiniteSet(Eligible) /\ Cardinality(Eligible) \in Nat
  BY <1>1, ReviewAssumption, FS_Subset, FS_CardinalityType, Zenon
<1>3. \A d : Position(d) = Rank(Eligible, d)
  BY DEF Position, Rank, Below
<1>4. ASSUME NEW i \in Nat, i < Cardinality(Eligible)
      PROVE  DocumentAt(i) \in Eligible
  <2>1. \E d \in Eligible : Position(d) = i
    BY <1>1, <1>2, <1>3, <1>4, RankOnto, Zenon
  <2> QED
    BY <2>1 DEF DocumentAt
<1>5. ASSUME NEW d \in Eligible
      PROVE  /\ Position(d) \in Nat /\ Position(d) < Cardinality(Eligible)
             /\ DocumentAt(Position(d)) = d
  <2>1. Position(d) \in Nat /\ Position(d) < Cardinality(Eligible)
    BY <1>1, <1>2, <1>3, RankBounded, Zenon
  <2>2. DocumentAt(Position(d)) \in Eligible
        /\ Position(DocumentAt(Position(d))) = Position(d)
    BY Zenon DEF DocumentAt
  <2>3. Rank(Eligible, DocumentAt(Position(d))) = Rank(Eligible, d)
    BY <1>3, <2>2
  <2>4. DocumentAt(Position(d)) = d
    <3> DEFINE e == DocumentAt(Position(d))
    <3> HIDE DEF e
    <3>1. e \in Eligible /\ Rank(Eligible, e) = Rank(Eligible, d)
      BY <2>2, <2>3, Zenon DEF e
    <3>2. e = d
      BY <1>1, <1>2, <3>1, RankInjective, Zenon
    <3> QED
      BY <3>2 DEF e
  <2> QED
    BY <2>1, <2>4, Zenon
<1>6. Eligible = {} <=> Cardinality(Eligible) = 0
  BY <1>2, FS_EmptySet
<1> QED
  BY <1>1, <1>2, <1>4, <1>5, <1>6, Zenon

-----------------------------------------------------------------------------
(* What a step leaves alone.                                               *)

Loads == Employed /\ Flight /\ Catalogue /\ Reloading

\* A step of the screen that keeps the pending load keeps the loads sound.
LEMMA ScreenMoves ==
    ASSUME RInv, UNCHANGED <<worker, thread>>,
           ui'.pending = ui.pending, ui'.asked = ui.asked, ui'.shown = ui.shown,
           InLoop, InLoop', ui'.pc \in {"enter", "new"} => ui.pc \in {"enter", "new"}
    PROVE  Loads'
<1> USE DEF RInv
<1>1. Employed'
  BY DEF Employed
<1>2. Flight'
  BY DEF Flight
<1>3. Catalogue'
  BY DEF Catalogue, Good, Eligible
<1>4. DocumentAt(thread.selected)' = DocumentAt(thread.selected)
  BY DEF DocumentAt, Position, Eligible
<1>5. Reloading'
  BY <1>4 DEF Reloading, Wanted, Asks
<1> QED
  BY <1>1, <1>2, <1>3, <1>5 DEF Loads

\* Once the screen has left its loop, the answers are all that matters.
LEMMA LoopLeft ==
    ASSUME RInv, thread' = thread, ui'.shown = ui.shown,
           worker'.responses = worker.responses, ~InLoop'
    PROVE  Loads'
<1> USE DEF RInv
<1>1. Employed'
  BY DEF Employed
<1>2. Flight' /\ Reloading'
  BY DEF Flight, Reloading, Wanted
<1>3. Catalogue'
  BY DEF Catalogue, Good, Eligible
<1> QED
  BY <1>1, <1>2, <1>3 DEF Loads

\* A step of the reader that keeps its job.
LEMMA ReaderMoves ==
    ASSUME RInv, UNCHANGED <<ui, worker>>,
           thread'.job = thread.job, thread.pc \notin {"recv", "gone"}, thread'.pc # "recv",
           Good(thread'.result),
           thread'.pc = "read" => thread'.selected < Cardinality(Eligible'),
           Wanted /\ thread'.pc = "read" =>
              DocumentAt(thread.selected)' = ui.shown.document,
           Wanted /\ thread'.pc \in {"loaded", "send"} /\ thread'.result # None =>
              thread'.result.document = ui.shown.document
    PROVE  Loads'
<1> USE DEF RInv
<1>1. Employed' /\ thread.job # None
  BY DEF Employed
<1>2. Flight'
  BY <1>1 DEF Flight, InLoop
<1>3. Catalogue'
  BY DEF Catalogue, Good
<1>4. Reloading'
  BY DEF Reloading, Wanted, Asks, InLoop
<1> QED
  BY <1>1, <1>2, <1>3, <1>4 DEF Loads

\* The invariant from its parts.
LEMMA Assembled ==
    ASSUME Records', Smalls', Loads', Terminals'
    PROVE  RInv'
  BY DEF Loads, RInv, Types

\* While nothing is pending, both channels are empty and the reader waits.
LEMMA IdleReader ==
    ASSUME RInv, ui.pc \in {"enter", "new"} \/ (InLoop /\ ui.pending = None)
    PROVE  /\ ui.pending = None /\ ~worker.busy /\ worker.open
           /\ thread.pc = "recv" /\ thread.job = None
           /\ worker.requests = <<>> /\ worker.responses = <<>>
<1>1. /\ thread.job # None => thread.job.operation \in Int
      /\ worker.requests # <<>> => Head(worker.requests).operation \in Int
      /\ worker.responses # <<>> => Head(worker.responses).operation \in Int
  BY DEF RInv, Types, Records, WorkerRecords, ThreadRecords, Jobs, Responses
<1>2. InLoop /\ ui.pending = None /\ ui.pending \notin Int
  BY ReviewAssumption DEF RInv, Flight, InLoop
<1> QED
  BY <1>1, <1>2 DEF RInv, Flight

-----------------------------------------------------------------------------
(* The screen enters and leaves the terminal.                              *)

\* Entering a terminal mode, which the guard will leave.
LEMMA EnterModeKeeps ==
    ASSUME RInv, Smalls', exit = None, UNCHANGED exit, NEW m \in Modes, EnterMode(m)
    PROVE  RInv'
<1>1. /\ ui.pc = "enter" /\ ui'.pc \in {"enter", "new"} /\ term.guarded = EnteredBefore(m)
      /\ ui'.pending = ui.pending /\ ui'.asked = ui.asked /\ ui'.shown = ui.shown
      /\ UNCHANGED <<worker, thread>> /\ ui' \in UiRecords
  BY DEF EnterMode, RInv, Types, Records, UiRecords, UiPcs
<1>2. /\ term' \in TermRecords /\ term'.guarded = term.guarded \cup {m}
      /\ term'.modes = term.modes \cup {m}
      /\ term'.stuck = term.stuck /\ term'.lock = term.lock /\ term'.panicking = term.panicking
  BY Zenon DEF EnterMode, RInv, Types, Records, TermRecords
<1>3. Records'
  BY <1>1, <1>2 DEF RInv, Types, Records
<1>4. Loads'
  BY <1>1, ScreenMoves DEF InLoop
<1>5. ui'.pc = "new" => term.guarded = {"raw", "alternate"} /\ m = "hidden"
  BY <1>1 DEF EnterMode, EnteredBefore, RInv, Types, Records, UiRecords
<1>6. ui'.pc = "new" => term'.modes = Modes
  BY <1>1, <1>2, <1>5 DEF RInv, Terminals, Modes
<1>7. ~term.panicking /\ term.modes = term.guarded /\ term.lock \notin {"ui", "hook"}
      /\ thread.pc \notin {"panic.restore", "panic.lock"}
      /\ (thread.pc = "panic.abort" \/ exit = "aborted" => term.modes \subseteq term.stuck)
  BY <1>1 DEF RInv, Terminals
<1>8. thread.pc = "recv" /\ exit # "aborted"
  BY <1>1, IdleReader, NoneAssumption
<1>9. Terminals'
  BY <1>1, <1>2, <1>6, <1>7, <1>8 DEF Terminals, LoopSteps
<1> QED
  BY <1>3, <1>4, <1>9, Assembled

\* A mode that cannot be entered sends the screen to its restoration.
LEMMA EnterFailsKeeps ==
    ASSUME RInv, Smalls', exit = None, UNCHANGED exit, NEW m \in Modes, EnterFails(m)
    PROVE  RInv'
<1>1. /\ ui.pc = "enter" /\ ui'.pc = "restore" /\ ui'.shown = ui.shown
      /\ UNCHANGED <<worker, thread>> /\ ui' \in UiRecords
  BY Zenon DEF EnterFails, RInv, Types, Records, UiRecords, UiPcs
<1>2. PICK taken \in SUBSET {m} :
          term' = [term EXCEPT !.guarded = @ \cup {m}, !.modes = @ \cup taken]
  BY Zenon DEF EnterFails
<1>3. /\ term' \in TermRecords /\ term'.guarded = term.guarded \cup {m}
      /\ term'.modes \subseteq term.modes \cup {m}
      /\ term'.stuck = term.stuck /\ term'.lock = term.lock /\ term'.panicking = term.panicking
  BY <1>2, Zenon DEF RInv, Types, Records, TermRecords
<1>4. Records'
  BY <1>1, <1>3 DEF RInv, Types, Records
<1>5. Loads'
  BY <1>1, LoopLeft DEF InLoop, LoopSteps
<1>6. /\ ~term.panicking /\ term.modes = term.guarded /\ term.lock \notin {"ui", "hook"}
      /\ thread.pc = "recv" /\ exit # "aborted"
  BY <1>1, IdleReader, NoneAssumption DEF RInv, Terminals
<1>7. Terminals'
  BY <1>1, <1>3, <1>6 DEF Terminals, LoopSteps
<1> QED
  BY <1>4, <1>5, <1>7, Assembled

\* The guard leaves the modes it entered.
LEMMA RestoreModeKeeps ==
    ASSUME RInv, Smalls', UNCHANGED exit, NEW m \in Modes, RestoreMode(m)
    PROVE  RInv'
<1>1. /\ ui.pc = "restore" /\ UNCHANGED <<ui, worker, thread>>
  BY DEF RestoreMode
<1>2. /\ term' \in TermRecords /\ term'.guarded = term.guarded \ {m}
      /\ term'.modes = term.modes \ {m}
      /\ term'.stuck = term.stuck /\ term'.lock = term.lock /\ term'.panicking = term.panicking
  BY Zenon DEF RestoreMode, RInv, Types, Records, TermRecords
<1>3. Records'
  BY <1>1, <1>2 DEF RInv, Types, Records
<1>4. Loads'
  BY <1>1, LoopLeft DEF InLoop, LoopSteps
<1>5. Terminals'
  BY <1>1, <1>2 DEF RInv, Terminals, LoopSteps
<1> QED
  BY <1>3, <1>4, <1>5, Assembled

\* A restoring call that fails leaves its mode stuck.
LEMMA RestoreFailsKeeps ==
    ASSUME RInv, Smalls', UNCHANGED exit, NEW m \in Modes, RestoreFails(m)
    PROVE  RInv'
<1>1. /\ ui.pc = "restore" /\ ui'.pc = "restore" /\ ui'.shown = ui.shown
      /\ UNCHANGED <<worker, thread>> /\ ui' \in UiRecords
  BY Zenon DEF RestoreFails, RInv, Types, Records, UiRecords, UiPcs
<1>2. PICK left \in SUBSET {m} :
          term' = [term EXCEPT !.guarded = @ \ {m}, !.modes = @ \ left, !.stuck = @ \cup {m}]
  BY Zenon DEF RestoreFails
<1>3. /\ term' \in TermRecords /\ term'.guarded = term.guarded \ {m}
      /\ term'.modes \subseteq term.modes /\ term'.stuck = term.stuck \cup {m}
      /\ term'.lock = term.lock /\ term'.panicking = term.panicking
  BY <1>2, Zenon DEF RInv, Types, Records, TermRecords
<1>4. Records'
  BY <1>1, <1>3 DEF RInv, Types, Records
<1>5. Loads'
  BY <1>1, LoopLeft DEF InLoop, LoopSteps
<1>6. Terminals'
  BY <1>1, <1>3 DEF RInv, Terminals, LoopSteps
<1> QED
  BY <1>4, <1>5, <1>6, Assembled

\* A failing terminal call ends the loop.
LEMMA CallFailsKeeps ==
    ASSUME RInv, Smalls', UNCHANGED exit, CallFails
    PROVE  RInv'
<1>1. /\ ui.pc \in {"new", "frame", "event"} /\ ui'.pc = "restore" /\ ui'.shown = ui.shown
      /\ UNCHANGED <<worker, thread>> /\ ui' \in UiRecords
  BY Zenon DEF CallFails, RInv, Types, Records, UiRecords, UiPcs
<1>2. /\ term' \in TermRecords /\ term'.guarded = term.guarded /\ term'.modes = term.modes
      /\ term'.stuck = term.stuck /\ term'.panicking = term.panicking
      /\ term'.lock = IF ui.pc = "frame" THEN None ELSE term.lock
  BY DEF CallFails, RInv, Types, Records, TermRecords
<1>3. Records'
  BY <1>1, <1>2 DEF RInv, Types, Records
<1>4. Loads'
  BY <1>1, LoopLeft DEF InLoop, LoopSteps
<1>5. Terminals'
  BY <1>1, <1>2, NoneAssumption DEF RInv, Terminals, LoopSteps
<1> QED
  BY <1>3, <1>4, <1>5, Assembled

-----------------------------------------------------------------------------
(* The loop of the screen.                                                 *)

\* Moving on without touching the terminal.
LEMMA ScreenStays ==
    ASSUME RInv, Smalls', UNCHANGED exit, UNCHANGED <<thread, term>>, worker' \in WorkerRecords,
           ui' \in UiRecords, Loads',
           ui.pc \notin {"enter", "frame", "restore", "take", "join"},
           ui'.pc \notin {"enter", "frame", "take", "join"}
    PROVE  RInv'
<1>1. Records'
  BY DEF RInv, Types, Records
<1>2. ui.pc \in {"new"} \cup LoopSteps
  BY Zenon DEF RInv, Types, Records, UiRecords, UiPcs
<1>3. Terminals'
  BY <1>2 DEF RInv, Terminals
<1> QED
  BY <1>1, <1>3, Assembled

\* The top of the loop leaves when asked to, or takes a response.
LEMMA TopKeeps ==
    ASSUME RInv, Smalls', UNCHANGED exit, Top
    PROVE  RInv'
<1>1. /\ ui.pc = "top" /\ ui'.pc \in {"restore", "response"}
      /\ ui'.pending = ui.pending /\ ui'.asked = ui.asked /\ ui'.shown = ui.shown
      /\ UNCHANGED <<worker, thread, term>> /\ ui' \in UiRecords
  BY Zenon DEF Top, RInv, Types, Records, UiRecords, UiPcs, LoopSteps
<1>2. ui'.pc = "restore" => Loads'
  BY <1>1, LoopLeft DEF InLoop, LoopSteps
<1>3. ui'.pc = "response" => Loads'
  BY <1>1, ScreenMoves DEF InLoop, LoopSteps
<1>4. worker' \in WorkerRecords
  BY <1>1 DEF RInv, Types, Records
<1> QED
  BY <1>1, <1>2, <1>3, <1>4, ScreenStays

\* event::poll, a quit or a help key.
LEMMA EventKeeps ==
    ASSUME RInv, Smalls', UNCHANGED exit, Poll \/ Quit \/ Help
    PROVE  RInv'
<1>1. /\ ui.pc = "event" /\ ui'.pc = "top"
      /\ ui'.pending = ui.pending /\ ui'.asked = ui.asked /\ ui'.shown = ui.shown
      /\ UNCHANGED <<worker, thread, term>> /\ ui' \in UiRecords
  BY Zenon DEF Poll, Quit, Help, RInv, Types, Records, UiRecords, UiPcs, LoopSteps
<1>2. Loads'
  BY <1>1, ScreenMoves DEF InLoop, LoopSteps
<1>3. worker' \in WorkerRecords
  BY <1>1 DEF RInv, Types, Records
<1> QED
  BY <1>1, <1>2, <1>3, ScreenStays

\* The screen takes the render gate, unless a panic is under way.
LEMMA RenderKeeps ==
    ASSUME RInv, Smalls', UNCHANGED exit, Render
    PROVE  RInv'
<1>1. /\ ui.pc = "draw" /\ term.lock = None /\ UNCHANGED <<worker, thread>>
  BY DEF Render
<1>2. CASE /\ ~term.panicking
           /\ ui' = [ui EXCEPT !.pc = "frame"]
           /\ term' = [term EXCEPT !.lock = "ui"]
  <2>1. /\ ui'.pc = "frame" /\ ui' \in UiRecords
        /\ ui'.pending = ui.pending /\ ui'.asked = ui.asked /\ ui'.shown = ui.shown
    BY <1>2, Zenon DEF RInv, Types, Records, UiRecords, UiPcs, LoopSteps
  <2>2. /\ term' \in TermRecords /\ term'.modes = term.modes /\ term'.guarded = term.guarded
        /\ term'.stuck = term.stuck /\ term'.panicking = term.panicking /\ term'.lock = "ui"
    BY <1>2, Zenon DEF RInv, Types, Records, TermRecords
  <2>3. Records'
    BY <1>1, <2>1, <2>2 DEF RInv, Types, Records
  <2>4. Loads'
    BY <1>1, <2>1, ScreenMoves DEF InLoop, LoopSteps
  <2>5. Terminals'
    BY <1>1, <1>2, <2>1, <2>2, NoneAssumption DEF RInv, Terminals, LoopSteps
  <2> QED
    BY <2>3, <2>4, <2>5, Assembled
<1>3. CASE /\ term.panicking
           /\ ui' = [ui EXCEPT !.pc = "restore", !.ok = FALSE]
           /\ UNCHANGED term
  <2>1. ui'.pc = "restore" /\ ui' \in UiRecords /\ ui'.shown = ui.shown
    BY <1>3, Zenon DEF RInv, Types, Records, UiRecords, UiPcs
  <2>2. Loads'
    BY <1>1, <2>1, LoopLeft DEF InLoop, LoopSteps
  <2>3. worker' \in WorkerRecords
    BY <1>1 DEF RInv, Types, Records
  <2> QED
    BY <1>1, <1>3, <2>1, <2>2, <2>3, ScreenStays
<1> QED
  BY <1>2, <1>3 DEF Render

\* A frame is drawn and the render gate given back.
LEMMA FrameKeeps ==
    ASSUME RInv, Smalls', UNCHANGED exit, Frame
    PROVE  RInv'
<1>1. /\ ui.pc = "frame" /\ ui'.pc = "event" /\ UNCHANGED <<worker, thread>>
      /\ ui'.pending = ui.pending /\ ui'.asked = ui.asked /\ ui'.shown = ui.shown
      /\ ui' \in UiRecords
  BY Zenon DEF Frame, RInv, Types, Records, UiRecords, UiPcs, LoopSteps
<1>2. /\ term' \in TermRecords /\ term'.modes = term.modes /\ term'.guarded = term.guarded
      /\ term'.stuck = term.stuck /\ term'.panicking = term.panicking /\ term'.lock = None
  BY Zenon DEF Frame, RInv, Types, Records, TermRecords
<1>3. Records'
  BY <1>1, <1>2 DEF RInv, Types, Records
<1>4. Loads'
  BY <1>1, ScreenMoves DEF InLoop, LoopSteps
<1>5. Terminals'
  BY <1>1, <1>2, NoneAssumption DEF RInv, Terminals, LoopSteps
<1> QED
  BY <1>3, <1>4, <1>5, Assembled

\* A buffered answer is the one the screen waits for.
LEMMA AnswerFits ==
    ASSUME RInv, ui.pc = "response", worker.responses # <<>>
    PROVE  /\ Head(worker.responses) \in Responses
           /\ Head(worker.responses).operation = ui.pending /\ ui.pending # None
           /\ Good(Head(worker.responses).result)
           /\ worker.requests = <<>> /\ thread.job = None /\ thread.pc = "recv"
<1>1. Head(worker.responses) \in Responses
  BY DEF RInv, Types, Records, WorkerRecords
<1>2. Head(worker.responses).operation \in Int
  BY <1>1 DEF Responses
<1>3. InLoop
  BY DEF InLoop, LoopSteps
<1> QED
  BY <1>1, <1>2, <1>3, ReviewAssumption DEF RInv, Flight, Catalogue

\* The screen takes the answer that waits, or finds the reader gone.
LEMMA ResponseKeeps ==
    ASSUME RInv, Smalls', UNCHANGED exit, Response
    PROVE  RInv'
<1>1. ui.pc = "response" /\ UNCHANGED <<thread, term>>
  BY DEF Response
<1> DEFINE answer == Head(worker.responses)
<1>2. CASE /\ worker.responses # <<>>
           /\ worker' = [worker EXCEPT !.responses = <<>>, !.busy = FALSE]
           /\ ui' = [Complete(ui, Head(worker.responses)) EXCEPT !.pc = "draw"]
  <2>1. /\ answer \in Responses /\ answer.operation = ui.pending
        /\ answer.result \in Snapshots \cup {None} /\ Good(answer.result)
        /\ worker.requests = <<>> /\ thread.job = None /\ thread.pc = "recv"
    BY <1>1, <1>2, AnswerFits DEF Responses
  <2> HIDE DEF answer
  <2>2. ui' = [ui EXCEPT !.pending = None, !.pc = "draw",
                         !.shown = IF answer.result = None THEN ui.shown ELSE answer.result]
    BY <1>2, <2>1, Zenon DEF Complete, answer, RInv, Types, Records, UiRecords
  <2>3. /\ ui'.pc = "draw" /\ ui' \in UiRecords /\ ui'.pending = None
        /\ ui'.shown = IF answer.result = None THEN ui.shown ELSE answer.result
    BY <2>1, <2>2, ZenonT(40) DEF RInv, Types, Records, UiRecords, UiPcs, LoopSteps
  <2>4. /\ worker' \in WorkerRecords /\ worker'.responses = <<>> /\ ~worker'.busy
        /\ worker'.requests = worker.requests /\ worker'.open = worker.open
        /\ worker'.cancelled = worker.cancelled
    BY <1>2, Zenon DEF RInv, Types, Records, WorkerRecords
  <2>5. Employed'
    BY <1>1 DEF RInv, Employed
  <2>6. Flight'
    BY <1>1, <2>1, <2>3, <2>4 DEF RInv, Flight, InLoop, LoopSteps
  <2>7. Catalogue'
    BY <1>1, <2>1, <2>3, <2>4, Zenon DEF RInv, Catalogue, Good, Eligible
  <2>8. Reloading'
    BY <2>3 DEF Reloading, Wanted
  <2> QED
    BY <1>1, <2>3, <2>4, <2>5, <2>6, <2>7, <2>8, ScreenStays DEF Loads
<1>3. CASE /\ worker.responses = <<>> /\ thread.pc = "gone" /\ worker.busy
           /\ worker' = [worker EXCEPT !.busy = FALSE]
           /\ ui' = [ui EXCEPT !.pc = "restore", !.ok = FALSE]
  <2>1. ui'.pc = "restore" /\ ui' \in UiRecords /\ ui'.shown = ui.shown
    BY <1>3, Zenon DEF RInv, Types, Records, UiRecords, UiPcs
  <2>2. worker' \in WorkerRecords /\ worker'.responses = worker.responses
    BY <1>3, Zenon DEF RInv, Types, Records, WorkerRecords
  <2>3. Loads'
    BY <1>1, <2>1, <2>2, LoopLeft DEF InLoop, LoopSteps
  <2> QED
    BY <1>1, <2>1, <2>2, <2>3, ScreenStays
<1>4. CASE /\ ui' = [ui EXCEPT !.pc = "draw"]
           /\ UNCHANGED worker
  <2>1. /\ ui'.pc = "draw" /\ ui' \in UiRecords
        /\ ui'.pending = ui.pending /\ ui'.asked = ui.asked /\ ui'.shown = ui.shown
    BY <1>4, Zenon DEF RInv, Types, Records, UiRecords, UiPcs, LoopSteps
  <2>2. Loads'
    BY <1>1, <1>4, <2>1, ScreenMoves DEF InLoop, LoopSteps
  <2>3. worker' \in WorkerRecords
    BY <1>4 DEF RInv, Types, Records
  <2> QED
    BY <1>1, <2>1, <2>2, <2>3, ScreenStays
<1> QED
  BY <1>2, <1>3, <1>4 DEF Response

-----------------------------------------------------------------------------
(* Submitting a load.                                                      *)

\* A submission finds the reader waiting and both channels empty.
LEMMA SubmitKeeps ==
    ASSUME RInv, Smalls', UNCHANGED exit, UNCHANGED <<thread, term>>,
           ui.pc \in {"new", "event"}, ui.pending = None,
           NEW asked \in {"open", "reload", "navigate"}, NEW request \in Requests,
           Submit([ui EXCEPT !.pc = "top"], asked, request),
           asked = "reload" /\ ui.shown # None /\ ui.shown.document # None => Asks(request)
    PROVE  RInv'
<1> DEFINE s == [ui EXCEPT !.pc = "top"]
           operation == s.nextOperation + 1
<1>1. /\ InLoop /\ ~worker.busy /\ worker.open /\ ~worker.cancelled /\ thread.pc = "recv"
      /\ thread.job = None /\ worker.requests = <<>> /\ worker.responses = <<>>
  BY IdleReader DEF RInv, Flight, InLoop, LoopSteps
<1>2. Submits
  BY <1>1 DEF Submits
<1>3. /\ s \in UiRecords /\ s.pc = "top" /\ s.pending = None /\ s.shown = ui.shown
      /\ s.asked = ui.asked /\ s.nextOperation \in 0..MaxOperation
  BY Zenon DEF RInv, Types, Records, UiRecords, UiPcs, LoopSteps
<1>4. CASE ~Begins(s)
  <2>1. ui' = s /\ worker' = worker
    BY <1>4 DEF Submit
  <2>2. Loads'
    BY <1>1, <1>3, <2>1, ScreenMoves DEF InLoop, LoopSteps
  <2>3. worker' \in WorkerRecords
    BY <2>1 DEF RInv, Types, Records
  <2> QED
    BY <1>3, <2>1, <2>2, <2>3, ScreenStays
<1>5. CASE Begins(s)
  <2>1. operation \in 1..MaxOperation /\ operation # None
    BY <1>3, <1>5, ReviewAssumption DEF Begins
  <2> DEFINE job == [operation |-> operation, request |-> request]
  <2>2. job \in Jobs /\ job.operation = operation /\ job.request = request
    BY <2>1 DEF Jobs
  <2>3. /\ ui' = [s EXCEPT !.nextOperation = operation, !.asked = asked,
                           !.pending = operation]
        /\ worker' = [worker EXCEPT !.busy = TRUE, !.operation = operation,
                                    !.requests = <<job>>]
    BY <1>1, <1>2, <1>5 DEF Submit
  <2> HIDE DEF s, operation, job
  <2>4. /\ ui' \in UiRecords /\ ui'.pc = "top" /\ ui'.pending = operation
        /\ ui'.asked = asked /\ ui'.shown = ui.shown
    <3>1. operation \in 0..MaxOperation
      BY <2>1
    <3> QED
      BY <1>3, <2>1, <2>3, <3>1, Zenon DEF UiRecords
  <2>5. /\ worker' \in WorkerRecords /\ worker'.busy /\ worker'.requests = <<job>>
        /\ worker'.responses = worker.responses /\ worker'.open = worker.open
        /\ worker'.cancelled = worker.cancelled
    <3>1. operation \in 0..MaxOperation
      BY <2>1
    <3> QED
      BY <2>2, <2>3, <3>1, Zenon DEF RInv, Types, Records, WorkerRecords
  <2>6. Head(worker'.requests) = job /\ worker'.requests # <<>>
    BY <2>5
  <2>7. Employed' /\ thread'.job = None /\ thread'.pc = "recv"
    BY <1>1 DEF RInv, Employed
  <2>8. Flight'
    BY <1>1, <2>1, <2>2, <2>4, <2>5, <2>6, <2>7 DEF Flight, InLoop, LoopSteps
  <2>9. Catalogue'
    BY <1>1, <2>4, <2>5 DEF RInv, Catalogue, Good, Eligible
  <2>10. Reloading'
    BY <1>1, <2>2, <2>4, <2>5, <2>6, <2>7 DEF Reloading, Wanted, Asks
  <2>11. Loads'
    BY <2>7, <2>8, <2>9, <2>10 DEF Loads
  <2> QED
    BY <2>4, <2>5, <2>11, ScreenStays
<1> QED
  BY <1>4, <1>5

\* The first operation opens the document of the command line.
LEMMA OpenKeeps ==
    ASSUME RInv, Smalls', UNCHANGED exit, Open
    PROVE  RInv'
<1>1. /\ ui.pc = "new" /\ UNCHANGED <<thread, term>>
      /\ Submit([ui EXCEPT !.pc = "top"], "open", [index |-> None, document |-> ui.argument])
  BY DEF Open
<1>2. ui.pending = None
  BY <1>1, IdleReader
<1>3. [index |-> None, document |-> ui.argument] \in Requests
  BY Zenon DEF Requests, RInv, Types, Records, UiRecords
<1> QED
  BY <1>1, <1>2, <1>3, SubmitKeeps

\* A reload asks for the document shown, or for that of the command line.
LEMMA ReloadKeeps ==
    ASSUME RInv, Smalls', UNCHANGED exit, Reload
    PROVE  RInv'
<1> DEFINE wanted == IF ui.shown = None THEN ui.argument ELSE ui.shown.document
           request == [index |-> None, document |-> wanted]
<1>1. /\ ui.pc = "event" /\ ui.pending = None /\ UNCHANGED <<thread, term>>
      /\ Submit([ui EXCEPT !.pc = "top"], "reload", request)
  BY DEF Reload
<1>2. ui.shown # None => ui.shown.document \in Documents \cup {None}
  BY Zenon DEF RInv, Types, Records, UiRecords, Snapshots
<1>3. wanted \in Documents \cup {None}
  BY <1>2, Zenon DEF RInv, Types, Records, UiRecords
<1>4. request \in Requests /\ request.index = None /\ request.document = wanted
  BY <1>3, Zenon DEF Requests
<1>5. ui.shown # None => Asks(request)
  BY <1>4 DEF Asks
<1> HIDE DEF request
<1> QED
  BY <1>1, <1>4, <1>5, SubmitKeeps

\* A step to another document counts in the catalogue shown.
LEMMA NavigateKeeps ==
    ASSUME RInv, Smalls', UNCHANGED exit, NEW delta \in {-1, 1}, Navigate(delta)
    PROVE  RInv'
<1> DEFINE index == ui.shown.selected + delta
           request == [index |-> index, document |-> None]
<1>1. /\ ui.pc = "event" /\ ui.pending = None /\ UNCHANGED <<thread, term>>
      /\ ui.shown # None /\ index \in 0..(ui.shown.total - 1)
      /\ Submit([ui EXCEPT !.pc = "top"], "navigate", request)
  BY DEF Navigate
<1>2. ui.shown \in Snapshots
  BY <1>1, Zenon DEF RInv, Types, Records, UiRecords
<1>3. ui.shown.total \in Nat
  BY <1>2, Zenon DEF Snapshots
<1>4. index \in Nat
  BY <1>1, <1>3
<1> HIDE DEF index
<1>5. request \in Requests
  BY <1>4, Zenon DEF Requests
<1> HIDE DEF request
<1> QED
  BY <1>1, <1>5, SubmitKeeps

-----------------------------------------------------------------------------
(* Shutting down.                                                          *)

\* After the terminal is restored, closing the worker sets its cancelled flag.
LEMMA CancelKeeps ==
    ASSUME RInv, Smalls', Cancel
    PROVE  RInv'
<1>1. /\ ui.pc = "restore" /\ term.guarded = {} /\ UNCHANGED <<thread, term, exit>>
      /\ ui'.pc = "take" /\ ui'.shown = ui.shown /\ ui' \in UiRecords
  BY Zenon DEF Cancel, RInv, Types, Records, UiRecords, UiPcs
<1>2. worker' \in WorkerRecords /\ worker'.responses = worker.responses
  BY Zenon DEF Cancel, RInv, Types, Records, WorkerRecords
<1>3. Records'
  BY <1>1, <1>2 DEF RInv, Types, Records
<1>4. Loads'
  BY <1>1, <1>2, LoopLeft DEF InLoop, LoopSteps
<1>5. Terminals'
  BY <1>1 DEF RInv, Terminals, LoopSteps
<1> QED
  BY <1>3, <1>4, <1>5, Assembled

\* The sender is dropped before the join.
LEMMA TakeRequestsKeeps ==
    ASSUME RInv, Smalls', TakeRequests
    PROVE  RInv'
<1>1. /\ ui.pc = "take" /\ UNCHANGED <<thread, term, exit>>
      /\ ui'.pc = "join" /\ ui'.shown = ui.shown /\ ui' \in UiRecords
  BY Zenon DEF TakeRequests, RInv, Types, Records, UiRecords, UiPcs
<1>2. worker' \in WorkerRecords /\ worker'.responses = worker.responses
  BY Zenon DEF TakeRequests, RInv, Types, Records, WorkerRecords
<1>3. Records'
  BY <1>1, <1>2 DEF RInv, Types, Records
<1>4. Loads'
  BY <1>1, <1>2, LoopLeft DEF InLoop, LoopSteps
<1>5. Terminals'
  BY <1>1 DEF RInv, Terminals, LoopSteps
<1> QED
  BY <1>3, <1>4, <1>5, Assembled

\* The session ends when the reader has ended.
LEMMA JoinKeeps ==
    ASSUME RInv, Smalls', Join
    PROVE  RInv'
<1>1. /\ ui.pc = "join" /\ thread.pc = "gone" /\ UNCHANGED <<ui, thread, term>>
      /\ exit' # "aborted"
  BY DEF Join
<1>2. worker' \in WorkerRecords /\ worker'.responses = worker.responses
  BY Zenon DEF Join, RInv, Types, Records, WorkerRecords
<1>3. Records'
  BY <1>1, <1>2 DEF RInv, Types, Records
<1>4. Loads'
  BY <1>1, <1>2, LoopLeft DEF InLoop, LoopSteps
<1>5. Terminals'
  BY <1>1 DEF RInv, Terminals, LoopSteps
<1> QED
  BY <1>3, <1>4, <1>5, Assembled

-----------------------------------------------------------------------------
(* The reader.                                                             *)

\* A step of the reader outside the panic hook leaves the terminal alone.
LEMMA ReaderStays ==
    ASSUME RInv, Smalls', UNCHANGED exit, UNCHANGED <<ui, term>>,
           worker' \in WorkerRecords, thread' \in ThreadRecords, Loads',
           thread.pc \notin {"panic.lock", "panic.restore", "panic.abort"},
           thread'.pc \notin {"panic.lock", "panic.restore", "panic.abort"}
    PROVE  RInv'
<1>1. Records'
  BY DEF RInv, Types, Records
<1>2. Terminals'
  BY DEF RInv, Terminals
<1> QED
  BY <1>1, <1>2, Assembled

\* The reader takes the request that is under way.
LEMMA ReceiveKeeps ==
    ASSUME RInv, Smalls', UNCHANGED ui, Receive
    PROVE  RInv'
<1>1. thread.pc = "recv" /\ thread.job = None /\ UNCHANGED <<term, exit>>
  BY DEF Receive, RInv, Employed
<1>2. CASE /\ worker.requests # <<>>
           /\ thread' = [thread EXCEPT !.pc = "received", !.job = Head(worker.requests)]
           /\ worker' = [worker EXCEPT !.requests = <<>>]
  <2>1. Head(worker.requests) \in Jobs /\ Head(worker.requests) # None
    BY <1>2, NoneAssumption DEF RInv, Types, Records, WorkerRecords
  <2>2. /\ thread' \in ThreadRecords /\ thread'.pc = "received"
        /\ thread'.job = Head(worker.requests) /\ thread'.result = thread.result
    BY <1>2, <2>1, Zenon DEF RInv, Types, Records, ThreadRecords, ThreadPcs
  <2>3. /\ worker' \in WorkerRecords /\ worker'.requests = <<>>
        /\ worker'.responses = worker.responses /\ worker'.busy = worker.busy
        /\ worker'.open = worker.open /\ worker'.cancelled = worker.cancelled
    BY <1>2, Zenon DEF RInv, Types, Records, WorkerRecords
  <2>4. Employed'
    BY <2>1, <2>2 DEF Employed
  <2>5. Flight'
    BY <1>2, <2>1, <2>2, <2>3 DEF RInv, Flight, InLoop
  <2>6. Catalogue'
    BY <2>2, <2>3, Zenon DEF RInv, Catalogue, Good
  <2>7. Wanted' => Wanted
    BY DEF Wanted, InLoop
  <2>8. Wanted => worker.responses = <<>>
    BY <1>2 DEF RInv, Flight, Wanted
  <2>9. Reloading'
    BY <1>2, <2>2, <2>3, <2>7, <2>8 DEF RInv, Reloading, Asks
  <2> QED
    BY <1>1, <2>2, <2>3, <2>4, <2>5, <2>6, <2>9, ReaderStays DEF Loads
<1>3. CASE /\ ~worker.open
           /\ thread' = [thread EXCEPT !.pc = "gone"]
           /\ UNCHANGED worker
  <2>1. /\ thread' \in ThreadRecords /\ thread'.pc = "gone" /\ thread'.result = thread.result
    BY <1>3, Zenon DEF RInv, Types, Records, ThreadRecords, ThreadPcs
  <2>2. ~InLoop /\ ~InLoop'
    BY <1>3 DEF RInv, Flight, InLoop
  <2>3. Employed' /\ Flight' /\ Reloading'
    BY <2>1, <2>2 DEF Employed, Flight, Reloading, Wanted
  <2>4. Catalogue'
    BY <1>3, <2>1 DEF RInv, Catalogue, Good
  <2>5. worker' \in WorkerRecords
    BY <1>3 DEF RInv, Types, Records
  <2> QED
    BY <1>1, <2>1, <2>3, <2>4, <2>5, ReaderStays DEF Loads
<1> QED
  BY <1>2, <1>3 DEF Receive

\* A cancelled reader ends, before a load and after it.
LEMMA CheckCancelledKeeps ==
    ASSUME RInv, Smalls', UNCHANGED ui, CheckCancelled
    PROVE  RInv'
<1>1. /\ thread.pc \in {"received", "loaded"} /\ UNCHANGED <<worker, term, exit>>
      /\ thread' \in ThreadRecords /\ thread'.pc \in {"gone", "list", "send"}
      /\ (thread'.pc = "send" => thread.pc = "loaded")
      /\ thread'.job = thread.job /\ thread'.result = thread.result
  BY Zenon DEF CheckCancelled, RInv, Types, Records, ThreadRecords, ThreadPcs, LoadSteps
<1>2. Good(thread.result)
      /\ (Wanted /\ thread.pc = "loaded" /\ thread.result # None =>
             thread.result.document = ui.shown.document)
  BY DEF RInv, Catalogue, Reloading
<1>3. Loads'
  BY <1>1, <1>2, ReaderMoves
<1>4. worker' \in WorkerRecords
  BY <1>1 DEF RInv, Types, Records
<1> QED
  BY <1>1, <1>3, <1>4, ReaderStays

\* The end of a load, with the snapshot it made or none.
LEMMA LoadedKeeps ==
    ASSUME RInv, Smalls', UNCHANGED ui, UNCHANGED <<worker, term, exit>>,
           thread.pc \in LoadSteps, NEW result \in Snapshots \cup {None},
           thread' = [Idle EXCEPT !.pc = "loaded", !.job = thread.job, !.result = result],
           Good(result),
           Wanted /\ result # None => result.document = ui.shown.document
    PROVE  RInv'
<1>1. /\ thread.job \in Jobs \cup {None}
      /\ [d \in Documents |-> None] \in [Documents -> Versions \cup {None}]
      /\ 0 \in Nat
  BY DEF RInv, Types, Records, ThreadRecords
<1>2. /\ thread' \in ThreadRecords /\ thread'.pc = "loaded"
      /\ thread'.job = thread.job /\ thread'.result = result
  BY <1>1, Zenon DEF Idle, ThreadRecords, ThreadPcs
<1>3. Loads'
  BY <1>2, ReaderMoves DEF LoadSteps
<1>4. worker' \in WorkerRecords
  BY DEF RInv, Types, Records
<1> QED
  BY <1>2, <1>3, <1>4, ReaderStays DEF LoadSteps

\* A load that fails ends without a snapshot.
LEMMA LoadedNothing ==
    ASSUME RInv, Smalls', UNCHANGED ui, UNCHANGED <<worker, term, exit>>,
           thread.pc \in LoadSteps, Loaded(None)
    PROVE  RInv'
  BY LoadedKeeps, Zenon DEF Loaded, Good

\* A load that fails is answered with its error.
LEMMA LoadFailsKeeps ==
    ASSUME RInv, Smalls', UNCHANGED ui, UNCHANGED exit, LoadFails
    PROVE  RInv'
  BY LoadedNothing DEF LoadFails

\* Discovery lists the documents that are in the folder now.
LEMMA ListKeeps ==
    ASSUME RInv, Smalls', UNCHANGED ui, List
    PROVE  RInv'
<1>1. /\ {d \in Documents : folder[d] # None} \in SUBSET Documents
      /\ [d \in Documents |-> None] \in [Documents -> Versions \cup {None}]
  OBVIOUS
<1>2. /\ thread.pc = "list" /\ UNCHANGED <<worker, term, exit>>
      /\ thread' \in ThreadRecords /\ thread'.pc = "inventory"
      /\ thread'.job = thread.job /\ thread'.result = thread.result
  BY <1>1, Zenon DEF List, RInv, Types, Records, ThreadRecords, ThreadPcs, LoadSteps
<1>3. Good(thread.result)
  BY DEF RInv, Catalogue
<1>4. Loads'
  BY <1>2, <1>3, ReaderMoves
<1>5. worker' \in WorkerRecords
  BY <1>2 DEF RInv, Types, Records
<1> QED
  BY <1>2, <1>4, <1>5, ReaderStays

\* Discovery reads the listed documents in order.
LEMMA InventoryKeeps ==
    ASSUME RInv, Smalls', UNCHANGED ui, Inventory
    PROVE  RInv'
<1> DEFINE d == Min(thread.toRead)
<1>1. thread.pc = "inventory" /\ UNCHANGED <<worker, term, exit>>
  BY DEF Inventory
<1>2. CASE thread' = [thread EXCEPT !.toRead = @ \ {d}, !.catalog[d] = folder[d]]
  <2> HIDE DEF d
  <2>1. [thread.catalog EXCEPT ![d] = folder[d]] \in [Documents -> Versions \cup {None}]
    BY Zenon DEF RInv, Types, Records, Smalls, ThreadRecords
  <2>2. /\ thread' \in ThreadRecords /\ thread'.pc = "inventory"
        /\ thread'.job = thread.job /\ thread'.result = thread.result
    BY <1>1, <1>2, <2>1, Zenon DEF RInv, Types, Records, ThreadRecords
  <2>3. Good(thread.result)
    BY DEF RInv, Catalogue
  <2>4. Loads'
    BY <1>1, <2>2, <2>3, ReaderMoves
  <2>5. worker' \in WorkerRecords
    BY <1>1 DEF RInv, Types, Records
  <2> QED
    BY <1>1, <2>2, <2>4, <2>5, ReaderStays
<1>3. CASE Loaded(None)
  BY <1>1, <1>3, LoadedNothing DEF LoadSteps
<1> QED
  BY <1>2, <1>3 DEF Inventory

\* A selection is a position of the catalogue, and for a path its own.
LEMMA SelectionFacts ==
    ASSUME Types, NEW request \in Requests, Selection(request) # None, Eligible # {}
    PROVE  /\ Selection(request) \in Nat /\ Selection(request) < Cardinality(Eligible)
           /\ request.index = None /\ request.document # None =>
                 DocumentAt(Selection(request)) = request.document
<1>1. request.index \in Nat \cup {None}
  BY DEF Requests
<1>2. /\ Cardinality(Eligible) \in Nat /\ Cardinality(Eligible) # 0
      /\ \A d \in Eligible : /\ Position(d) \in Nat /\ Position(d) < Cardinality(Eligible)
                             /\ DocumentAt(Position(d)) = d
  BY CatalogueOrder
<1>3. CASE request.index # None
  BY <1>1, <1>2, <1>3 DEF Selection
<1>4. CASE request.index = None
  BY <1>2, <1>4 DEF Selection
<1> QED
  BY <1>3, <1>4

\* The selected document is found at its rank in the catalogue.
LEMMA SelectKeeps ==
    ASSUME RInv, Smalls', UNCHANGED ui, Select
    PROVE  RInv'
<1> DEFINE selected == Selection(thread.job.request)
<1>1. thread.pc = "inventory" /\ UNCHANGED <<worker, term, exit>>
  BY DEF Select
<1>2. thread.job \in Jobs /\ thread.job.request \in Requests /\ thread.job # None
  BY <1>1, Zenon DEF RInv, Employed, Types, Records, ThreadRecords, Jobs
<1>3. CASE Loaded(None)
  BY <1>1, <1>3, LoadedNothing DEF LoadSteps
<1>4. CASE /\ selected # None /\ Eligible = {}
           /\ Loaded([document |-> None, selected |-> 0, total |-> 0,
                      digest |-> None, text |-> None])
  <2> DEFINE nothing == [document |-> None, selected |-> 0, total |-> 0,
                         digest |-> None, text |-> None]
  <2>1. nothing \in Snapshots /\ Good(nothing)
    BY DEF Snapshots, Good
  <2> HIDE DEF nothing
  <2>2. ~Wanted
    BY <1>2, <1>4, Zenon DEF Selection, RInv, Reloading, Asks, Wanted
  <2>3. thread' = [Idle EXCEPT !.pc = "loaded", !.job = thread.job, !.result = nothing]
    BY <1>4 DEF Loaded, nothing
  <2>4. thread.pc \in LoadSteps
    BY <1>1 DEF LoadSteps
  <2> QED
    BY <1>1, <2>1, <2>2, <2>3, <2>4, LoadedKeeps, Zenon
<1>5. CASE /\ selected # None /\ Eligible # {}
           /\ thread' = [thread EXCEPT !.pc = "read", !.selected = selected]
  <2>1. /\ selected \in Nat /\ selected < Cardinality(Eligible)
        /\ thread.job.request.index = None /\ thread.job.request.document # None =>
              DocumentAt(selected) = thread.job.request.document
    BY <1>2, <1>5, SelectionFacts DEF RInv
  <2> HIDE DEF selected
  <2>2. /\ thread' \in ThreadRecords /\ thread'.pc = "read" /\ thread'.selected = selected
        /\ thread'.job = thread.job /\ thread'.result = thread.result
        /\ thread'.catalog = thread.catalog
    BY <1>5, <2>1, Zenon DEF RInv, Types, Records, ThreadRecords, ThreadPcs, LoadSteps
  <2>3. Eligible' = Eligible
    BY <2>2 DEF Eligible
  <2>4. DocumentAt(thread.selected)' = DocumentAt(selected)
    BY <2>2, <2>3 DEF DocumentAt, Position
  <2>5. Wanted => DocumentAt(selected) = ui.shown.document
    BY <1>2, <2>1 DEF RInv, Reloading, Asks, Wanted
  <2>6. Good(thread.result)
    BY DEF RInv, Catalogue
  <2>7. Loads'
    BY <1>1, <2>1, <2>2, <2>3, <2>4, <2>5, <2>6, ReaderMoves
  <2>8. worker' \in WorkerRecords
    BY <1>1 DEF RInv, Types, Records
  <2> QED
    BY <1>1, <2>2, <2>7, <2>8, ReaderStays
<1> QED
  BY <1>3, <1>4, <1>5 DEF Select

\* The second read is compared with the digest of the catalogue.
LEMMA ReadKeeps ==
    ASSUME RInv, Smalls', UNCHANGED ui, Read
    PROVE  RInv'
<1> DEFINE d == DocumentAt(thread.selected)
<1>1. thread.pc = "read" /\ UNCHANGED <<worker, term, exit>>
  BY DEF Read
<1>2. /\ thread.selected \in Nat /\ thread.selected < Cardinality(Eligible)
      /\ Cardinality(Eligible) \in Nat /\ d \in Documents /\ (Wanted => d = ui.shown.document)
  BY <1>1, CatalogueOrder, Zenon DEF RInv, Types, Records, ThreadRecords, Catalogue, Reloading
<1>3. d # None
  BY <1>2, ReviewAssumption, Zenon
<1> HIDE DEF d
<1>4. CASE folder[d] # None /\ folder[d] = thread.catalog[d] /\ Loaded(Snapshot(d))
  <2>1. folder[d] \in Versions \cup {None} /\ thread.catalog[d] \in Versions \cup {None}
    BY <1>2 DEF RInv, Types, Records, Smalls, ThreadRecords
  <2>2. Snapshot(d) \in Snapshots
    BY <1>2, <2>1, Zenon DEF Snapshot, Snapshots
  <2>3. Good(Snapshot(d)) /\ Snapshot(d).document = d
    BY <1>2, <1>3, <1>4, Zenon DEF Good, Snapshot
  <2> QED
    BY <1>1, <1>2, <1>4, <2>2, <2>3, LoadedKeeps, Zenon DEF Loaded, LoadSteps
<1>5. CASE Loaded(None)
  BY <1>1, <1>5, LoadedNothing DEF LoadSteps
<1> QED
  BY <1>4, <1>5 DEF Read, d

\* The answer goes into the channel, or the reader ends.
LEMMA SendKeeps ==
    ASSUME RInv, Smalls', UNCHANGED ui, Send
    PROVE  RInv'
<1>1. /\ thread.pc = "send" /\ thread.job \in Jobs /\ thread.job # None
      /\ thread.job.operation \in 1..MaxOperation /\ thread.result \in Snapshots \cup {None}
      /\ UNCHANGED <<term, exit>> /\ Good(thread.result)
  BY Zenon DEF Send, RInv, Employed, Types, Records, ThreadRecords, Jobs, Catalogue
<1> DEFINE answer == [operation |-> thread.job.operation, result |-> thread.result]
<1>2. CASE /\ worker' = [worker EXCEPT !.responses = <<answer>>]
           /\ thread' = Idle
  <2>1. /\ answer \in Responses /\ answer.operation = thread.job.operation
        /\ answer.result = thread.result
    BY <1>1 DEF Responses
  <2> HIDE DEF answer
  <2>2. /\ worker' \in WorkerRecords /\ worker'.responses = <<answer>>
        /\ worker'.requests = worker.requests /\ worker'.busy = worker.busy
        /\ worker'.open = worker.open /\ worker'.cancelled = worker.cancelled
    BY <1>2, <2>1, Zenon DEF RInv, Types, Records, WorkerRecords
  <2>3. Head(worker'.responses) = answer /\ worker'.responses # <<>>
    BY <2>2
  <2>4. [d \in Documents |-> None] \in [Documents -> Versions \cup {None}] /\ 0 \in Nat
    OBVIOUS
  <2>5. /\ thread' \in ThreadRecords /\ thread'.pc = "recv" /\ thread'.job = None
        /\ thread'.result = None
    BY <1>2, <2>4, Zenon DEF Idle, ThreadRecords, ThreadPcs
  <2>6. Employed'
    BY <2>5 DEF Employed
  <2>7. Flight'
    BY <1>1, <2>1, <2>2, <2>3, <2>5, Zenon DEF RInv, Flight, InLoop
  <2>8. Catalogue'
    BY <1>1, <2>1, <2>3, <2>5, Zenon DEF RInv, Catalogue, Good
  <2>9. (Wanted' => Wanted) /\ (Wanted => worker.requests = <<>>)
    BY <1>1, Zenon DEF RInv, Flight, Wanted, InLoop
  <2>10. Reloading'
    BY <1>1, <2>1, <2>2, <2>3, <2>5, <2>9, Zenon DEF RInv, Reloading
  <2> QED
    BY <1>1, <2>2, <2>5, <2>6, <2>7, <2>8, <2>10, ReaderStays DEF Loads
<1>3. CASE thread' = [thread EXCEPT !.pc = "gone"] /\ UNCHANGED worker
  <2>1. /\ thread' \in ThreadRecords /\ thread'.pc = "gone"
        /\ thread'.job = thread.job /\ thread'.result = thread.result
    BY <1>3, Zenon DEF RInv, Types, Records, ThreadRecords, ThreadPcs
  <2>2. Loads'
    BY <1>1, <1>3, <2>1, ReaderMoves
  <2>3. worker' \in WorkerRecords
    BY <1>3 DEF RInv, Types, Records
  <2> QED
    BY <1>1, <2>1, <2>2, <2>3, ReaderStays
<1> QED
  BY <1>2, <1>3 DEF Send

-----------------------------------------------------------------------------
(* Panics.                                                                 *)

\* A panic of the reader ends the thread or, in a release build, runs the hook.
LEMMA PanicKeeps ==
    ASSUME RInv, Smalls', UNCHANGED ui, UNCHANGED exit, Panic
    PROVE  RInv'
<1>1. /\ thread.pc \in LoadSteps /\ UNCHANGED <<worker, term>>
      /\ thread' \in ThreadRecords /\ thread'.pc \in {"gone", "panic.abort", "panic.flag"}
      /\ (thread'.pc = "panic.abort" => ui.pc \in {"take", "join"})
      /\ thread'.job = thread.job /\ thread'.result = thread.result
  BY Zenon DEF Panic, RInv, Types, Records, ThreadRecords, ThreadPcs
<1>2. Good(thread.result)
  BY DEF RInv, Catalogue
<1>3. Loads'
  BY <1>1, <1>2, ReaderMoves DEF LoadSteps
<1>4. Records'
  BY <1>1 DEF RInv, Types, Records
<1>5. Terminals'
  BY <1>1, Zenon DEF RInv, Terminals, LoadSteps
<1> QED
  BY <1>3, <1>4, <1>5, Assembled

\* The hook first forbids further frames.
LEMMA HookFlagKeeps ==
    ASSUME RInv, Smalls', UNCHANGED ui, HookFlag
    PROVE  RInv'
<1>1. /\ thread.pc = "panic.flag" /\ thread'.pc = "panic.lock" /\ UNCHANGED <<worker, exit>>
      /\ thread' \in ThreadRecords /\ thread'.job = thread.job /\ thread'.result = thread.result
  BY Zenon DEF HookFlag, RInv, Types, Records, ThreadRecords, ThreadPcs
<1>2. /\ term' \in TermRecords /\ term'.panicking /\ term'.modes = term.modes
      /\ term'.guarded = term.guarded /\ term'.stuck = term.stuck /\ term'.lock = term.lock
  BY Zenon DEF HookFlag, RInv, Types, Records, TermRecords
<1>3. Good(thread.result)
  BY DEF RInv, Catalogue
<1>4. Loads'
  BY <1>1, <1>3, ReaderMoves
<1>5. Records'
  BY <1>1, <1>2 DEF RInv, Types, Records
<1>6. ui.pc # "enter"
  BY <1>1, IdleReader
<1>7. Terminals'
  BY <1>1, <1>2, <1>6 DEF RInv, Terminals
<1> QED
  BY <1>4, <1>5, <1>7, Assembled

\* The hook takes the render gate.
LEMMA HookLockKeeps ==
    ASSUME RInv, Smalls', UNCHANGED ui, HookLock
    PROVE  RInv'
<1>1. /\ thread.pc = "panic.lock" /\ thread'.pc = "panic.restore" /\ UNCHANGED <<worker, exit>>
      /\ thread' \in ThreadRecords /\ thread'.job = thread.job /\ thread'.result = thread.result
  BY Zenon DEF HookLock, RInv, Types, Records, ThreadRecords, ThreadPcs
<1>2. /\ term' \in TermRecords /\ term'.panicking = term.panicking /\ term'.modes = term.modes
      /\ term'.guarded = term.guarded /\ term'.stuck = term.stuck
      /\ term.lock = None /\ term'.lock = "hook"
  BY Zenon DEF HookLock, RInv, Types, Records, TermRecords
<1>3. Good(thread.result)
  BY DEF RInv, Catalogue
<1>4. Loads'
  BY <1>1, <1>3, ReaderMoves
<1>5. Records'
  BY <1>1, <1>2 DEF RInv, Types, Records
<1>6. Terminals'
  BY <1>1, <1>2, NoneAssumption DEF RInv, Terminals
<1> QED
  BY <1>4, <1>5, <1>6, Assembled

\* The hook restores every mode but those whose calls fail.
LEMMA HookEnds ==
    ASSUME RInv, Smalls', UNCHANGED <<ui, worker, exit>>,
           thread.pc = "panic.restore", thread' = [thread EXCEPT !.pc = "panic.abort"],
           term' \in TermRecords, term'.lock = None, term'.guarded = term.guarded,
           term'.panicking = term.panicking,
           term.stuck \subseteq term'.stuck, term'.modes \subseteq term'.stuck
    PROVE  RInv'
<1>1. /\ thread' \in ThreadRecords /\ thread'.pc = "panic.abort"
      /\ thread'.job = thread.job /\ thread'.result = thread.result
  BY Zenon DEF RInv, Types, Records, ThreadRecords, ThreadPcs
<1>2. Good(thread.result)
  BY DEF RInv, Catalogue
<1>3. Loads'
  BY <1>1, <1>2, ReaderMoves
<1>4. Records'
  BY <1>1 DEF RInv, Types, Records
<1>5. /\ term.lock = "hook" /\ ui.pc # "frame" /\ ui.pc # "enter" /\ term.panicking
  BY NoneAssumption DEF RInv, Terminals
<1>6. Terminals'
  BY <1>1, <1>5, NoneAssumption DEF RInv, Terminals
<1> QED
  BY <1>3, <1>4, <1>6, Assembled

\* The hook leaves every mode and gives the render gate back.
LEMMA HookRestoreKeeps ==
    ASSUME RInv, Smalls', UNCHANGED ui, HookRestore
    PROVE  RInv'
<1>1. /\ term' \in TermRecords /\ term'.lock = None /\ term'.guarded = term.guarded
      /\ term'.panicking = term.panicking /\ term'.stuck = term.stuck /\ term'.modes = {}
  BY Zenon DEF HookRestore, RInv, Types, Records, TermRecords
<1> QED
  BY <1>1, HookEnds DEF HookRestore

\* A restoring call of the hook that fails leaves its mode stuck.
LEMMA HookRestoreFailsKeeps ==
    ASSUME RInv, Smalls', UNCHANGED ui, UNCHANGED exit, NEW m \in Modes, HookRestoreFails(m)
    PROVE  RInv'
<1>1. /\ term' \in TermRecords /\ term'.lock = None /\ term'.guarded = term.guarded
      /\ term'.panicking = term.panicking /\ term'.stuck = term.stuck \cup {m}
      /\ term'.modes = term.modes \cap {m}
  BY Zenon DEF HookRestoreFails, RInv, Types, Records, TermRecords
<1> QED
  BY <1>1, HookEnds DEF HookRestoreFails

\* A release build aborts the process after a panic.
LEMMA AbortKeeps ==
    ASSUME RInv, Smalls', UNCHANGED ui, Abort
    PROVE  RInv'
<1>1. thread.pc = "panic.abort" /\ UNCHANGED <<worker, thread, term>>
  BY DEF Abort
<1>2. Loads'
  <2>1. Employed' /\ Flight'
    BY <1>1, Zenon DEF RInv, Employed, Flight, InLoop
  <2>2. Catalogue' /\ Reloading'
    BY <1>1, Zenon DEF RInv, Catalogue, Good, Reloading, Wanted, InLoop, Asks
  <2> QED
    BY <2>1, <2>2 DEF Loads
<1>3. Records'
  BY <1>1 DEF RInv, Types, Records
<1>4. Terminals'
  BY <1>1, Zenon DEF RInv, Terminals
<1> QED
  BY <1>2, <1>3, <1>4, Assembled

-----------------------------------------------------------------------------
(* The specification.                                                      *)

\* Nothing but the folder, the counters and the signal.
LEMMA OutsideKeeps ==
    ASSUME RInv, Smalls', UNCHANGED <<ui, worker, thread, term, exit>>
    PROVE  RInv'
<1>1. Records'
  BY DEF RInv, Types, Records
<1>2. DocumentAt(thread.selected)' = DocumentAt(thread.selected)
  BY DEF DocumentAt, Position, Eligible
<1>3. Employed' /\ Flight' /\ Catalogue'
  BY Zenon DEF RInv, Employed, Flight, InLoop, Catalogue, Good, Eligible
<1>4. Reloading'
  BY <1>2, Zenon DEF RInv, Reloading, Wanted, InLoop, Asks
<1>5. Terminals'
  BY Zenon DEF RInv, Terminals
<1> QED
  BY <1>1, <1>3, <1>4, <1>5, Assembled DEF Loads

\* Folder, counters and exit status keep their types.
LEMMA NextSmalls ==
    ASSUME RInv, Next
    PROVE  Smalls'
<1>1. Smalls
  BY DEF RInv, Types
<1>2. CASE Ui
  <2>1. UNCHANGED <<folder, edits, faults, panicAborts>>
    BY <1>2 DEF Ui
  <2>2. interrupted' \in BOOLEAN
    BY <1>1, <1>2, Zenon DEF Ui, Terminal, Key, Shutdown, Poll, Quit, Help, Reload, Navigate, Smalls
  <2>3. exit' \in {None, "success", "operational", "cancelled", "aborted"}
    BY <1>1, <1>2 DEF Ui, Shutdown, Cancel, TakeRequests, Join, Smalls
  <2> QED
    BY <1>1, <2>1, <2>2, <2>3 DEF Smalls
<1>3. CASE Reader
  <2>1. exit' \in {None, "success", "operational", "cancelled", "aborted"}
    BY <1>1, <1>3 DEF Reader, Receive, CheckCancelled, List, Inventory, Select, Read, Send,
       HookFlag, HookLock, HookRestore, Abort, Smalls
  <2> QED
    BY <1>1, <1>3, <2>1 DEF Reader, Smalls
<1>4. CASE Fault
  BY <1>1, <1>4, ReviewAssumption, SMTT(30) DEF Fault, Smalls
<1>5. CASE Environment
  <2>1. UNCHANGED <<faults, panicAborts, exit>>
    BY <1>5 DEF Environment
  <2>2. interrupted' \in BOOLEAN
    BY <1>1, <1>5, Zenon DEF Environment, Signal, Edit, Smalls
  <2>3. edits' \in 0..MaxEdits
    BY <1>1, <1>5, ReviewAssumption DEF Environment, Signal, Edit, Smalls
  <2>4. folder' \in [Documents -> Versions \cup {None}]
    BY <1>1, <1>5 DEF Environment, Signal, Edit, Smalls
  <2> QED
    BY <1>1, <2>1, <2>2, <2>3, <2>4 DEF Smalls
<1> QED
  BY <1>2, <1>3, <1>4, <1>5 DEF Next

\* Every step keeps the invariant.
LEMMA NextRInv ==
    ASSUME RInv, [Next]_vars
    PROVE  RInv'
<1>1. CASE UNCHANGED vars
  <2>1. Smalls'
    BY <1>1 DEF vars, RInv, Types, Smalls
  <2> QED
    BY <1>1, <2>1, OutsideKeeps DEF vars
<1> SUFFICES ASSUME Next PROVE RInv'
  BY <1>1
<1>2. Smalls'
  BY NextSmalls
<1>3. CASE Ui
  <2>1. CASE Terminal /\ UNCHANGED <<interrupted, exit>>
    BY <1>2, <1>3, <2>1, EnterModeKeeps, RestoreModeKeeps, OpenKeeps, TopKeeps, ResponseKeeps,
       RenderKeeps, FrameKeeps, Zenon DEF Terminal, Ui
  <2>2. CASE Key /\ UNCHANGED exit
    BY <1>2, <2>2, EventKeeps, ReloadKeeps, NavigateKeeps, Zenon DEF Key
  <2>3. CASE Shutdown
    BY <1>2, <2>3, CancelKeeps, TakeRequestsKeeps, JoinKeeps, Zenon DEF Shutdown
  <2> QED
    BY <1>3, <2>1, <2>2, <2>3, Zenon DEF Ui
<1>4. CASE Reader
  BY <1>2, <1>4, ReceiveKeeps, CheckCancelledKeeps, ListKeeps, InventoryKeeps, SelectKeeps,
     ReadKeeps, SendKeeps, HookFlagKeeps, HookLockKeeps, HookRestoreKeeps, AbortKeeps, Zenon
     DEF Reader
<1>5. CASE Fault
  BY <1>2, <1>5, EnterFailsKeeps, RestoreFailsKeeps, CallFailsKeeps, LoadFailsKeeps, PanicKeeps,
     HookRestoreFailsKeeps, Zenon DEF Fault
<1>6. CASE Environment
  BY <1>2, <1>6, OutsideKeeps DEF Environment, Signal, Edit
<1> QED
  BY <1>3, <1>4, <1>5, <1>6 DEF Next

\* The session before its first step.
LEMMA InitRInv ==
    ASSUME Init
    PROVE  RInv
<1>1. PICK d \in Documents \cup {None} :
          ui = [pc |-> "enter", pending |-> None, nextOperation |-> 0,
                asked |-> "open", argument |-> d,
                help |-> FALSE, quit |-> FALSE, shown |-> None, ok |-> TRUE]
  BY Zenon DEF Init
<1>2. 0 \in 0..MaxOperation /\ 0 \in 0..MaxEdits /\ 0 \in 0..MaxFaults
  BY ReviewAssumption
<1>3. /\ ui \in UiRecords /\ ui.pc = "enter" /\ ui.pending = None /\ ui.shown = None
  BY <1>1, <1>2, Zenon DEF UiRecords, UiPcs
<1>4. /\ worker \in WorkerRecords /\ worker.requests = <<>> /\ worker.responses = <<>>
      /\ worker.open /\ ~worker.cancelled /\ ~worker.busy
  BY <1>2, Zenon DEF Init, WorkerRecords
<1>5. 0 \in Nat /\ [e \in Documents |-> None] \in [Documents -> Versions \cup {None}]
  OBVIOUS
<1>6. /\ thread \in ThreadRecords /\ thread.pc = "recv" /\ thread.job = None
      /\ thread.result = None
  BY <1>5, Zenon DEF Init, Idle, ThreadRecords, ThreadPcs
<1>7. /\ term \in TermRecords /\ term.modes = {} /\ term.guarded = {} /\ term.lock = None
      /\ ~term.panicking
  BY Zenon DEF Init, TermRecords
<1>8. Types
  BY <1>2, <1>3, <1>4, <1>6, <1>7, Zenon DEF Init, Types, Records, Smalls
<1>9. Employed /\ Flight
  BY <1>3, <1>4, <1>6 DEF Employed, Flight
<1>10. exit # "aborted"
  BY NoneAssumption, Zenon DEF Init
<1>11. Terminals
  BY <1>3, <1>6, <1>7, <1>10, NoneAssumption DEF Terminals, LoopSteps
<1>12. Catalogue /\ Reloading
  BY <1>3, <1>4, <1>6, Zenon DEF Catalogue, Good, Reloading, Wanted
<1> QED
  BY <1>8, <1>9, <1>11, <1>12 DEF RInv

\* The session keeps its invariant, under every interleaving of the screen,
\* the reader, the panic hook and other programs' edits.
THEOREM ReviewInvariant == Spec => []RInv
<1>1. Init => RInv
  BY InitRInv
<1>2. RInv /\ [Next]_vars => RInv'
  BY NextRInv
<1> QED
  BY <1>1, <1>2, PTL DEF Spec

-----------------------------------------------------------------------------
(* The properties.                                                         *)

\* The operations of a channel that holds at most one message.
LEMMA ChannelOperations ==
    ASSUME NEW M, NEW channel \in {<<>>} \cup {<<x>> : x \in M}
    PROVE  /\ channel \in Seq(M) /\ Len(channel) <= 1
           /\ [i \in DOMAIN channel |-> channel[i].operation] =
                 IF channel = <<>> THEN <<>> ELSE <<Head(channel).operation>>
<1>1. CASE channel = <<>>
  <2>1. [i \in DOMAIN channel |-> channel[i].operation] = <<>>
    BY <1>1
  <2> QED
    BY <1>1, <2>1
<1>2. CASE channel # <<>>
  <2>1. PICK x \in M : channel = <<x>>
    BY <1>2
  <2>2. [i \in DOMAIN channel |-> channel[i].operation] = <<x.operation>>
    BY <2>1
  <2> QED
    BY <1>2, <2>1, <2>2
<1> QED
  BY <1>1, <1>2

\* Flight says what the property says of the sequence of operations.
LEMMA OneInFlight == RInv => OneOperationInFlight
<1> SUFFICES ASSUME RInv PROVE OneOperationInFlight
  OBVIOUS
<1>1. /\ worker.requests \in {<<>>} \cup {<<j>> : j \in Jobs}
      /\ worker.responses \in {<<>>} \cup {<<r>> : r \in Responses}
      /\ worker.open \in BOOLEAN /\ worker.cancelled \in BOOLEAN
      /\ worker.busy \in BOOLEAN /\ worker.operation \in 0..MaxOperation
  BY Zenon DEF RInv, Types, Records, WorkerRecords
<1>2. /\ worker.requests \in Seq(Jobs) /\ Len(worker.requests) <= 1
      /\ [i \in DOMAIN worker.requests |-> worker.requests[i].operation] =
            IF worker.requests = <<>> THEN <<>> ELSE <<Head(worker.requests).operation>>
  BY <1>1, ChannelOperations, Zenon
<1>3. /\ worker.responses \in Seq(Responses) /\ Len(worker.responses) <= 1
      /\ [i \in DOMAIN worker.responses |-> worker.responses[i].operation] =
            IF worker.responses = <<>> THEN <<>> ELSE <<Head(worker.responses).operation>>
  BY <1>1, ChannelOperations, Zenon
<1>4. /\ thread.pc \in {"recv", "received", "loaded", "send", "gone",
                        "panic.flag", "panic.lock", "panic.restore", "panic.abort"} \cup LoadSteps
      /\ thread.job \in Jobs \cup {None} /\ thread.toRead \subseteq Documents
      /\ thread.catalog \in [Documents -> Versions \cup {None}]
      /\ thread.selected \in Nat /\ thread.result \in Snapshots \cup {None}
  BY Zenon DEF RInv, Types, Records, ThreadRecords, ThreadPcs
<1>5. TypeOK
  BY <1>1, <1>2, <1>3, <1>4, Zenon
     DEF RInv, Types, Records, Smalls, UiRecords, UiPcs, TermRecords, TypeOK
<1>6. ASSUME InLoop
      PROVE  /\ InFlight = IF ui.pending = None THEN <<>> ELSE <<ui.pending>>
             /\ worker.busy <=> ui.pending # None
  <2>1. CASE ui.pending = None
    <3>1. worker.requests = <<>> /\ thread.job = None /\ worker.responses = <<>>
      BY <1>6, <2>1, IdleReader
    <3>2. InFlight = <<>> \o <<>> \o <<>>
      BY <1>2, <1>3, <3>1, Zenon DEF InFlight
    <3> QED
      BY <1>6, <2>1, <3>2 DEF RInv, Flight
  <2>2. CASE ui.pending # None
    <3>1. CASE worker.requests # <<>>
      <4>1. InFlight = <<ui.pending>> \o <<>> \o <<>>
        BY <1>2, <1>3, <1>6, <3>1, Zenon DEF InFlight, RInv, Flight
      <4> QED
        BY <1>6, <2>2, <4>1 DEF RInv, Flight
    <3>2. CASE thread.job # None
      <4>1. InFlight = <<>> \o <<ui.pending>> \o <<>>
        BY <1>2, <1>3, <1>6, <3>2, Zenon DEF InFlight, RInv, Flight
      <4> QED
        BY <1>6, <2>2, <4>1 DEF RInv, Flight
    <3>3. CASE worker.responses # <<>>
      <4>1. InFlight = <<>> \o <<>> \o <<ui.pending>>
        BY <1>2, <1>3, <1>6, <3>3, Zenon DEF InFlight, RInv, Flight
      <4> QED
        BY <1>6, <2>2, <4>1 DEF RInv, Flight
    <3> QED
      BY <1>6, <2>2, <3>1, <3>2, <3>3, Zenon DEF RInv, Flight
  <2> QED
    BY <2>1, <2>2
<1> QED
  BY <1>5, <1>6 DEF OneOperationInFlight, InLoop

\* Until the session ends, the one operation the screen waits for is in one
\* place: no answer of worker.rs is dropped for a full channel, and none meets
\* another pending operation in State::complete.
THEOREM OneOperationInFlightTheorem == Spec => []OneOperationInFlight
  BY ReviewInvariant, OneInFlight, PTL

\* No frame is written once the panic hook began to restore the terminal, and
\* Guard::restore or the hook leave on only the modes whose calls failed.
THEOREM TerminalHandedBackTheorem == Spec => TerminalHandedBack
<1>1. RInv => (ui.pc = "frame" /\ ui' # ui => "alternate" \in term.modes)
  BY DEF RInv, Terminals, LoopSteps, Modes
<1>2. RInv => (\/ ui.pc \in {"take", "join"}
               \/ ui.pc = "restore" /\ term.guarded = {}
               \/ exit = "aborted"
               => term.modes \subseteq term.stuck)
  BY DEF RInv, Terminals
<1> QED
  BY <1>1, <1>2, ReviewInvariant, PTL DEF TerminalHandedBack

\* Only an answer changes what is shown.
LEMMA ShownByAnswer ==
    ASSUME RInv, [Next]_vars, ui'.shown # ui.shown
    PROVE  /\ ui.pc = "response" /\ worker.responses # <<>>
           /\ ui'.shown = Head(worker.responses).result /\ ui'.shown # None
<1>1. ui \in UiRecords
  BY DEF RInv, Types, Records
<1>2. ASSUME NEW asked, NEW request, Submit([ui EXCEPT !.pc = "top"], asked, request)
      PROVE  ui'.shown = ui.shown
  <2> DEFINE s == [ui EXCEPT !.pc = "top"]
  <2>1. s.shown = ui.shown /\ s \in [DOMAIN ui -> {s[x] : x \in DOMAIN ui}]
    BY <1>1 DEF UiRecords
  <2> QED
    BY <1>1, <1>2, <2>1, Zenon DEF Submit, UiRecords
<1>3. Response
  <2>1. ui' # ui
    OBVIOUS
  <2>2. ASSUME NEW m \in Modes, EnterMode(m) \/ RestoreMode(m) \/ EnterFails(m) \/ RestoreFails(m)
        PROVE  FALSE
    BY <1>1, <2>2, Zenon DEF EnterMode, RestoreMode, EnterFails, RestoreFails, UiRecords
  <2>3. ~Top /\ ~Render /\ ~Frame /\ ~CallFails
    BY <1>1, Zenon DEF Top, Render, Frame, CallFails, UiRecords
  <2>4. ~Poll /\ ~Quit /\ ~Help /\ ~Cancel /\ ~TakeRequests /\ ~Join
    BY <1>1, Zenon DEF Poll, Quit, Help, Cancel, TakeRequests, Join, UiRecords
  <2>5. ~Open /\ ~Reload
    BY <1>2, Zenon DEF Open, Reload
  <2>6. ASSUME NEW delta \in {-1, 1}, Navigate(delta)
        PROVE  FALSE
    BY <1>2, <2>6, Zenon DEF Navigate
  <2>7. ~Reader /\ ~Environment /\ ~(UNCHANGED vars)
    BY <2>1, Zenon DEF Reader, Environment, Signal, Edit, vars
  <2>8. CASE Ui
    BY <2>2, <2>3, <2>4, <2>5, <2>6, <2>8, Zenon DEF Ui, Terminal, Key, Shutdown
  <2>9. ~Fault
    BY <2>1, <2>2, <2>3, Zenon DEF Fault
  <2> QED
    BY <2>7, <2>8, <2>9, Zenon DEF Next
<1>4. CASE /\ worker.responses # <<>>
           /\ ui' = [Complete(ui, Head(worker.responses)) EXCEPT !.pc = "draw"]
  <2> DEFINE answer == Head(worker.responses)
  <2>1. ui.pc = "response" /\ answer.operation = ui.pending
    BY <1>3, <1>4, AnswerFits DEF Response
  <2> HIDE DEF answer
  <2>2. ui'.shown = IF answer.result = None THEN ui.shown ELSE answer.result
    BY <1>1, <1>4, <2>1, Zenon DEF Complete, answer, UiRecords
  <2> QED
    BY <1>4, <2>1, <2>2, Zenon DEF answer
<1>5. CASE ui' = [ui EXCEPT !.pc = "restore", !.ok = FALSE] \/ ui' = [ui EXCEPT !.pc = "draw"]
  BY <1>1, <1>5, Zenon DEF UiRecords
<1> QED
  BY <1>3, <1>4, <1>5, Zenon DEF Response

\* What is shown has the digest discovery recorded for it, and a reload shows
\* the same document again, however the folder changed between listing,
\* reading and answering.
THEOREM ShownMatchesCatalogueTheorem == Spec => ShownMatchesCatalogue
<1>1. RInv => (ui.shown # None =>
                 /\ ui.shown.text = ui.shown.digest
                 /\ ui.shown.total > 0 =>
                       ui.shown.document # None /\ ui.shown.selected < ui.shown.total)
  BY Zenon DEF RInv, Catalogue, Good
<1>2. RInv /\ [Next]_vars =>
         (/\ ui.asked = "reload" /\ ui.shown # None /\ ui.shown.document # None
          /\ ui'.shown # ui.shown
          => ui'.shown.document = ui.shown.document)
  <2> SUFFICES ASSUME RInv, [Next]_vars, ui.asked = "reload", ui.shown # None,
                      ui.shown.document # None, ui'.shown # ui.shown
               PROVE  ui'.shown.document = ui.shown.document
    OBVIOUS
  <2>1. /\ ui.pc = "response" /\ worker.responses # <<>>
        /\ ui'.shown = Head(worker.responses).result /\ ui'.shown # None
    BY ShownByAnswer
  <2>2. Wanted
    BY <2>1, AnswerFits DEF Wanted, InLoop, LoopSteps
  <2> QED
    BY <2>1, <2>2 DEF RInv, Reloading
<1> QED
  BY <1>1, <1>2, ReviewInvariant, PTL DEF ShownMatchesCatalogue, Spec

-----------------------------------------------------------------------------
(* Full channels, and why a session ends.                                  *)

\* A load is in one place, also once the screen no longer looks for it.
OnePlace ==
    /\ worker.requests # <<>> => thread.job = None /\ worker.responses = <<>>
    /\ thread.job # None => worker.responses = <<>>

PanicSteps == {"panic.flag", "panic.lock", "panic.restore", "panic.abort"}

\* A reader that stops early and a screen that gives up have a failure behind
\* them; a screen that ends without one was told to.
Reasons ==
    /\ ~ui.ok \/ (InLoop /\ thread.pc = "gone") => faults > 0
    /\ thread.pc \in PanicSteps => panicAborts /\ faults > 0
    /\ ui.ok /\ term.stuck # {} => thread.pc = "panic.abort"
    /\ ui.ok /\ ~InLoop => ui.quit \/ interrupted

\* The exit code tells what happened (tui.rs:138-153): success means
\* that the user quit, was not interrupting, and has the terminal back without
\* any mode left on; an interrupt, and only that, is reported as cancelled; an
\* operational error or an abort has a failed call or a panic behind it, the
\* abort only in a build that aborts; and no exit but the abort leaves the
\* reader running.
ExitTells ==
    /\ exit = "success" => term.modes = {} /\ ui.quit /\ ~interrupted
    /\ exit = "cancelled" => interrupted
    /\ exit = "operational" => faults > 0 /\ ~ui.ok
    /\ exit = "aborted" => panicAborts /\ faults > 0
    /\ exit \notin {None, "aborted"} => thread.pc = "gone"

\* Neither bounded channel is ever found full and no submission is ever refused
\* (worker.rs:49-58, 71-92): the reader has room for its answer even while the
\* session shuts down, and a load that State::begin lets through finds the
\* worker not busy, its channel open and empty, and the reader waiting for it.
ChannelsNeverFull ==
    /\ thread.pc = "send" => worker.responses = <<>>
    /\ ui.pc \in {"new", "event"} /\ Begins(ui) => Submits

QInv == RInv /\ OnePlace /\ Reasons /\ ExitTells

\* What a step of the screen does to the reasons and the channels.
Proceeds ==
    /\ UNCHANGED thread /\ term'.stuck = term.stuck
    /\ \/ InLoop'
       \/ worker'.requests = worker.requests /\ worker'.responses = worker.responses
    /\ InLoop' => InLoop
    /\ ~ui'.ok => faults > 0
    /\ ui'.ok => ui.ok
    /\ ui'.ok /\ ~InLoop' => ui'.quit \/ interrupted'

\* A step that keeps the reader and moves within the loop.
LEMMA LoopProceeds ==
    ASSUME RInv, Reasons, UNCHANGED thread, term'.stuck = term.stuck, InLoop, InLoop',
           ui'.ok = ui.ok
    PROVE  Proceeds
BY DEF Reasons, Proceeds

\* The terminal is entered and left.
LEMMA ModesProceed ==
    ASSUME RInv, Reasons, UNCHANGED interrupted, NEW m \in Modes, EnterMode(m) \/ RestoreMode(m)
    PROVE  Proceeds
<1>1. ui \in UiRecords /\ term \in TermRecords
  BY DEF RInv, Types, Records
<1>2. term'.stuck = term.stuck /\ UNCHANGED <<worker, thread>>
  BY <1>1, Zenon DEF EnterMode, RestoreMode, TermRecords
<1>3. CASE EnterMode(m)
  <2>1. ui.pc = "enter" /\ ui'.pc \in {"enter", "new"} /\ ui'.ok = ui.ok
    BY <1>1, <1>3 DEF EnterMode, UiRecords
  <2> QED
    BY <1>2, <2>1, LoopProceeds DEF InLoop
<1>4. CASE RestoreMode(m)
  BY <1>2, <1>4 DEF RestoreMode, Reasons, Proceeds, InLoop
<1> QED
  BY <1>3, <1>4

\* A submission stays in the loop.
LEMMA SubmitProceeds ==
    ASSUME RInv, Reasons, UNCHANGED <<thread, term>>, ui.pc \in {"new", "event"},
           NEW asked, NEW request, Submit([ui EXCEPT !.pc = "top"], asked, request)
    PROVE  Proceeds
<1>1. ui \in UiRecords
  BY DEF RInv, Types, Records
<1>2. ui'.pc = "top" /\ ui'.ok = ui.ok
  BY <1>1, Zenon DEF Submit, UiRecords
<1> QED
  BY <1>2, LoopProceeds DEF InLoop, LoopSteps

\* The screen takes an answer, or gives up on a reader that has gone.
LEMMA ResponseProceeds ==
    ASSUME RInv, Reasons, UNCHANGED interrupted, Response
    PROVE  Proceeds
<1>1. ui \in UiRecords /\ worker \in WorkerRecords
  BY DEF RInv, Types, Records
<1>2. UNCHANGED <<thread, term>> /\ ui.pc = "response" /\ InLoop
  BY DEF Response, InLoop, LoopSteps
<1>3. CASE /\ worker.responses = <<>> /\ thread.pc = "gone" /\ worker.busy
           /\ worker' = [worker EXCEPT !.busy = FALSE]
           /\ ui' = [ui EXCEPT !.pc = "restore", !.ok = FALSE]
  <2>1. /\ ui'.pc = "restore" /\ ~ui'.ok /\ worker'.requests = worker.requests
        /\ worker'.responses = worker.responses
    BY <1>1, <1>3 DEF UiRecords, WorkerRecords
  <2> QED
    BY <1>2, <1>3, <2>1 DEF Reasons, Proceeds
<1>4. CASE ui' = [ui EXCEPT !.pc = "draw"]
  <2>1. ui'.pc = "draw" /\ ui'.ok = ui.ok
    BY <1>1, <1>4 DEF UiRecords
  <2> QED
    BY <1>2, <2>1, LoopProceeds DEF InLoop, LoopSteps
<1>5. CASE ui' = [Complete(ui, Head(worker.responses)) EXCEPT !.pc = "draw"]
  <2>1. ui'.pc = "draw" /\ ui'.ok = ui.ok
    BY <1>1, <1>5 DEF UiRecords, Complete
  <2> QED
    BY <1>2, <2>1, LoopProceeds DEF InLoop, LoopSteps
<1> QED
  BY <1>3, <1>4, <1>5 DEF Response

\* Drawing, unless a panic has begun.
LEMMA RenderProceeds ==
    ASSUME RInv, Reasons, UNCHANGED interrupted, Render
    PROVE  Proceeds
<1>1. ui \in UiRecords /\ term \in TermRecords
  BY DEF RInv, Types, Records
<1>2. UNCHANGED <<worker, thread>> /\ ui.pc = "draw" /\ InLoop /\ term'.stuck = term.stuck
  BY <1>1 DEF Render, InLoop, LoopSteps, TermRecords
<1>3. CASE ui' = [ui EXCEPT !.pc = "frame"]
  <2>1. ui'.pc = "frame" /\ ui'.ok = ui.ok
    BY <1>1, <1>3 DEF UiRecords
  <2> QED
    BY <1>2, <2>1, LoopProceeds DEF InLoop, LoopSteps
<1>4. CASE term.panicking /\ ui' = [ui EXCEPT !.pc = "restore", !.ok = FALSE]
  <2>1. ui'.pc = "restore" /\ ~ui'.ok
    BY <1>1, <1>4 DEF UiRecords
  <2>2. faults > 0
    BY <1>4 DEF RInv, Terminals, Reasons, PanicSteps
  <2> QED
    BY <1>2, <2>1, <2>2 DEF Proceeds
<1> QED
  BY <1>3, <1>4 DEF Render

\* Every step of the screen.
LEMMA ScreenProceeds ==
    ASSUME RInv, Reasons, Ui
    PROVE  Proceeds
<1>1. ui \in UiRecords /\ term \in TermRecords /\ worker \in WorkerRecords
  BY DEF RInv, Types, Records
<1>2. CASE Terminal /\ UNCHANGED interrupted
  <2>1. CASE Open
    BY <2>1, SubmitProceeds DEF Open
  <2>2. CASE Top
    <3>1. /\ ui.pc = "top" /\ InLoop /\ UNCHANGED <<worker, thread, term>> /\ ui'.ok = ui.ok
          /\ ui'.quit = ui.quit
          /\ ui'.pc = IF ui.quit \/ interrupted THEN "restore" ELSE "response"
      BY <1>1, <2>2, Zenon DEF Top, UiRecords, InLoop, LoopSteps
    <3> QED
      BY <1>2, <3>1 DEF Reasons, Proceeds, InLoop, LoopSteps
  <2>3. CASE Frame
    <3>1. /\ ui.pc = "frame" /\ ui'.pc = "event" /\ ui'.ok = ui.ok /\ term'.stuck = term.stuck
          /\ UNCHANGED thread
      BY <1>1, <2>3, Zenon DEF Frame, UiRecords, TermRecords
    <3> QED
      BY <3>1, LoopProceeds DEF InLoop, LoopSteps
  <2> QED
    BY <1>2, <2>1, <2>2, <2>3, ModesProceed, ResponseProceeds, RenderProceeds, Zenon DEF Terminal
<1>3. CASE Key
  <2>1. CASE Poll \/ Quit \/ Help
    <3>1. ui.pc = "event" /\ ui'.pc = "top" /\ ui'.ok = ui.ok /\ UNCHANGED <<thread, term>>
      BY <1>1, <2>1, Zenon DEF Poll, Quit, Help, UiRecords
    <3> QED
      BY <3>1, LoopProceeds DEF InLoop, LoopSteps
  <2>2. CASE Reload
    BY <2>2, SubmitProceeds DEF Reload
  <2>3. CASE \E delta \in {-1, 1} : Navigate(delta)
    BY <2>3, SubmitProceeds DEF Navigate
  <2> QED
    BY <1>3, <2>1, <2>2, <2>3, Zenon DEF Key
<1>4. CASE Shutdown /\ UNCHANGED interrupted
  <2>1. /\ ui.pc \in {"restore", "take", "join"} /\ ui'.pc \in {"take", "join"}
        /\ ui'.ok = ui.ok /\ ui'.quit = ui.quit /\ UNCHANGED <<thread, term>>
    BY <1>1, <1>4, Zenon DEF Shutdown, Cancel, TakeRequests, Join, UiRecords
  <2>2. worker'.requests = worker.requests /\ worker'.responses = worker.responses
    BY <1>1, <1>4, Zenon DEF Shutdown, Cancel, TakeRequests, Join, WorkerRecords
  <2> QED
    BY <1>4, <2>1, <2>2 DEF Reasons, Proceeds, InLoop, LoopSteps
<1> QED
  BY <1>2, <1>3, <1>4, Zenon DEF Ui

\* A step of the reader leaves the screen alone, goes early only for a failure,
\* and takes a load from one place to the next.
LEMMA ReaderReasons ==
    ASSUME QInv, Reader
    PROVE  OnePlace' /\ Reasons'
<1>1. thread \in ThreadRecords /\ term \in TermRecords /\ worker \in WorkerRecords
  BY DEF QInv, RInv, Types, Records
<1>2. UNCHANGED <<ui, faults, interrupted, panicAborts>> /\ (InLoop' <=> InLoop)
  BY DEF Reader, InLoop
<1>3. InLoop => worker.open /\ ~worker.cancelled
  BY DEF QInv, RInv, Flight
<1> DEFINE Quiet == thread'.pc \notin {"gone"} \cup PanicSteps \/ (~InLoop /\ thread'.pc = "gone")
<1>4. SUFFICES /\ OnePlace'
               /\ \/ thread' = thread /\ term'.stuck = term.stuck
                  \/ thread.pc # "panic.abort" /\ term'.stuck = term.stuck /\ Quiet
                  \/ thread.pc \in PanicSteps \ {"panic.abort"} /\ term'.stuck = term.stuck
                     /\ thread'.pc \in PanicSteps
  BY <1>2 DEF QInv, Reasons, PanicSteps
<1>5. CASE Receive
  <2>1. CASE /\ worker.requests # <<>>
             /\ thread' = [thread EXCEPT !.pc = "received", !.job = Head(worker.requests)]
             /\ worker' = [worker EXCEPT !.requests = <<>>]
    <3>1. /\ thread'.pc = "received" /\ worker'.requests = <<>>
          /\ worker'.responses = worker.responses /\ term' = term /\ thread.pc = "recv"
      BY <1>1, <1>5, <2>1, Zenon DEF Receive, ThreadRecords, WorkerRecords
    <3> QED
      BY <2>1, <3>1 DEF QInv, OnePlace, PanicSteps
  <2>2. CASE ~worker.open /\ thread' = [thread EXCEPT !.pc = "gone"] /\ UNCHANGED worker
    <3>1. thread'.pc = "gone" /\ thread'.job = thread.job /\ term' = term /\ thread.pc = "recv"
      BY <1>1, <1>5, <2>2, Zenon DEF Receive, ThreadRecords
    <3> QED
      BY <1>3, <2>2, <3>1 DEF QInv, OnePlace
  <2> QED
    BY <1>5, <2>1, <2>2 DEF Receive
<1>6. CASE CheckCancelled
  <2>1. UNCHANGED <<worker, term>> /\ thread.pc \in {"received", "loaded"}
    BY <1>6 DEF CheckCancelled
  <2>2. PICK after \in {"list", "send"} :
           thread' = [thread EXCEPT !.pc = IF worker.cancelled THEN "gone" ELSE after]
    BY <1>6 DEF CheckCancelled
  <2>3. /\ thread'.job = thread.job
        /\ thread'.pc = IF worker.cancelled THEN "gone" ELSE after
    BY <1>1, <2>2, Zenon DEF ThreadRecords
  <2> QED
    BY <1>3, <2>1, <2>3 DEF QInv, OnePlace, PanicSteps
<1>7. CASE List \/ Inventory \/ Select \/ Read
  <2>1. \A result : Loaded(result) => thread'.pc = "loaded" /\ thread'.job = thread.job
    BY Zenon DEF Loaded, Idle
  <2>2. /\ UNCHANGED <<worker, term>> /\ thread.pc \in LoadSteps
    BY <1>7, Zenon DEF List, Inventory, Select, Read, LoadSteps
  <2>3. CASE List
    <3>1. thread'.pc = "inventory" /\ thread'.job = thread.job
      BY <1>1, <2>3, Zenon DEF List, ThreadRecords
    <3> QED
      BY <2>2, <3>1 DEF QInv, OnePlace, PanicSteps, LoadSteps
  <2>4. CASE Inventory
    <3>1. thread'.pc \in {"inventory", "loaded"} /\ thread'.job = thread.job
      BY <1>1, <2>1, <2>4, Zenon DEF Inventory, ThreadRecords
    <3> QED
      BY <2>2, <3>1 DEF QInv, OnePlace, PanicSteps, LoadSteps
  <2>5. CASE Select
    <3>1. thread'.pc \in {"read", "loaded"} /\ thread'.job = thread.job
      BY <1>1, <2>1, <2>5, Zenon DEF Select, ThreadRecords
    <3> QED
      BY <2>2, <3>1 DEF QInv, OnePlace, PanicSteps, LoadSteps
  <2>6. CASE Read
    <3>1. thread'.pc = "loaded" /\ thread'.job = thread.job
      BY <2>1, <2>6, Zenon DEF Read
    <3> QED
      BY <2>2, <3>1 DEF QInv, OnePlace, PanicSteps, LoadSteps
  <2> QED
    BY <1>7, <2>3, <2>4, <2>5, <2>6
<1>8. CASE Send
  <2>1. thread.pc = "send" /\ UNCHANGED term
    BY <1>8 DEF Send
  <2>2. worker.responses = <<>> /\ worker.requests = <<>>
    BY <2>1 DEF QInv, OnePlace, RInv, Employed
  <2>3. thread' = Idle /\ worker'.requests = worker.requests
    BY <1>1, <1>8, <2>2, Zenon DEF Send, WorkerRecords
  <2> QED
    BY <2>1, <2>2, <2>3 DEF Idle, OnePlace, PanicSteps
<1>9. CASE HookFlag \/ HookLock \/ HookRestore
  <2>1. /\ thread'.job = thread.job /\ UNCHANGED worker /\ term'.stuck = term.stuck
        /\ thread.pc \in {"panic.flag", "panic.lock", "panic.restore"}
        /\ thread'.pc \in {"panic.lock", "panic.restore", "panic.abort"}
    BY <1>1, <1>9, Zenon DEF HookFlag, HookLock, HookRestore, ThreadRecords, TermRecords
  <2> QED
    BY <2>1 DEF QInv, OnePlace, PanicSteps
<1>10. CASE Abort
  BY <1>10 DEF Abort, QInv, OnePlace
<1> QED
  BY <1>5, <1>6, <1>7, <1>8, <1>9, <1>10, Zenon DEF Reader

\* A failure gives a reason to every end that follows it.
LEMMA FaultReasons ==
    ASSUME QInv, Fault
    PROVE  OnePlace' /\ Reasons'
<1>1. /\ thread \in ThreadRecords /\ term \in TermRecords /\ ui \in UiRecords
      /\ faults \in 0..MaxFaults
  BY DEF QInv, RInv, Types, Records, Smalls
<1>2. faults' > 0 /\ UNCHANGED <<interrupted, panicAborts>>
  BY <1>1, ReviewAssumption DEF Fault
<1>3. CASE (\E m \in Modes : EnterFails(m) \/ RestoreFails(m)) \/ CallFails
  <2>1. ~ui'.ok /\ UNCHANGED <<worker, thread>>
    BY <1>1, <1>3, Zenon DEF EnterFails, RestoreFails, CallFails, UiRecords
  <2> QED
    BY <1>2, <2>1 DEF QInv, OnePlace, Reasons
<1>4. CASE LoadFails /\ UNCHANGED ui
  <2>1. /\ thread.pc \in LoadSteps /\ thread'.pc = "loaded" /\ thread'.job = thread.job
        /\ UNCHANGED <<worker, term>>
    BY <1>4, Zenon DEF LoadFails, Loaded, Idle
  <2> QED
    BY <1>2, <1>4, <2>1 DEF QInv, OnePlace, Reasons, PanicSteps, LoadSteps, InLoop
<1>5. CASE Panic /\ UNCHANGED ui
  <2>1. /\ thread.pc \in LoadSteps /\ thread'.job = thread.job /\ UNCHANGED <<worker, term>>
        /\ thread'.pc = IF ~panicAborts THEN "gone"
                        ELSE IF ui.pc \in {"take", "join"} THEN "panic.abort" ELSE "panic.flag"
    BY <1>1, <1>5, Zenon DEF Panic, ThreadRecords
  <2> QED
    BY <1>2, <1>5, <2>1 DEF QInv, OnePlace, Reasons, PanicSteps, LoadSteps, InLoop
<1>6. CASE (\E m \in Modes : HookRestoreFails(m)) /\ UNCHANGED ui
  <2>1. /\ thread.pc = "panic.restore" /\ thread'.pc = "panic.abort"
        /\ thread'.job = thread.job /\ UNCHANGED worker
    BY <1>1, <1>6, Zenon DEF HookRestoreFails, ThreadRecords
  <2> QED
    BY <1>2, <1>6, <2>1 DEF QInv, OnePlace, Reasons, PanicSteps, InLoop
<1> QED
  BY <1>3, <1>4, <1>5, <1>6, Zenon DEF Fault

\* Only the last step of the screen and the abort of the reader end a session.
LEMMA ExitsTell ==
    ASSUME QInv, Next
    PROVE  ExitTells'
<1>1. exit = None
  BY DEF Next, Ui, Reader, Fault, Environment
<1>2. ui \in UiRecords /\ term \in TermRecords
  BY DEF QInv, RInv, Types, Records
<1>3. None \notin {"success", "operational", "cancelled", "aborted"}
  BY NoneAssumption, Zenon
<1>4. CASE Ui /\ Join
  <2>1. /\ ui.pc = "join" /\ thread.pc = "gone" /\ UNCHANGED <<ui, thread, term, interrupted>>
        /\ UNCHANGED <<faults, panicAborts>>
        /\ exit' = IF interrupted THEN "cancelled"
                   ELSE IF ui.ok THEN "success" ELSE "operational"
    BY <1>4, Zenon DEF Join, Ui, Terminal, Key, EnterMode, RestoreMode, Open, Top, Response,
       Render, Frame, Poll, Quit, Help, Reload, Navigate
  <2>2. ~InLoop /\ term.guarded = {} /\ term.modes \subseteq term.guarded \cup term.stuck
    BY <2>1 DEF InLoop, LoopSteps, QInv, RInv, Terminals
  <2>3. ui.ok => term.stuck = {}
    BY <2>1 DEF QInv, Reasons
  <2>4. ui.ok => term.modes = {}
    BY <2>2, <2>3, Zenon
  <2> QED
    BY <2>1, <2>2, <2>4 DEF ExitTells, QInv, Reasons
<1>5. CASE Reader /\ Abort
  BY <1>5 DEF Reader, Abort, ExitTells, QInv, Reasons, PanicSteps
<1>6. CASE UNCHANGED exit
  BY <1>1, <1>3, <1>6 DEF ExitTells
<1> QED
  BY <1>4, <1>5, <1>6, Zenon DEF Next, Ui, Shutdown, Cancel, TakeRequests, Reader, Receive,
     CheckCancelled, List, Inventory, Select, Read, Send, HookFlag, HookLock, HookRestore,
     Fault, Environment

\* Every step keeps the reasons.
LEMMA NextQInv ==
    ASSUME QInv, [Next]_vars
    PROVE  QInv'
<1>1. RInv /\ RInv'
  BY NextRInv DEF QInv
<1>2. CASE UNCHANGED vars
  BY <1>1, <1>2 DEF vars, QInv, OnePlace, Reasons, ExitTells, InLoop
<1> SUFFICES ASSUME Next PROVE OnePlace' /\ Reasons'
  BY <1>1, <1>2, ExitsTell DEF QInv
<1>3. CASE Ui
  <2>1. Proceeds
    BY <1>3, ScreenProceeds DEF QInv
  <2>2. UNCHANGED <<thread, faults, panicAborts>>
    BY <1>3, <2>1 DEF Ui, Proceeds
  <2>3. InLoop' => OnePlace'
    BY <1>1 DEF RInv, Flight, OnePlace
  <2>4. ~InLoop' => OnePlace'
    BY <2>1, <2>2 DEF QInv, OnePlace, Proceeds
  <2>5. Reasons'
    BY <2>1, <2>2 DEF QInv, Reasons, Proceeds
  <2> QED
    BY <2>3, <2>4, <2>5
<1>4. CASE Environment
  <2>1. /\ UNCHANGED <<ui, worker, thread, term, faults, panicAborts>>
        /\ interrupted => interrupted'
    BY <1>4 DEF Environment, Signal, Edit
  <2> QED
    BY <2>1 DEF QInv, OnePlace, Reasons, InLoop
<1> QED
  BY <1>3, <1>4, ReaderReasons, FaultReasons DEF Next

\* The strengthened invariant of the review session holds.
THEOREM ReasonsInvariant == Spec => []QInv
<1>1. ASSUME Init PROVE QInv
  <2>1. RInv
    BY <1>1, InitRInv
  <2>2. ui.ok /\ ui.pc = "enter"
    BY <1>1 DEF Init
  <2>3. /\ thread.pc = "recv" /\ thread.job = None /\ term.stuck = {} /\ exit = None
        /\ worker.requests = <<>> /\ worker.responses = <<>>
    BY <1>1, Zenon DEF Init, Idle
  <2>4. None \notin {"success", "operational", "cancelled", "aborted"}
    BY NoneAssumption, Zenon
  <2> QED
    BY <2>1, <2>2, <2>3, <2>4 DEF QInv, OnePlace, Reasons, ExitTells, InLoop, PanicSteps
<1> QED
  BY <1>1, NextQInv, PTL DEF Spec

\* The exit code of a review tells what happened, whatever fails and whenever
\* the user interrupts (tui.rs:138-153).
THEOREM ExitTellsTheorem == Spec => []ExitTells
<1>1. QInv => ExitTells
  BY DEF QInv
<1> QED
  BY <1>1, ReasonsInvariant, PTL

\* Neither channel between the screen and the reader is ever found full, and no
\* load the screen begins is refused (worker.rs:49-58, 71-92).
THEOREM ChannelsNeverFullTheorem == Spec => []ChannelsNeverFull
<1>1. ASSUME QInv PROVE ChannelsNeverFull
  <2>1. thread.pc = "send" => worker.responses = <<>>
    BY <1>1 DEF QInv, RInv, Employed, OnePlace
  <2>2. ASSUME ui.pc \in {"new", "event"}, Begins(ui)
        PROVE  Submits
    BY <1>1, <2>2, IdleReader DEF QInv, Begins, Submits, InLoop, LoopSteps
  <2> QED
    BY <2>1, <2>2 DEF ChannelsNeverFull
<1> QED
  BY <1>1, ReasonsInvariant, PTL
=============================================================================
