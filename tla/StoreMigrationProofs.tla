----------------------- MODULE StoreMigrationProofs ------------------------
(***************************************************************************)
(* Theorems about StoreMigration, for any number of callers, schema        *)
(* versions, directory entries, faults, writes and cancellations.          *)
(*                                                                         *)
(* The argument rests on two exclusions.  The repository lock lets one     *)
(* call at a time past its first steps, so the backup file of that call is *)
(* changed by no other; SQLite's write reservation keeps the database as   *)
(* it was when the call inspected it, so the image in the file is still    *)
(* the database that COMMIT replaces.                                      *)
(***************************************************************************)
EXTENDS StoreMigration, FiniteSetTheorems, TLAPS

-----------------------------------------------------------------------------
(* The inductive invariant.                                                *)

\* Phases of a call with a backup file; while the file may still be removed,
\* and once it is to be kept.
Making == {"snapshot", "write", "finish", "sync", "verify", "bind", "cleanup"}
Keeping == {"upgrade", "commit", "confirm"}
Named == Making \cup Keeping

\* Phases under the write reservation, under the lifecycle lock and under the
\* repository lock.
Reserving == {"begun", "create", "upgrade", "commit"} \cup Making
InLifecycle == {"reserve", "confirm"} \cup Reserving
Locked == {"storage"} \cup InLifecycle

Pcs == {"idle", "locks", "done"} \cup Locked

CallRecords ==
    [pc : Pcs, cancelled : BOOLEAN, early : BOOLEAN, found : 1..Current \cup {None},
     name : Names \cup {None}, snapshot : Databases \cup {None},
     complete : BOOLEAN, outcome : Outcomes \cup {None}]

Types ==
    /\ db \in Databases /\ work \in Databases
    /\ reserved \in Calls \cup {"writer", None}
    /\ repoLock \in Calls \cup {None} /\ lifecycle \in Calls \cup {None}
    /\ leased \in BOOLEAN
    /\ files \in [Names -> BackupFiles \cup {None}]
    /\ call \in [Calls -> CallRecords]
    /\ inspector \in [version : 0..(Current + 1) \cup {None}, verdict : Verdicts \cup {None}]
    /\ writes \in 0..MaxWrites /\ cancels \in 0..MaxCancels /\ faults \in 0..MaxFaults
    /\ reported \subseteq Names /\ replaced \subseteq Databases

\* What call c holds in the phase it is in.
Guarded(c) ==
    /\ call[c].pc \in Locked <=> repoLock = c
    /\ call[c].pc \in InLifecycle <=> lifecycle = c
    /\ call[c].pc \in Reserving <=> reserved = c

\* What its reservation says of the database.
Reserved(c) ==
    /\ call[c].pc \in Reserving => call[c].found = db.version /\ Supported(db.version)
    /\ call[c].pc \in Reserving \ {"begun"} => db.version < Current
    /\ call[c].pc \in Reserving \ {"upgrade", "commit"} => work = db
    /\ call[c].pc = "upgrade" => work.version <= Current
    /\ call[c].pc = "commit" => work.version = Current
    /\ call[c].pc = "confirm" => db.version = Current
    /\ call[c].pc \in {"write", "finish", "sync", "verify", "bind"} => call[c].snapshot = db

\* What the file under its name holds.
BackedUp(c) ==
    LET file == files[call[c].name] IN
    /\ call[c].pc \in Named =>
          call[c].name \in Names /\ call[c].name \notin reported /\ file # None
    /\ call[c].pc \in {"sync", "verify", "bind"} => file.part = "whole" /\ file.image = db
    /\ call[c].pc \in {"verify", "bind"} => file.synced
    /\ call[c].pc \in Keeping => OnDisk(call[c].name) /\ file.image.version < Current
    /\ call[c].pc \in {"upgrade", "commit"} => file.image = db

\* What it remembers.
Remembers(c) ==
    /\ call[c].name # None => call[c].pc \in Named \cup {"done"}
    /\ call[c].early => call[c].cancelled /\ call[c].pc \notin Keeping
    /\ call[c].early => call[c].outcome \notin {"migrated", "retained"}
    /\ call[c].pc # "done" => call[c].outcome = None

CallSound(c) == Guarded(c) /\ Reserved(c) /\ BackedUp(c) /\ Remembers(c)

\* No call removes the file under name n any more.
Safe(n) == \A c \in Calls : call[c].pc \in Making => call[c].name # n

\* The database under a reservation, and the transactions counted in it.
DatabaseSound ==
    /\ work.rows = db.rows
    /\ reserved \notin Calls => work = db
    /\ db.rows <= writes /\ (reserved = "writer" => db.rows < writes)

BackupsSound ==
    /\ \A d \in replaced : \E n \in Names : OnDisk(n) /\ files[n].image = d /\ Safe(n)
    /\ \A n \in reported : OnDisk(n) /\ files[n].image.version < Current

\* Backups no caller was told of, and the one in the making.
Unreported == {n \in Names : files[n] # None} \ reported
InHand == IF \E c \in Calls : call[c].pc \in Named THEN 1 ELSE 0

CountSound == Cardinality(Unreported) <= faults + InHand

\* A version once read is the database's or that of one a migration replaced.
InspectorSound ==
    /\ inspector.version # None =>
          inspector.version = db.version \/ \E d \in replaced : d.version = inspector.version
    /\ inspector.verdict = "current" => db.version = Current
    /\ inspector.verdict = "incompatible" =>
          inspector.version # None
            /\ (inspector.version > Current \/ \E d \in replaced : d.version = inspector.version)

MInv ==
    /\ Types
    /\ \A c \in Calls : CallSound(c)
    /\ DatabaseSound
    /\ BackupsSound
    /\ CountSound
    /\ InspectorSound

-----------------------------------------------------------------------------
(* The move of one call.                                                   *)

\* Call c goes on with record n.
Moves(c, n) == call' = [call EXCEPT ![c] = n]

\* The counters of a repository nothing has happened to yet.
LEMMA Zeros ==
    /\ 0 \in 0..MaxWrites /\ 0 \in 0..MaxCancels /\ 0 \in 0..MaxFaults
    /\ 0 <= 0 /\ 0 <= 0 + 0
  BY MigrationAssumption

\* One call moves, the others stay.
LEMMA MoveFacts ==
    ASSUME Types, NEW c \in Calls, NEW n \in CallRecords, Moves(c, n)
    PROVE  /\ call' \in [Calls -> CallRecords]
           /\ call'[c] = n
           /\ \A q \in Calls \ {c} : call'[q] = call[q]
  BY DEF Types, Moves

\* Only one call is past the repository lock.
LEMMA Alone ==
    ASSUME MInv, NEW c \in Calls, call[c].pc \in Locked
    PROVE  \A q \in Calls \ {c} : call[q].pc \notin Locked
  BY Zenon DEF MInv, CallSound, Guarded

\* A guard that call c takes or drops is no one else's.
Own(c, guard, guardNext) == guard = guardNext \/ {guard, guardNext} \subseteq {c, None}

OwnGuards(c) ==
    /\ Own(c, repoLock, repoLock')
    /\ Own(c, lifecycle, lifecycle')
    /\ Own(c, reserved, reserved')

\* The other calls keep what they have: outside the lock a call changes
\* nothing they depend on, under it they depend on nothing.
LEMMA OthersSound ==
    ASSUME MInv, NEW c \in Calls, NEW n \in CallRecords, Moves(c, n), OwnGuards(c),
           call[c].pc \in Locked \/ UNCHANGED <<db, work, files, reported>>
    PROVE  \A q \in Calls \ {c} : CallSound(q)'
<1> SUFFICES ASSUME NEW q \in Calls \ {c} PROVE CallSound(q)'
  OBVIOUS
<1>1. call'[q] = call[q]
  BY MoveFacts DEF MInv
<1>2. Guarded(q) /\ Reserved(q) /\ BackedUp(q) /\ Remembers(q)
  BY Zenon DEF MInv, CallSound
<1>3. /\ repoLock' = q <=> repoLock = q
      /\ lifecycle' = q <=> lifecycle = q
      /\ reserved' = q <=> reserved = q
  BY MigrationAssumption DEF OwnGuards, Own
<1>4. Guarded(q)'
  BY <1>1, <1>2, <1>3, Zenon DEF Guarded
<1>5. Remembers(q)'
  BY <1>1, <1>2, Zenon DEF Remembers
<1>6. CASE call[q].pc \in Locked
  <2>1. UNCHANGED <<db, work, files, reported>>
    BY <1>6, Alone
  <2>2. Reserved(q)'
    BY <1>1, <1>2, <2>1, Zenon DEF Reserved
  <2>3. BackedUp(q)'
    BY <1>1, <1>2, <2>1, Zenon DEF BackedUp, OnDisk
  <2> QED
    BY <1>4, <1>5, <2>2, <2>3 DEF CallSound
<1>7. CASE call[q].pc \notin Locked
  <2>1. call[q].pc \notin Reserving \cup Named
    BY <1>7 DEF Locked, InLifecycle, Reserving, Named, Making, Keeping
  <2>2. Reserved(q)'
    BY <1>1, <2>1 DEF Reserved, Reserving, Named, Making, Keeping
  <2>3. BackedUp(q)'
    BY <1>1, <2>1 DEF BackedUp, Named, Making, Keeping
  <2> QED
    BY <1>4, <1>5, <2>2, <2>3 DEF CallSound
<1> QED
  BY <1>6, <1>7

\* A step of one call keeps the invariant if it does so for that call and for
\* what the calls share.
LEMMA StepKeeps ==
    ASSUME MInv, NEW c \in Calls, NEW n \in CallRecords, Moves(c, n), OwnGuards(c),
           call[c].pc \in Locked \/ UNCHANGED <<db, work, files, reported>>,
           Types', CallSound(c)', DatabaseSound', BackupsSound', CountSound',
           InspectorSound'
    PROVE  MInv'
  BY OthersSound, Zenon DEF MInv

\* A move that does not start a backup leaves safe names safe.
LEMMA SafeStays ==
    ASSUME Types, NEW c \in Calls, NEW n \in CallRecords, Moves(c, n),
           n.pc \in Making => call[c].pc \in Making /\ n.name = call[c].name,
           NEW x, Safe(x)
    PROVE  Safe(x)'
  BY MoveFacts DEF Safe

\* Files that stay are as good as before.
LEMMA BackupsStay ==
    ASSUME MInv, NEW c \in Calls, NEW n \in CallRecords, Moves(c, n),
           n.pc \in Making => call[c].pc \in Making /\ n.name = call[c].name,
           UNCHANGED <<files, history>>
    PROVE  BackupsSound'
<1>1. UNCHANGED <<reported, replaced>> /\ Types /\ BackupsSound /\ reported \subseteq Names
  BY Zenon DEF history, MInv, Types
<1>2. \A x \in Names : OnDisk(x)' <=> OnDisk(x)
  BY DEF OnDisk
<1>3. \A x \in Names : Safe(x) => Safe(x)'
  BY <1>1, SafeStays
<1> QED
  BY <1>1, <1>2, <1>3, Zenon DEF BackupsSound

\* The backup in hand: with the call under the lock, or as before.
LEMMA InHandFacts ==
    ASSUME MInv, NEW c \in Calls, NEW n \in CallRecords, Moves(c, n)
    PROVE  /\ InHand \in {0, 1}
           /\ (n.pc \in Named <=> call[c].pc \in Named) => InHand' = InHand
           /\ call[c].pc \in Locked =>
                 /\ InHand = IF call[c].pc \in Named THEN 1 ELSE 0
                 /\ InHand' = IF n.pc \in Named THEN 1 ELSE 0
<1>1. call'[c] = n /\ \A q \in Calls \ {c} : call'[q] = call[q]
  BY MoveFacts DEF MInv
<1>2. InHand \in {0, 1}
  BY DEF InHand
<1>3. (n.pc \in Named <=> call[c].pc \in Named) => InHand' = InHand
  BY <1>1 DEF InHand
<1>4. ASSUME call[c].pc \in Locked
      PROVE  /\ InHand = IF call[c].pc \in Named THEN 1 ELSE 0
             /\ InHand' = IF n.pc \in Named THEN 1 ELSE 0
  <2>1. \A q \in Calls \ {c} : call[q].pc \notin Named
    BY <1>4, Alone DEF Locked, InLifecycle, Reserving, Named, Making, Keeping
  <2> QED
    BY <1>1, <2>1 DEF InHand
<1> QED
  BY <1>2, <1>3, <1>4

\* What an inspection knows depends on the database and its past only.
LEMMA InspectorStays ==
    ASSUME MInv, UNCHANGED <<db, inspector, replaced>>
    PROVE  InspectorSound'
  BY Zenon DEF MInv, InspectorSound

\* Steps of a call that change neither database nor files.
LEMMA QuietStep ==
    ASSUME MInv, NEW c \in Calls, NEW n \in CallRecords, Moves(c, n), OwnGuards(c),
           call[c].pc \in Locked \/ UNCHANGED work,
           UNCHANGED <<db, files, inspector, history>>,
           n.pc \in Making => call[c].pc \in Making /\ n.name = call[c].name,
           n.pc \in Named <=> call[c].pc \in Named,
           faults' >= faults, Types', CallSound(c)', DatabaseSound'
    PROVE  MInv'
<1>1. UNCHANGED <<reported, replaced>>
  BY DEF history
<1>2. BackupsSound' /\ InspectorSound'
  BY <1>1, BackupsStay, InspectorStays
<1>3. CountSound'
  <2>1. Unreported' = Unreported /\ InHand' = InHand
    BY <1>1, InHandFacts DEF Unreported
  <2>2. CountSound /\ Cardinality(Unreported) \in Nat /\ InHand \in {0, 1}
        /\ faults \in Nat /\ faults' \in Nat
    <3>1. IsFiniteSet(Names)
      BY MigrationAssumption, FS_Interval DEF Names
    <3>2. IsFiniteSet(Unreported)
      BY <3>1, FS_Subset DEF Unreported
    <3> QED
      BY <3>2, FS_CardinalityType, InHandFacts, MigrationAssumption, SMTT(30) DEF MInv, Types
  <2> QED
    BY <2>1, <2>2 DEF CountSound
<1> QED
  BY <1>1, <1>2, <1>3, StepKeeps

-----------------------------------------------------------------------------
(* Records of a call.                                                      *)

\* From m to n, a call keeps everything but where it is.
Same(n, m) ==
    /\ n.cancelled = m.cancelled /\ n.early = m.early /\ n.found = m.found
    /\ n.name = m.name /\ n.snapshot = m.snapshot /\ n.complete = m.complete
    /\ n.outcome = m.outcome

\* Goto is a move that changes the phase only.
LEMMA GotoMoves ==
    ASSUME Types, NEW c \in Calls, NEW next \in Pcs, Goto(c, next)
    PROVE  \E n \in CallRecords : Moves(c, n) /\ n.pc = next /\ Same(n, call[c])
<1> DEFINE n == [call[c] EXCEPT !.pc = next]
<1>1. call[c] \in CallRecords
  BY DEF Types
<1>2. n \in CallRecords /\ n.pc = next /\ Same(n, call[c])
  BY <1>1 DEF CallRecords, Same
<1>3. Moves(c, n)
  BY DEF Goto, Moves
<1> QED
  BY <1>2, <1>3, Zenon

\* A result ends the call and leaves the rest of its record.
Ended(n, m, result) ==
    /\ n.pc = "done" /\ n.outcome = result
    /\ n.name = m.name /\ n.early = m.early /\ n.cancelled = m.cancelled

\* A call that returns is done, with its outcome, its name and its flags.
LEMMA ReturnMoves ==
    ASSUME Types, NEW c \in Calls, NEW result \in Outcomes,
           call' = [call EXCEPT ![c].pc = "done", ![c].outcome = result]
    PROVE  \E n \in CallRecords : Moves(c, n) /\ Ended(n, call[c], result)
<1> DEFINE n == [call[c] EXCEPT !.pc = "done", !.outcome = result]
<1>1. call[c] \in CallRecords
  BY DEF Types
<1>2. n \in CallRecords /\ Ended(n, call[c], result)
  BY <1>1, Zenon DEF CallRecords, Ended, Pcs
<1>3. Moves(c, n)
  BY Zenon DEF Moves, Types
<1> QED
  BY <1>2, <1>3

\* A call that starts anew.
LEMMA NewCallType ==
    /\ NewCall \in CallRecords /\ NewCall.pc = "idle" /\ NewCall.name = None
    /\ ~NewCall.early /\ NewCall.outcome = None
  BY DEF NewCall, CallRecords, Pcs

\* Faults are counted up to their bound.
FaultsMove == faults' \in 0..MaxFaults /\ faults' >= faults

\* What a fault leaves of the call it hits.
LEMMA FaultFacts ==
    ASSUME Types
    PROVE  /\ Fault => FaultsMove /\ faults' = faults + 1
           /\ UNCHANGED faults => FaultsMove
           /\ \A check : Fails(check) => FaultsMove
<1>1. faults \in 0..MaxFaults /\ MaxFaults \in Nat
  BY MigrationAssumption DEF Types
<1>2. Fault => FaultsMove /\ faults' = faults + 1
  BY <1>1 DEF Fault, FaultsMove
<1>3. UNCHANGED faults => FaultsMove
  BY <1>1 DEF FaultsMove
<1> QED
  BY <1>2, <1>3 DEF Fails

-----------------------------------------------------------------------------
(* Steps that change neither database nor files.                           *)

\* Nothing but the record of the call and the counters.
LEMMA TurnKeeps ==
    ASSUME MInv, NEW c \in Calls, NEW n \in CallRecords, Moves(c, n),
           UNCHANGED <<db, guards, files, leased, inspector, writes, history>>,
           cancels' \in 0..MaxCancels, FaultsMove,
           n.pc \in Locked <=> call[c].pc \in Locked,
           n.pc \in InLifecycle <=> call[c].pc \in InLifecycle,
           n.pc \in Reserving <=> call[c].pc \in Reserving,
           n.pc \in Named <=> call[c].pc \in Named,
           n.pc \in Making => call[c].pc \in Making /\ n.name = call[c].name,
           Reserved(c)', BackedUp(c)', Remembers(c)'
    PROVE  MInv'
<1>1. UNCHANGED <<reserved, work, repoLock, lifecycle, reported, replaced>>
  BY DEF guards, history
<1>2. call' \in [Calls -> CallRecords] /\ call'[c] = n
  BY MoveFacts DEF MInv
<1>3. Types'
  BY <1>1, <1>2, Zenon DEF MInv, Types, FaultsMove
<1>4. Guarded(c)'
  BY <1>1, <1>2, Zenon DEF MInv, CallSound, Guarded
<1>5. CallSound(c)'
  BY <1>4, Zenon DEF CallSound
<1>6. DatabaseSound'
  BY <1>1, Zenon DEF MInv, DatabaseSound
<1>7. OwnGuards(c)
  BY <1>1, Zenon DEF OwnGuards, Own
<1> QED
  BY <1>1, <1>3, <1>5, <1>6, <1>7, QuietStep, Zenon DEF FaultsMove

\* What dropping the guards of a call does.
LEMMA DropFacts ==
    ASSUME MInv, NEW c \in Calls, DropGuards(c)
    PROVE  /\ OwnGuards(c) /\ repoLock' # c /\ lifecycle' # c /\ reserved' # c
           /\ repoLock' \in Calls \cup {None} /\ lifecycle' \in Calls \cup {None}
           /\ reserved' \in Calls \cup {"writer", None}
           /\ work' = IF reserved = c THEN db ELSE work
           /\ work' \in Databases
           /\ reserved' = "writer" => reserved = "writer"
           /\ reserved' \notin Calls /\ reserved \in Calls => reserved = c
<1>1. /\ reserved' = IF reserved = c THEN None ELSE reserved
      /\ work' = IF reserved = c THEN db ELSE work
      /\ repoLock' = IF repoLock = c THEN None ELSE repoLock
      /\ lifecycle' = IF lifecycle = c THEN None ELSE lifecycle
  BY DEF DropGuards
<1>2. OwnGuards(c)
  BY <1>1 DEF OwnGuards, Own
<1> QED
  BY <1>1, <1>2, MigrationAssumption DEF MInv, Types

\* With the guards dropped and no commit, the database is as it was.
LEMMA DropDatabase ==
    ASSUME MInv, NEW c \in Calls, DropGuards(c), UNCHANGED <<db, writes>>
    PROVE  DatabaseSound'
<1>1. DatabaseSound
  BY DEF MInv
<1> QED
  BY <1>1, DropFacts DEF DatabaseSound

\* A call that has ended, or starts anew, holds nothing.
LEMMA FreeCall ==
    ASSUME Types, NEW c \in Calls, NEW n \in CallRecords, Moves(c, n),
           repoLock' # c, lifecycle' # c, reserved' # c,
           \/ n = NewCall
           \/ n.pc = "done" /\ n.early = call[c].early /\ n.cancelled = call[c].cancelled
              /\ (n.early => n.cancelled)
              /\ (n.early => n.outcome \notin {"migrated", "retained"})
    PROVE  CallSound(c)' /\ n.pc \in {"idle", "done"} /\ n.pc \notin Named
<1>1. call'[c] = n
  BY MoveFacts
<1>2. n.pc \in {"idle", "done"}
  BY NewCallType
<1>3. n.pc \notin Locked \cup Named
  BY <1>2 DEF Locked, InLifecycle, Reserving, Named, Making, Keeping
<1>4. n.pc \notin InLifecycle \cup Reserving \cup Keeping
  BY <1>3, Zenon DEF Locked, InLifecycle, Named
<1>5. Guarded(c)'
  BY <1>1, <1>3, <1>4, Zenon DEF Guarded
<1>6. Reserved(c)'
  BY <1>1, <1>2, <1>4 DEF Reserved
<1>7. BackedUp(c)'
  BY <1>1, <1>2, <1>3, <1>4 DEF BackedUp
<1>8. Remembers(c)'
  BY <1>1, <1>2, <1>4, NewCallType DEF Remembers
<1> QED
  BY <1>2, <1>3, <1>5, <1>6, <1>7, <1>8, Zenon DEF CallSound

\* A call without a backup returns, or is killed.
LEMMA EndUnnamed ==
    ASSUME MInv, NEW c \in Calls, call[c].pc \notin Named, NEW n \in CallRecords,
           Moves(c, n), DropGuards(c), FaultsMove,
           \/ n = NewCall
           \/ \E result \in {"failed", "already_current"} : Ended(n, call[c], result),
           UNCHANGED <<db, files, env, history>>
    PROVE  MInv'
<1>1. UNCHANGED <<leased, inspector, writes, cancels, reported, replaced>>
  BY DEF env, history
<1>2. call' \in [Calls -> CallRecords]
  BY MoveFacts DEF MInv
<1>3. Types'
  BY <1>1, <1>2, DropFacts, Zenon DEF MInv, Types, FaultsMove
<1>4. CallSound(c) /\ Types
  BY DEF MInv
<1>5. CallSound(c)' /\ n.pc \notin Named
  BY <1>4, DropFacts, FreeCall, Zenon DEF Ended, CallSound, Remembers
<1>6. call[c].pc \in Locked \/ UNCHANGED work
  BY <1>4, DropFacts, Zenon DEF CallSound, Guarded, Locked, InLifecycle
<1>7. n.pc \notin Making
  BY <1>5, Zenon DEF Named
<1> QED
  BY <1>1, <1>3, <1>5, <1>6, <1>7, DropFacts, DropDatabase, QuietStep, Zenon DEF FaultsMove

\* An error before a backup file exists.
LEMMA RefuseKeeps ==
    ASSUME MInv, NEW c \in Calls, call[c].pc \notin Named,
           Return(c, "failed") \/ Return(c, "already_current"), FaultsMove,
           UNCHANGED <<db, files, env, history>>
    PROVE  MInv'
<1>1. PICK result \in {"failed", "already_current"} : Return(c, result)
  OBVIOUS
<1>2. DropGuards(c) /\ call' = [call EXCEPT ![c].pc = "done", ![c].outcome = result]
  BY <1>1 DEF Return
<1>3. PICK n \in CallRecords : Moves(c, n) /\ Ended(n, call[c], result)
  BY <1>2, ReturnMoves, Zenon DEF MInv, Outcomes
<1> QED
  BY <1>2, <1>3, EndUnnamed

\* The facts about a call that its steps start from.
LEMMA At ==
    ASSUME MInv, NEW c \in Calls
    PROVE  /\ Types /\ call[c] \in CallRecords
           /\ Guarded(c) /\ Reserved(c) /\ BackedUp(c) /\ Remembers(c)
  BY DEF MInv, Types, CallSound

\* A call starts, or is refused before it holds anything.
LEMMA StartKeeps ==
    ASSUME MInv, NEW c \in Calls, Start(c)
    PROVE  MInv'
<1>1. call[c].pc = "idle" /\ UNCHANGED <<db, env, history>>
  BY Zenon DEF Start
<1>2. call[c].pc \notin Named \cup Locked
  BY <1>1 DEF Locked, InLifecycle, Reserving, Named, Making, Keeping
<1>3. CASE Fails(Live(c)) /\ Refuse(c)
  BY <1>1, <1>2, <1>3, At, FaultFacts, RefuseKeeps, Zenon DEF Refuse
<1>4. CASE Goto(c, "locks") /\ UNCHANGED <<guards, files, faults>>
  <2>1. PICK n \in CallRecords : Moves(c, n) /\ n.pc = "locks" /\ Same(n, call[c])
    BY <1>4, At, GotoMoves, Zenon DEF Pcs
  <2>2. call'[c] = n
    BY <2>1, At, MoveFacts
  <2>3. n.pc \notin Named \cup Locked
    BY <2>1 DEF Locked, InLifecycle, Reserving, Named, Making, Keeping
  <2>4. Reserved(c)' /\ BackedUp(c)'
    BY <2>1, <2>2, <2>3, Zenon DEF Reserved, BackedUp, Locked, InLifecycle, Named
  <2>5. Remembers(c)'
    BY <1>1, <1>2, <2>1, <2>2, <2>3, At, Zenon DEF Remembers, Same, Named
  <2>6. UNCHANGED <<leased, inspector, writes, cancels>> /\ FaultsMove /\ cancels \in 0..MaxCancels
    BY <1>1, <1>4, At, FaultFacts, Zenon DEF env, Types
  <2> QED
    BY <1>1, <1>2, <1>4, <2>1, <2>3, <2>4, <2>5, <2>6, TurnKeeps, Zenon
       DEF Locked, InLifecycle, Named
<1> QED
  BY <1>3, <1>4 DEF Start

\* The repository lock, or a refusal that leaves nothing.
LEMMA LockRepositoryKeeps ==
    ASSUME MInv, NEW c \in Calls, LockRepository(c)
    PROVE  MInv'
<1>1. call[c].pc = "locks" /\ UNCHANGED <<db, env, history>>
  BY DEF LockRepository
<1>2. call[c].pc \notin Named \cup Locked
  BY <1>1 DEF Locked, InLifecycle, Reserving, Named, Making, Keeping
<1>3. CASE Refuse(c) /\ FaultsMove
  BY <1>1, <1>2, <1>3, RefuseKeeps DEF Refuse
<1>4. CASE /\ repoLock = None /\ repoLock' = c
           /\ Goto(c, "storage")
           /\ UNCHANGED <<reserved, work, lifecycle, files, faults>>
  <2>1. PICK n \in CallRecords : Moves(c, n) /\ n.pc = "storage" /\ Same(n, call[c])
    BY <1>4, At, GotoMoves DEF Pcs, Locked
  <2>2. call' \in [Calls -> CallRecords] /\ call'[c] = n
    BY <2>1, At, MoveFacts, Zenon
  <2>3. n.pc \in Locked /\ n.pc \notin Named \cup InLifecycle \cup Reserving \cup Keeping
    BY <2>1 DEF Locked, InLifecycle, Reserving, Named, Making, Keeping
  <2>4. Reserved(c)' /\ BackedUp(c)'
    BY <2>1, <2>2, <2>3, Zenon DEF Reserved, BackedUp, Named
  <2>5. Remembers(c)'
    BY <1>1, <1>2, <2>1, <2>2, <2>3, At, Zenon DEF Remembers, Same, Named
  <2>6. Guarded(c)'
    BY <1>2, <1>4, <2>2, <2>3, At, Zenon DEF Guarded, Locked, InLifecycle
  <2>7. UNCHANGED <<leased, inspector, writes, cancels, reported, replaced>> /\ FaultsMove
    BY <1>1, <1>4, At, FaultFacts, Zenon DEF env, history
  <2>8. Types'
    BY <1>1, <1>4, <2>2, <2>7, At, Zenon DEF Types, FaultsMove
  <2>9. OwnGuards(c) /\ DatabaseSound'
    BY <1>1, <1>4, <2>7, Zenon DEF OwnGuards, Own, MInv, DatabaseSound
  <2> QED
    BY <1>1, <1>2, <1>4, <2>1, <2>3, <2>4, <2>5, <2>6, <2>7, <2>8, <2>9, QuietStep, Zenon
       DEF Named, CallSound, FaultsMove
<1> QED
  BY <1>3, <1>4, At, FaultFacts DEF LockRepository

\* The lifecycle lock, or a refusal that leaves nothing.
LEMMA LockLifecycleKeeps ==
    ASSUME MInv, NEW c \in Calls, LockLifecycle(c)
    PROVE  MInv'
<1>1. call[c].pc = "storage" /\ UNCHANGED <<db, env, history>>
  BY DEF LockLifecycle
<1>2. call[c].pc \in Locked /\ call[c].pc \notin Named \cup InLifecycle \cup Reserving
  BY <1>1 DEF Locked, InLifecycle, Reserving, Named, Making, Keeping
<1>3. CASE Refuse(c) /\ FaultsMove
  BY <1>1, <1>2, <1>3, RefuseKeeps DEF Refuse
<1>4. CASE /\ lifecycle = None /\ lifecycle' = c
           /\ Goto(c, "reserve")
           /\ UNCHANGED <<reserved, work, repoLock, files, faults>>
  <2>1. PICK n \in CallRecords : Moves(c, n) /\ n.pc = "reserve" /\ Same(n, call[c])
    BY <1>4, At, GotoMoves, Zenon DEF Pcs, Locked, InLifecycle
  <2>2. call' \in [Calls -> CallRecords] /\ call'[c] = n
    BY <2>1, At, MoveFacts, Zenon
  <2>3. n.pc \in Locked \cap InLifecycle /\ n.pc \notin Named \cup Reserving \cup Keeping
    BY <2>1 DEF Locked, InLifecycle, Reserving, Named, Making, Keeping
  <2>4. Reserved(c)' /\ BackedUp(c)'
    BY <2>1, <2>2, <2>3, Zenon DEF Reserved, BackedUp, Named
  <2>5. Remembers(c)'
    BY <1>1, <1>2, <2>1, <2>2, <2>3, At, Zenon DEF Remembers, Same, Named
  <2>6. Guarded(c)'
    BY <1>2, <1>4, <2>2, <2>3, At, Zenon DEF Guarded
  <2>7. UNCHANGED <<leased, inspector, writes, cancels, reported, replaced>> /\ FaultsMove
    BY <1>1, <1>4, At, FaultFacts, Zenon DEF env, history
  <2>8. Types'
    BY <1>1, <1>4, <2>2, <2>7, At, Zenon DEF Types, FaultsMove
  <2>9. OwnGuards(c) /\ DatabaseSound'
    BY <1>1, <1>4, <2>7, Zenon DEF OwnGuards, Own, MInv, DatabaseSound
  <2> QED
    BY <1>1, <1>2, <1>4, <2>1, <2>3, <2>4, <2>5, <2>6, <2>7, <2>8, <2>9, QuietStep, Zenon
       DEF Named, CallSound, FaultsMove
<1> QED
  BY <1>3, <1>4, At, FaultFacts, Zenon DEF LockLifecycle

\* The reservation is taken on a supported schema.
LEMMA BeginKeeps ==
    ASSUME MInv, NEW c \in Calls, BeginExistingMigration(c)
    PROVE  MInv'
<1>1. call[c].pc = "reserve" /\ UNCHANGED <<db, env, history>>
  BY DEF BeginExistingMigration
<1>2. call[c].pc \in Locked \cap InLifecycle /\ call[c].pc \notin Named \cup Reserving
  BY <1>1 DEF Locked, InLifecycle, Reserving, Named, Making, Keeping
<1>3. CASE Refuse(c) /\ FaultsMove
  BY <1>1, <1>2, <1>3, RefuseKeeps, Zenon DEF Refuse
<1>4. CASE /\ reserved = None /\ Supported(db.version)
           /\ reserved' = c /\ work' = db
           /\ call' = [call EXCEPT ![c].pc = "begun", ![c].found = db.version]
           /\ UNCHANGED <<repoLock, lifecycle, files, faults>>
  <2> DEFINE n == [call[c] EXCEPT !.pc = "begun", !.found = db.version]
  <2>1. Moves(c, n)
    BY <1>4, At, Zenon DEF Moves, Types
  <2>2. /\ n \in CallRecords /\ n.pc = "begun" /\ n.found = db.version
        /\ n.name = call[c].name /\ n.early = call[c].early
        /\ n.cancelled = call[c].cancelled /\ n.outcome = call[c].outcome
    BY <1>4, At, Zenon DEF CallRecords, Pcs, Locked, InLifecycle, Reserving, Supported
  <2> HIDE DEF n
  <2>3. call' \in [Calls -> CallRecords] /\ call'[c] = n
    BY <2>1, <2>2, At, MoveFacts
  <2>4. n.pc \in Locked \cap InLifecycle \cap Reserving /\ n.pc \notin Named \cup Keeping
    BY <2>2 DEF Locked, InLifecycle, Reserving, Named, Making, Keeping
  <2>5. Reserved(c)' /\ BackedUp(c)'
    BY <1>1, <1>4, <2>2, <2>3, <2>4, Zenon DEF Reserved, BackedUp, Named
  <2>6. Remembers(c)'
    BY <1>1, <1>2, <2>2, <2>3, <2>4, At, Zenon DEF Remembers, Named
  <2>7. Guarded(c)'
    BY <1>2, <1>4, <2>3, <2>4, At, Zenon DEF Guarded
  <2>8. UNCHANGED <<leased, inspector, writes, cancels, reported, replaced>> /\ FaultsMove
    BY <1>1, <1>4, At, FaultFacts DEF env, history
  <2>9. Types'
    BY <1>1, <1>4, <2>3, <2>8, At DEF Types, FaultsMove
  <2>10. OwnGuards(c)
    BY <1>4 DEF OwnGuards, Own
  <2>11. DatabaseSound'
    BY <1>1, <1>4, <2>8, MigrationAssumption DEF MInv, DatabaseSound
  <2> QED
    BY <1>1, <1>2, <1>4, <2>1, <2>2, <2>4, <2>5, <2>6, <2>7, <2>8, <2>9, <2>10, <2>11,
       QuietStep DEF Named, CallSound, FaultsMove
<1> QED
  BY <1>3, <1>4, At, FaultFacts DEF BeginExistingMigration

\* A current schema ends the call, another one goes on under the reservation.
LEMMA BegunKeeps ==
    ASSUME MInv, NEW c \in Calls, Begun(c)
    PROVE  MInv'
<1>1. call[c].pc = "begun" /\ UNCHANGED <<db, env, history>>
  BY Zenon DEF Begun
<1>2. call[c].pc \in Reserving /\ call[c].pc \notin Named
  BY <1>1 DEF Reserving, Named, Making, Keeping
<1>3. CASE (Return(c, "failed") \/ Return(c, "already_current")) /\ UNCHANGED files /\ FaultsMove
  BY <1>1, <1>2, <1>3, RefuseKeeps
<1>4. CASE call[c].found # Current /\ Goto(c, "create") /\ UNCHANGED <<guards, files, faults>>
  <2>1. PICK n \in CallRecords : Moves(c, n) /\ n.pc = "create" /\ Same(n, call[c])
    BY <1>4, At, GotoMoves, Zenon DEF Pcs, Locked, InLifecycle, Reserving
  <2>2. call'[c] = n
    BY <2>1, At, MoveFacts
  <2>3. n.pc \in Reserving /\ n.pc \notin Named
    BY <2>1 DEF Reserving, Named, Making, Keeping
  <2>4. db.version < Current /\ Supported(db.version) /\ n.found = db.version /\ work = db
        /\ UNCHANGED work
    BY <1>1, <1>2, <1>4, <2>1, At, MigrationAssumption, SMTT(30)
       DEF Reserved, Supported, Same, Databases, Types, guards
  <2>5. Reserved(c)'
    BY <1>1, <2>1, <2>2, <2>4 DEF Reserved
  <2>6. BackedUp(c)'
    BY <2>1, <2>2, <2>3, Zenon DEF BackedUp, Named
  <2>7. Remembers(c)'
    BY <1>1, <1>2, <2>1, <2>2, <2>3, At, Zenon DEF Remembers, Same, Named
  <2>8. UNCHANGED <<leased, inspector, writes, cancels>> /\ FaultsMove /\ cancels \in 0..MaxCancels
    BY <1>1, <1>4, At, FaultFacts, Zenon DEF env, Types
  <2> QED
    BY <1>1, <1>2, <1>4, <2>1, <2>3, <2>5, <2>6, <2>7, <2>8, TurnKeeps, Zenon
       DEF Locked, InLifecycle, Named
<1> QED
  BY <1>3, <1>4, At, FaultFacts, Zenon DEF Begun, Refuse

-----------------------------------------------------------------------------
(* Steps that make the backup.                                             *)

\* The backups no caller was told of are finitely many.
LEMMA Counted ==
    ASSUME MInv
    PROVE  /\ IsFiniteSet(Unreported) /\ Cardinality(Unreported) \in Nat
           /\ Cardinality(Unreported) <= faults + InHand
           /\ faults \in Nat /\ InHand \in {0, 1}
<1>1. IsFiniteSet(Names)
  BY MigrationAssumption, FS_Interval DEF Names
<1>2. IsFiniteSet(Unreported)
  BY <1>1, FS_Subset DEF Unreported
<1> QED
  BY <1>2, FS_CardinalityType, MigrationAssumption DEF MInv, Types, CountSound, InHand

\* From m to n, a call goes on with its backup.
SameBackup(n, m) ==
    n.name = m.name /\ n.early = m.early /\ n.cancelled = m.cancelled /\ n.outcome = m.outcome

\* A call works on its own file, which is neither one that was reported nor
\* one a commit relies on.
LEMMA MakeKeeps ==
    ASSUME MInv, NEW c \in Calls, call[c].pc \in Making, NEW n \in CallRecords, Moves(c, n),
           SameBackup(n, call[c]), n.pc \in Making \/ (n.pc = "upgrade" /\ ~call[c].cancelled),
           NEW f \in BackupFiles, files' = [files EXCEPT ![call[c].name] = f],
           UNCHANGED <<db, guards, env, history>>, FaultsMove,
           Reserved(c)', BackedUp(c)'
    PROVE  MInv'
<1>1. UNCHANGED <<reserved, work, repoLock, lifecycle, leased, inspector, writes, cancels,
                  reported, replaced>>
  BY Zenon DEF guards, env, history
<1>2. call' \in [Calls -> CallRecords] /\ call'[c] = n
  BY At, MoveFacts, Zenon
<1>3. /\ call[c].pc \in Locked \cap InLifecycle \cap Reserving \cap Named
      /\ n.pc \in Locked \cap InLifecycle \cap Reserving \cap Named
  BY Zenon DEF Locked, InLifecycle, Reserving, Named, Making, Keeping
<1>4. /\ call[c].name \in Names /\ call[c].name \notin reported /\ files[call[c].name] # None
      /\ f # None
  BY <1>3, At, NoneAssumption, Zenon DEF BackedUp
<1>5. Types'
  BY <1>1, <1>2, <1>4, At, Zenon DEF Types, FaultsMove
<1>6. Guarded(c)'
  BY <1>1, <1>2, <1>3, At, Zenon DEF Guarded
<1>7. Remembers(c)'
  BY <1>2, <1>3, At, Zenon DEF Remembers, SameBackup, Keeping, Making
<1>8. DatabaseSound' /\ OwnGuards(c) /\ InspectorSound'
  BY <1>1, InspectorStays DEF MInv, DatabaseSound, OwnGuards, Own
<1>9. \A x \in Names \ {call[c].name} : files'[x] = files[x]
  BY <1>4, At, Zenon DEF Types
<1>10. BackupsSound'
  <2>1. \A x \in Names \ {call[c].name} : OnDisk(x) => OnDisk(x)'
    BY <1>9, Zenon DEF OnDisk
  <2>2. \A x \in Names : Safe(x) => x # call[c].name /\ Safe(x)'
    <3> SUFFICES ASSUME NEW x \in Names, Safe(x) PROVE x # call[c].name /\ Safe(x)'
      BY Zenon
    <3>1. x # call[c].name
      BY Zenon DEF Safe
    <3> QED
      BY <3>1, At, SafeStays, Zenon DEF SameBackup
  <2>3. reported \subseteq Names
    BY At, Zenon DEF Types
  <2>4. BackupsSound
    BY Zenon DEF MInv
  <2> QED
    BY <1>1, <1>4, <1>9, <2>1, <2>2, <2>3, <2>4, SMTT(30) DEF BackupsSound
<1>11. CountSound'
  <2>1. Unreported' = Unreported
    <3>1. files'[call[c].name] = f
      BY <1>4, At, Zenon DEF Types
    <3> QED
      BY <1>1, <1>4, <1>9, <3>1, Zenon DEF Unreported
  <2>2. InHand' = InHand
    BY <1>3, InHandFacts, Zenon
  <2> QED
    BY <2>1, <2>2, Counted DEF CountSound, FaultsMove
<1> QED
  BY <1>1, <1>3, <1>5, <1>6, <1>7, <1>8, <1>10, <1>11, StepKeeps, Zenon DEF CallSound

\* The file of a call that makes its backup.
LEMMA OwnFile ==
    ASSUME MInv, NEW c \in Calls, call[c].pc \in Making
    PROVE  /\ call[c].name \in Names /\ files[call[c].name] \in BackupFiles
           /\ call[c].pc \in Reserving /\ db \in Databases
           /\ call[c].found = db.version /\ Supported(db.version) /\ db.version < Current
           /\ work = db
<1>1. call[c].pc \in Named /\ call[c].pc \in Reserving \ {"begun", "upgrade", "commit"}
  BY DEF Named, Making, Reserving
<1>2. call[c].name \in Names /\ files[call[c].name] # None
  BY <1>1, At, Zenon DEF BackedUp
<1>3. files[call[c].name] \in BackupFiles
  BY <1>2, At, Zenon DEF Types
<1>4. db \in Databases
  BY At, Zenon DEF Types
<1> QED
  BY <1>1, <1>2, <1>3, <1>4, At, Zenon DEF Reserved

\* Under its reservation the call goes on with the database it inspected.
LEMMA MakeReserved ==
    ASSUME MInv, NEW c \in Calls, call[c].pc \in Making, NEW n \in CallRecords, Moves(c, n),
           n.pc \in Making \cup {"upgrade"}, n.found = call[c].found,
           n.pc \in {"write", "finish", "sync", "verify", "bind"} => n.snapshot = db,
           UNCHANGED <<db, guards>>
    PROVE  Reserved(c)'
<1>1. call'[c] = n /\ work' = work
  BY At, MoveFacts, Zenon DEF guards
<1>2. n.pc \notin {"commit", "confirm"}
  BY DEF Making
<1>3. db.version \in Nat /\ Current \in Nat
  BY OwnFile, MigrationAssumption DEF Databases
<1> QED
  BY <1>1, <1>2, <1>3, OwnFile, SMTT(30) DEF Reserved

\* An error while the backup is made.
LEMMA AbandonKeeps ==
    ASSUME MInv, NEW c \in Calls, call[c].pc \in Making,
           Goto(c, "cleanup"), NEW f \in BackupFiles,
           files' = [files EXCEPT ![call[c].name] = f],
           FaultsMove, UNCHANGED <<db, guards, env, history>>
    PROVE  MInv'
<1>2. PICK n \in CallRecords : Moves(c, n) /\ n.pc = "cleanup" /\ Same(n, call[c])
  BY At, GotoMoves, Zenon DEF Pcs, Locked, InLifecycle, Reserving, Making
<1>3. call'[c] = n /\ n.pc \in Making /\ reported' = reported /\ f # None
  BY <1>2, At, MoveFacts, NoneAssumption, Zenon DEF Making, history
<1>4. Reserved(c)'
  BY <1>2, <1>3, MakeReserved, Zenon DEF Same
<1>5. files'[call[c].name] = f /\ call[c].name \in Names /\ call[c].name \notin reported
  BY OwnFile, At, Zenon DEF Types, BackedUp, Named
<1>6. BackedUp(c)'
  BY <1>2, <1>3, <1>5, Zenon DEF BackedUp, Same, Named, Keeping
<1> QED
  BY <1>2, <1>3, <1>4, <1>6, MakeKeeps, Zenon DEF Same, SameBackup

\* A call that fails after creating its backup goes to its cleanup.
LEMMA AbandonFacts ==
    ASSUME MInv, NEW c \in Calls, call[c].pc \in Making, Abandon(c), FaultsMove,
           UNCHANGED <<db, env, history>>
    PROVE  MInv'
<1>1. Goto(c, "cleanup") /\ UNCHANGED <<guards, files>>
  BY DEF Abandon
<1>2. files' = [files EXCEPT ![call[c].name] = files[call[c].name]]
  BY <1>1, At DEF Types
<1> QED
  BY <1>1, <1>2, OwnFile, AbandonKeeps, Zenon

\* The snapshot is the database as it is under the reservation.
LEMMA SnapshotKeeps ==
    ASSUME MInv, NEW c \in Calls, SnapshotLockedSource(c)
    PROVE  MInv'
<1>1. call[c].pc = "snapshot" /\ call[c].pc \in Making /\ UNCHANGED <<db, env, history>>
  BY DEF SnapshotLockedSource, Making
<1>2. CASE Abandon(c) /\ FaultsMove
  BY <1>1, <1>2, AbandonFacts
<1>3. CASE /\ call' = [call EXCEPT ![c].pc = "write", ![c].snapshot = db]
           /\ UNCHANGED <<guards, files, faults>>
  <2> DEFINE n == [call[c] EXCEPT !.pc = "write", !.snapshot = db]
  <2>1. Moves(c, n)
    BY <1>3, At, Zenon DEF Moves, Types
  <2>2. /\ n \in CallRecords /\ n.pc = "write" /\ n.snapshot = db
        /\ n.found = call[c].found /\ SameBackup(n, call[c])
    BY At, <1>1, OwnFile, ZenonT(40) DEF CallRecords, Pcs, Locked, InLifecycle, Reserving, Making, SameBackup
  <2> HIDE DEF n
  <2>3. call'[c] = n /\ n.pc \in Making /\ reported' = reported /\ FaultsMove
    BY <1>1, <1>3, <2>1, <2>2, At, MoveFacts, FaultFacts, Zenon DEF Making, history
  <2>4. Reserved(c)'
    BY <1>1, <1>3, <2>1, <2>2, <2>3, MakeReserved
  <2>5. BackedUp(c)'
    BY <1>1, <1>3, <2>2, <2>3, At, SMTT(30) DEF BackedUp, SameBackup, Named, Keeping
  <2>6. files' = [files EXCEPT ![call[c].name] = files[call[c].name]]
    BY <1>3, At DEF Types
  <2> QED
    BY <1>1, <1>3, <2>1, <2>2, <2>3, <2>4, <2>5, <2>6, OwnFile, MakeKeeps, Zenon
<1> QED
  BY <1>2, <1>3, At, FaultFacts DEF SnapshotLockedSource

\* A step of the backup's making that only moves on and changes the file to f.
LEMMA WriteKeeps ==
    ASSUME MInv, NEW c \in Calls, call[c].pc \in Making,
           NEW to \in {"finish", "sync", "verify", "bind", "upgrade"}, Goto(c, to),
           to = "upgrade" => ~call[c].cancelled,
           to # "upgrade" => call[c].snapshot = db,
           NEW f \in BackupFiles, files' = [files EXCEPT ![call[c].name] = f],
           to # "finish" => f.part = "whole" /\ f.image = db,
           to \in {"verify", "bind", "upgrade"} => f.synced,
           to = "upgrade" => f.entered,
           FaultsMove, UNCHANGED <<db, guards, env, history>>
    PROVE  MInv'
<1>2. PICK n \in CallRecords : Moves(c, n) /\ n.pc = to /\ Same(n, call[c])
  BY At, GotoMoves, Zenon DEF Pcs, Locked, InLifecycle, Reserving, Making
<1>3. /\ call'[c] = n /\ n.pc \in Making \cup {"upgrade"} /\ reported' = reported /\ f # None
      /\ n.name = call[c].name
  BY <1>2, At, MoveFacts, NoneAssumption, Zenon DEF Making, history, Same
<1>4. Reserved(c)'
  BY <1>2, <1>3, MakeReserved, Zenon DEF Same
<1>5. files'[call[c].name] = f /\ call[c].name \in Names /\ call[c].name \notin reported
  BY OwnFile, At, Zenon DEF Types, BackedUp, Named
<1>6. BackedUp(c)'
  BY <1>2, <1>3, <1>5, OwnFile, Zenon DEF BackedUp, Named, Keeping, OnDisk
<1>7. SameBackup(n, call[c]) /\ (n.pc \in Making \/ (n.pc = "upgrade" /\ ~call[c].cancelled))
  BY <1>2, <1>3, Zenon DEF Same, SameBackup
<1> QED
  BY <1>2, <1>3, <1>4, <1>6, <1>7, MakeKeeps, Zenon

\* Writing the image leaves the file partial until its last chunk.
LEMMA WriteChunkKeeps ==
    ASSUME MInv, NEW c \in Calls, WriteRollbackImage(c)
    PROVE  MInv'
<1>1. PICK from \in {"write", "finish"}, to \in {"finish", "sync"}, part \in {"partial", "whole"} :
         WriteChunk(c, from, to, part) /\ (to = "sync" => part = "whole")
  BY DEF WriteRollbackImage
<1>2. call[c].pc \in {"write", "finish"} /\ call[c].pc \in Making /\ UNCHANGED <<db, env, history>>
  BY <1>1 DEF WriteChunk, Making
<1>3. CASE Abandon(c) /\ FaultsMove
  BY <1>2, <1>3, AbandonFacts, Zenon
<1>4. CASE /\ files' = [files EXCEPT ![call[c].name].image = call[c].snapshot,
                                    ![call[c].name].part = part]
           /\ Goto(c, to)
           /\ UNCHANGED <<guards, faults>>
  <2> DEFINE f == [files[call[c].name] EXCEPT !.image = call[c].snapshot, !.part = part]
  <2>1. call[c].snapshot = db
    BY <1>2, At, Zenon DEF Reserved
  <2>2. f \in BackupFiles /\ f.part = part /\ f.image = db
    BY <2>1, <1>2, OwnFile, Zenon DEF BackupFiles, Parts
  <2>3. files' = [files EXCEPT ![call[c].name] = f]
    BY <1>2, <1>4, OwnFile, At, Zenon DEF Types
  <2> HIDE DEF f
  <2>4. FaultsMove
    BY <1>4, At, FaultFacts
  <2>5. /\ to # "upgrade" /\ to \notin {"verify", "bind", "upgrade"}
        /\ to \in {"finish", "sync", "verify", "bind", "upgrade"}
        /\ to # "finish" => f.part = "whole" /\ f.image = db
    BY <1>1, <2>2
  <2>6. UNCHANGED <<db, guards, env, history>> /\ Goto(c, to)
    BY <1>2, <1>4
  <2> QED
    BY <1>2, <2>1, <2>2, <2>3, <2>4, <2>5, <2>6, WriteKeeps, Zenon
<1> QED
  BY <1>1, <1>3, <1>4, At, FaultFacts DEF WriteChunk

\* Synchronising the file makes its bytes durable.
LEMMA SyncBackupKeeps ==
    ASSUME MInv, NEW c \in Calls, SyncBackup(c)
    PROVE  MInv'
<1>1. call[c].pc = "sync" /\ call[c].pc \in Making /\ UNCHANGED <<db, env, history>>
  BY DEF SyncBackup, Making
<1>2. CASE Abandon(c) /\ FaultsMove
  BY <1>1, <1>2, AbandonFacts
<1>3. CASE /\ files' = [files EXCEPT ![call[c].name].synced = TRUE]
           /\ Goto(c, IF Live(c) THEN "verify" ELSE "cleanup")
           /\ UNCHANGED <<guards, faults>>
  <2> DEFINE f == [files[call[c].name] EXCEPT !.synced = TRUE]
  <2>1. call[c].snapshot = db /\ files[call[c].name].part = "whole" /\ files[call[c].name].image = db
    BY <1>1, At, Zenon DEF Reserved, BackedUp
  <2>2. f \in BackupFiles /\ f.part = "whole" /\ f.image = db /\ f.synced
    BY <1>1, <2>1, OwnFile, Zenon DEF BackupFiles
  <2>3. files' = [files EXCEPT ![call[c].name] = f]
    BY <1>1, <1>3, OwnFile, At, Zenon DEF Types
  <2> HIDE DEF f
  <2>4. Goto(c, "verify") \/ Goto(c, "cleanup")
    BY <1>3
  <2>5. FaultsMove
    BY <1>3, At, FaultFacts
  <2> QED
    BY <1>1, <1>3, <2>1, <2>2, <2>3, <2>4, <2>5, WriteKeeps, AbandonKeeps, Zenon
<1> QED
  BY <1>2, <1>3, At, FaultFacts DEF SyncBackup

\* Reading the backup back accepts only a whole image of the version found.
LEMMA VerifyKeeps ==
    ASSUME MInv, NEW c \in Calls, VerifyBackup(c)
    PROVE  MInv'
<1>1. call[c].pc = "verify" /\ call[c].pc \in Making /\ UNCHANGED <<db, env, history>>
  BY DEF VerifyBackup, Making
<1>2. CASE Abandon(c) /\ FaultsMove
  BY <1>1, <1>2, AbandonFacts
<1>3. CASE /\ call' = [call EXCEPT ![c].pc = "bind", ![c].complete = TRUE]
           /\ UNCHANGED <<guards, files, faults>>
  <2> DEFINE n == [call[c] EXCEPT !.pc = "bind", !.complete = TRUE]
  <2>1. Moves(c, n)
    BY <1>3, At, Zenon DEF Moves, Types
  <2>2. /\ n \in CallRecords /\ n.pc = "bind" /\ n.snapshot = call[c].snapshot
        /\ n.found = call[c].found /\ SameBackup(n, call[c])
    BY At, Zenon DEF CallRecords, Pcs, Locked, InLifecycle, Reserving, Making, SameBackup
  <2> HIDE DEF n
  <2>3. call'[c] = n /\ n.pc \in Making /\ reported' = reported /\ FaultsMove
    BY <1>1, <1>3, <2>1, <2>2, At, MoveFacts, FaultFacts, Zenon DEF Making, history
  <2>4. Reserved(c)'
    BY <1>1, <1>3, <2>1, <2>2, <2>3, At, MakeReserved, Zenon DEF Reserved
  <2>5. BackedUp(c)'
    BY <1>1, <1>3, <2>2, <2>3, At, SMTT(30) DEF BackedUp, SameBackup, Named, Keeping
  <2>6. files' = [files EXCEPT ![call[c].name] = files[call[c].name]]
    BY <1>3, At DEF Types
  <2> QED
    BY <1>1, <1>3, <2>1, <2>2, <2>3, <2>4, <2>5, <2>6, OwnFile, MakeKeeps, Zenon
<1> QED
  BY <1>2, <1>3, At, FaultFacts DEF VerifyBackup

\* The directory entry is durable before the last check for cancellation.
LEMMA SyncAndRecheckKeeps ==
    ASSUME MInv, NEW c \in Calls, SyncAndRecheckBackup(c)
    PROVE  MInv'
<1>1. call[c].pc = "bind" /\ call[c].pc \in Making /\ UNCHANGED <<db, env, history>>
  BY DEF SyncAndRecheckBackup, Making
<1>2. CASE Abandon(c) /\ FaultsMove
  BY <1>1, <1>2, AbandonFacts
<1>3. CASE /\ files' = [files EXCEPT ![call[c].name].entered = TRUE]
           /\ (Live(c) /\ Goto(c, "upgrade")) \/ Goto(c, "cleanup")
           /\ FaultsMove
           /\ UNCHANGED guards
  <2> DEFINE f == [files[call[c].name] EXCEPT !.entered = TRUE]
  <2>1. /\ files[call[c].name].part = "whole" /\ files[call[c].name].image = db
        /\ files[call[c].name].synced
    BY <1>1, At, Zenon DEF BackedUp
  <2>2. f \in BackupFiles /\ f.part = "whole" /\ f.image = db /\ f.synced /\ f.entered
    BY <1>1, <2>1, OwnFile, Zenon DEF BackupFiles
  <2>3. files' = [files EXCEPT ![call[c].name] = f]
    BY <1>1, <1>3, OwnFile, At, Zenon DEF Types
  <2> HIDE DEF f
  <2> QED
    BY <1>1, <1>3, <2>2, <2>3, WriteKeeps, AbandonKeeps, Zenon DEF Live
<1> QED
  BY <1>1, <1>2, <1>3, At, FaultFacts DEF SyncAndRecheckBackup

\* create_staging_file takes a name no file has, so none that was reported or
\* that a commit relies on.
LEMMA CreateKeeps ==
    ASSUME MInv, NEW c \in Calls, CreateBackup(c)
    PROVE  MInv'
<1>1. call[c].pc = "create" /\ UNCHANGED <<db, env, history>>
  BY DEF CreateBackup
<1>2. call[c].pc \in Locked \cap InLifecycle \cap Reserving /\ call[c].pc \notin Named
  BY <1>1 DEF Locked, InLifecycle, Reserving, Named, Making, Keeping
<1>3. CASE Refuse(c) /\ FaultsMove
  BY <1>1, <1>2, <1>3, RefuseKeeps DEF Refuse
<1>4. ASSUME NEW x \in Names, files[x] = None,
             files' = [files EXCEPT ![x] = EmptyFile],
             call' = [call EXCEPT ![c].pc = "snapshot", ![c].name = x],
             UNCHANGED <<guards, faults>>
      PROVE  MInv'
  <2> DEFINE n == [call[c] EXCEPT !.pc = "snapshot", !.name = x]
  <2>1. Moves(c, n)
    BY <1>4, At, Zenon DEF Moves, Types
  <2>2. /\ n \in CallRecords /\ n.pc = "snapshot" /\ n.name = x
        /\ n.found = call[c].found /\ n.early = call[c].early
        /\ n.cancelled = call[c].cancelled /\ n.outcome = call[c].outcome
    BY At, Zenon DEF CallRecords, Pcs, Locked, InLifecycle, Reserving, Making
  <2> HIDE DEF n
  <2>3. /\ call' \in [Calls -> CallRecords] /\ call'[c] = n
        /\ \A q \in Calls \ {c} : call'[q] = call[q]
    BY <2>1, <2>2, At, MoveFacts, Zenon
  <2>4. UNCHANGED <<reserved, work, repoLock, lifecycle, leased, inspector, writes, cancels,
                    reported, replaced, faults, db>>
    BY <1>1, <1>4 DEF guards, env, history
  <2>5. EmptyFile \in BackupFiles /\ EmptyFile # None
    <3>1. EmptyFile \in BackupFiles
      BY Zenon DEF EmptyFile, BackupFiles, Parts
    <3> QED
      BY <3>1, NoneAssumption, Zenon
  <2>6. files' \in [Names -> BackupFiles \cup {None}] /\ files'[x] = EmptyFile
        /\ \A m \in Names \ {x} : files'[m] = files[m]
    BY <1>4, <2>5, At DEF Types
  <2>7. Types'
    BY <2>3, <2>4, <2>6, At, Zenon DEF Types
  <2>8. n.pc \in Locked \cap InLifecycle \cap Reserving \cap Named \cap Making
        /\ n.pc \notin Keeping
    BY <2>2 DEF Locked, InLifecycle, Reserving, Named, Making, Keeping
  <2>9. Guarded(c)'
    BY <1>2, <2>3, <2>4, <2>8, At, Zenon DEF Guarded
  <2>10. Reserved(c)'
    BY <1>1, <1>2, <2>2, <2>3, <2>4, <2>8, At, Zenon DEF Reserved
  <2>11. \A m \in Names : OnDisk(m) => m # x /\ OnDisk(m)'
    BY <1>4, <2>6 DEF OnDisk
  <2>12. BackupsSound /\ reported \subseteq Names
    BY At, Zenon DEF MInv, Types
  <2>13. x \notin reported
    BY <2>11, <2>12 DEF BackupsSound
  <2>14. BackedUp(c)'
    BY <2>2, <2>3, <2>4, <2>5, <2>6, <2>8, <2>13, Zenon DEF BackedUp
  <2>15. Remembers(c)'
    BY <1>1, <2>2, <2>3, <2>8, At, Zenon DEF Remembers
  <2>16. \A m \in Names : Safe(m) /\ m # x => Safe(m)'
    BY <2>2, <2>3, Zenon DEF Safe
  <2>17. BackupsSound'
    BY <2>4, <2>6, <2>11, <2>12, <2>16, Zenon DEF BackupsSound
  <2>18. CountSound'
    <3>1. Unreported' = Unreported \cup {x} /\ x \notin Unreported
      BY <1>4, <2>4, <2>5, <2>6, <2>13 DEF Unreported
    <3>2. Cardinality(Unreported') = Cardinality(Unreported) + 1
      BY <3>1, Counted, FS_AddElement, Zenon
    <3>3. InHand = 0 /\ InHand' = 1
      BY <1>2, <2>1, <2>2, <2>8, InHandFacts, Zenon
    <3> QED
      BY <2>4, <3>2, <3>3, Counted DEF CountSound
  <2>19. DatabaseSound' /\ OwnGuards(c) /\ InspectorSound'
    BY <2>4, InspectorStays DEF MInv, DatabaseSound, OwnGuards, Own
  <2> QED
    BY <1>2, <2>1, <2>2, <2>7, <2>9, <2>10, <2>14, <2>15, <2>17, <2>18, <2>19, StepKeeps, Zenon
       DEF CallSound
<1> QED
  BY <1>3, <1>4, At, FaultFacts DEF CreateBackup

-----------------------------------------------------------------------------
(* The end of a call with a backup.                                        *)

\* The name of a backup in hand is one no caller was told of.
LEMMA InHandUnreported ==
    ASSUME MInv, NEW c \in Calls, call[c].pc \in Named
    PROVE  call[c].name \in Unreported /\ call[c].pc \in Locked
  BY At, Zenon DEF BackedUp, Unreported, Locked, InLifecycle, Reserving, Named, Making, Keeping

\* A call with a backup ends; its backup is gone, reported, or left by a fault.
LEMMA EndNamed ==
    ASSUME MInv, NEW c \in Calls, call[c].pc \in Named, NEW n \in CallRecords, Moves(c, n),
           \/ n = NewCall
           \/ \E result \in Outcomes :
                 Ended(n, call[c], result)
                 /\ (call[c].early => result \notin {"migrated", "retained"}),
           OwnGuards(c), repoLock' # c, lifecycle' # c, reserved' # c,
           Types', DatabaseSound', InspectorSound', BackupsSound', FaultsMove,
           \/ Unreported' = Unreported \ {call[c].name}
           \/ Unreported' = Unreported /\ faults' = faults + 1
    PROVE  MInv'
<1>1. call[c].name \in Unreported /\ call[c].pc \in Locked
  BY InHandUnreported
<1>2. call[c].early => call[c].cancelled
  BY At, Zenon DEF Remembers
<1>3. CallSound(c)' /\ n.pc \notin Named
  BY <1>2, At, FreeCall, Zenon DEF Ended
<1>4. InHand = 1 /\ InHand' = 0
  BY <1>1, <1>3, InHandFacts, Zenon
<1>5. faults' \in Nat /\ faults' >= faults
  BY MigrationAssumption DEF FaultsMove
<1>6. CountSound'
  <2>1. CASE Unreported' = Unreported /\ faults' = faults + 1
    BY <1>4, <1>5, <2>1, Counted DEF CountSound
  <2>2. CASE Unreported' = Unreported \ {call[c].name}
    <3>1. Cardinality(Unreported') = Cardinality(Unreported) - 1
      BY <1>1, <2>2, Counted, FS_RemoveElement, ZenonT(40)
    <3> QED
      BY <1>4, <1>5, <3>1, Counted DEF CountSound
  <2> QED
    BY <2>1, <2>2
<1> QED
  BY <1>1, <1>3, <1>6, StepKeeps, Zenon

\* Files that stay, with the backup of a call that keeps it: what was replaced
\* has its image, what was reported is whole.
LEMMA BackupsKept ==
    ASSUME MInv, NEW c \in Calls, call[c].pc \in Named, NEW n \in CallRecords, Moves(c, n),
           n.pc \notin Making, UNCHANGED files,
           \/ replaced' = replaced
           \/ call[c].pc = "commit" /\ replaced' = replaced \cup {db},
           \/ reported' = reported
           \/ call[c].pc \in Keeping /\ reported' = reported \cup {call[c].name}
    PROVE  BackupsSound'
<1>1. \A x \in Names : OnDisk(x)' <=> OnDisk(x)
  BY DEF OnDisk
<1>2. \A x \in Names : Safe(x) => Safe(x)'
  BY At, SafeStays, Zenon
<1>3. BackupsSound /\ reported \subseteq Names /\ call[c].name \in Names
  BY At, Zenon DEF MInv, Types, BackedUp
<1>4. call[c].pc \in Keeping => OnDisk(call[c].name) /\ files[call[c].name].image.version < Current
  BY At, Zenon DEF BackedUp
<1>5. call[c].pc = "commit" => files[call[c].name].image = db /\ OnDisk(call[c].name)
  BY At, Zenon DEF BackedUp, Keeping
<1>6. \A x : Safe(x)'
  <2>1. \A q \in Calls \ {c} : call[q].pc \notin Making
    BY InHandUnreported, Alone, Zenon DEF Locked, InLifecycle, Reserving
  <2> QED
    BY <2>1, At, MoveFacts, SMTT(30) DEF Safe
<1>7. \A d \in replaced' : \E x \in Names : OnDisk(x)' /\ files'[x].image = d /\ Safe(x)'
  <2> SUFFICES ASSUME NEW d \in replaced'
               PROVE  \E x \in Names : OnDisk(x)' /\ files'[x].image = d /\ Safe(x)'
    BY Zenon
  <2>1. CASE d \in replaced
    <3>1. PICK x \in Names : OnDisk(x) /\ files[x].image = d /\ Safe(x)
      BY <1>3, <2>1, Zenon DEF BackupsSound
    <3> QED
      BY <1>1, <1>2, <3>1, Zenon
  <2>2. CASE d \notin replaced
    <3>1. d = db /\ call[c].pc = "commit"
      BY <2>2
    <3>2. PICK x \in Names : x = call[c].name
      BY <1>3
    <3>3. OnDisk(x)' /\ files'[x].image = d
      BY <1>1, <1>5, <3>1, <3>2, Zenon
    <3> QED
      BY <3>3, <1>6, Zenon
  <2> QED
    BY <2>1, <2>2, Zenon
<1>8. \A x \in reported' : OnDisk(x)' /\ files'[x].image.version < Current
  BY <1>1, <1>3, <1>4, SMTT(30) DEF BackupsSound
<1> QED
  BY <1>7, <1>8, Zenon DEF BackupsSound

\* Returning with the name of the backup.
LEMMA ReportKeeps ==
    ASSUME MInv, NEW c \in Calls, call[c].pc \in Keeping,
           NEW result \in {"migrated", "retained"}, Return(c, result), FaultsMove,
           reported' = reported \cup {call[c].name},
           UNCHANGED <<db, files, env, replaced>>
    PROVE  MInv'
<1>1. DropGuards(c) /\ call' = [call EXCEPT ![c].pc = "done", ![c].outcome = result]
  BY DEF Return
<1>2. PICK n \in CallRecords : Moves(c, n) /\ Ended(n, call[c], result)
  BY <1>1, At, ReturnMoves, Zenon DEF Outcomes
<1>3. UNCHANGED <<leased, inspector, writes, cancels>>
  BY DEF env
<1>4. call[c].pc \in Named /\ n.pc \notin Making /\ ~call[c].early /\ call[c].name \in Names
  <2>1. call[c].pc \in Named
    BY DEF Named
  <2> QED
    BY <1>2, <2>1, At, Zenon DEF Ended, Making, Remembers, BackedUp
<1>5. Types'
  BY <1>1, <1>2, <1>3, <1>4, At, MoveFacts, DropFacts, Zenon DEF Types, FaultsMove
<1>6. DatabaseSound' /\ InspectorSound'
  BY <1>1, <1>3, DropDatabase, InspectorStays
<1>7. BackupsSound'
  BY <1>2, <1>4, BackupsKept, Zenon
<1>8. Unreported' = Unreported \ {call[c].name}
  BY DEF Unreported
<1>9. \E r \in Outcomes : Ended(n, call[c], r)
                          /\ (call[c].early => r \notin {"migrated", "retained"})
  BY <1>2, <1>4 DEF Outcomes
<1> QED
  BY <1>1, <1>2, <1>4, <1>5, <1>6, <1>7, <1>8, <1>9, DropFacts, EndNamed, Zenon

\* A failed call removes its own backup, or fails to.
LEMMA CleanupKeeps ==
    ASSUME MInv, NEW c \in Calls, CleanupFailedBackup(c)
    PROVE  MInv'
<1>1. call[c].pc = "cleanup" /\ UNCHANGED <<db, env, history>> /\ Return(c, "failed")
  BY DEF CleanupFailedBackup
<1>2. DropGuards(c) /\ call' = [call EXCEPT ![c].pc = "done", ![c].outcome = "failed"]
  BY <1>1 DEF Return
<1>3. PICK n \in CallRecords : Moves(c, n) /\ Ended(n, call[c], "failed")
  BY <1>2, At, ReturnMoves, Zenon DEF Outcomes
<1>4. UNCHANGED <<leased, inspector, writes, cancels, reported, replaced>>
  BY <1>1 DEF env, history
<1>5. call[c].pc \in Making /\ call[c].pc \in Named /\ n.pc \notin Making
  BY <1>1, <1>3 DEF Making, Named, Ended
<1>6. \E r \in Outcomes : Ended(n, call[c], r)
                          /\ (call[c].early => r \notin {"migrated", "retained"})
  <2>1. "failed" \in Outcomes /\ "failed" \notin {"migrated", "retained"}
    BY DEF Outcomes
  <2> QED
    BY <1>3, <2>1, Zenon
<1>7. DatabaseSound' /\ InspectorSound'
  BY <1>1, <1>2, <1>4, DropDatabase, InspectorStays
<1>8. call[c].name \in Names /\ call[c].name \notin reported
  BY <1>5, OwnFile, At, Zenon DEF BackedUp
<1>9. CASE Fault /\ UNCHANGED files
  <2>1. FaultsMove /\ faults' = faults + 1
    BY <1>9, At, FaultFacts
  <2>2. Types'
    BY <1>1, <1>2, <1>3, <1>4, <1>9, <2>1, At, MoveFacts, DropFacts, Zenon DEF Types, FaultsMove
  <2>3. BackupsSound'
    BY <1>3, <1>4, <1>5, <1>9, BackupsKept
  <2>4. Unreported' = Unreported
    BY <1>4, <1>9 DEF Unreported
  <2> QED
    BY <1>2, <1>3, <1>5, <1>6, <1>7, <2>1, <2>2, <2>3, <2>4, DropFacts, EndNamed, Zenon
<1>10. CASE files' = [files EXCEPT ![call[c].name] = None] /\ UNCHANGED faults
  <2>1. FaultsMove
    BY <1>10, At, FaultFacts
  <2>2. /\ files' \in [Names -> BackupFiles \cup {None}] /\ files'[call[c].name] = None
        /\ \A x \in Names \ {call[c].name} : files'[x] = files[x]
    BY <1>8, <1>10, At, Zenon DEF Types
  <2>3. Types'
    BY <1>1, <1>2, <1>3, <1>4, <2>1, <2>2, At, MoveFacts, DropFacts, Zenon DEF Types, FaultsMove
  <2>4. BackupsSound'
    <3>1. \A x \in Names \ {call[c].name} : OnDisk(x) => OnDisk(x)'
      BY <2>2, Zenon DEF OnDisk
    <3>2. \A x \in Names : Safe(x) => x # call[c].name /\ Safe(x)'
      BY <1>3, <1>5, At, SafeStays, Zenon DEF Safe
    <3>3. BackupsSound /\ reported \subseteq Names
      BY At, Zenon DEF MInv, Types
    <3> QED
      BY <1>4, <1>8, <2>2, <3>1, <3>2, <3>3, SMTT(30) DEF BackupsSound
  <2>5. Unreported' = Unreported \ {call[c].name}
    BY <1>4, <2>2, Zenon DEF Unreported
  <2> QED
    BY <1>2, <1>3, <1>5, <1>6, <1>7, <2>1, <2>3, <2>4, <2>5, DropFacts, EndNamed, Zenon
<1> QED
  BY <1>9, <1>10, Zenon DEF CleanupFailedBackup

\* A killed call leaves its file and releases everything else.
LEMMA KillKeeps ==
    ASSUME MInv, NEW c \in Calls, Kill(c)
    PROVE  MInv'
<1>1. Moves(c, NewCall) /\ DropGuards(c) /\ UNCHANGED <<db, files, env, history>>
  BY DEF Kill, Moves
<1>2. FaultsMove /\ faults' = faults + 1
  BY At, FaultFacts DEF Kill
<1>3. UNCHANGED <<leased, inspector, writes, cancels, reported, replaced>>
  BY <1>1 DEF env, history
<1>4. CASE call[c].pc \notin Named
  BY <1>1, <1>2, <1>4, NewCallType, EndUnnamed, Zenon
<1>5. CASE call[c].pc \in Named
  <2>1. NewCall \in CallRecords /\ NewCall.pc \notin Making
    BY NewCallType DEF Making
  <2>2. Types'
    BY <1>1, <1>2, <1>3, <2>1, At, MoveFacts, DropFacts, Zenon DEF Types, FaultsMove
  <2>3. DatabaseSound' /\ InspectorSound'
    BY <1>1, <1>3, DropDatabase, InspectorStays
  <2>4. BackupsSound'
    BY <1>1, <1>3, <1>5, <2>1, BackupsKept, Zenon
  <2>5. Unreported' = Unreported
    BY <1>1, <1>3 DEF Unreported
  <2> QED
    BY <1>1, <1>2, <1>5, <2>1, <2>2, <2>3, <2>4, <2>5, DropFacts, EndNamed, Zenon
<1> QED
  BY <1>4, <1>5

-----------------------------------------------------------------------------
(* commit_migration.                                                       *)

\* A call that keeps its backup.
LEMMA KeepingFacts ==
    ASSUME MInv, NEW c \in Calls, call[c].pc \in Keeping
    PROVE  /\ call[c].pc \in Named \cap Locked \cap InLifecycle /\ ~call[c].early
           /\ db \in Databases /\ work \in Databases /\ Current \in Nat
           /\ call[c].pc # "confirm" => /\ reserved = c /\ db.version < Current
                                        /\ Supported(db.version) /\ call[c].found = db.version
  BY At, MigrationAssumption, Zenon
     DEF Keeping, Named, Locked, InLifecycle, Reserving, Types, Reserved, Guarded, Remembers

\* The file and the name of a call are unchanged by a step in Keeping.
LEMMA KeepingBackedUp ==
    ASSUME MInv, NEW c \in Calls, call[c].pc \in Keeping, NEW n \in CallRecords, Moves(c, n),
           n.pc \in Keeping, SameBackup(n, call[c]), UNCHANGED <<files, reported>>,
           n.pc \in {"upgrade", "commit"} =>
              call[c].pc \in {"upgrade", "commit"} /\ UNCHANGED db
    PROVE  BackedUp(c)' /\ Remembers(c)'
<1>1. call'[c] = n /\ n.name = call[c].name
  BY At, MoveFacts, Zenon DEF SameBackup
<1>2. n.pc \in Named /\ call[c].pc \in Named /\ n.pc \notin {"sync", "verify", "bind"}
  BY Zenon DEF Named, Keeping
<1>3. BackedUp(c)'
  BY <1>1, <1>2, At, Zenon DEF BackedUp, OnDisk
<1>4. Remembers(c)'
  BY <1>1, <1>2, At, Zenon DEF Remembers, SameBackup, Keeping
<1> QED
  BY <1>3, <1>4, Zenon

\* A schema step happens inside the transaction and is visible to no one.
LEMMA MigrateKeeps ==
    ASSUME MInv, NEW c \in Calls, MigrateSchemaStep(c)
    PROVE  MInv'
<1>1. call[c].pc = "upgrade" /\ call[c].pc \in Keeping /\ UNCHANGED <<db, files, env>>
  BY DEF MigrateSchemaStep, Keeping
<1>2. UNCHANGED <<leased, inspector, writes, cancels>>
  BY <1>1 DEF env
<1>3. CASE Retain(c) /\ FaultsMove /\ UNCHANGED replaced
  BY <1>1, <1>3, ReportKeeps, Zenon DEF Retain
<1>4. CASE /\ work.version < Current
           /\ work' = [work EXCEPT !.version = @ + 1]
           /\ UNCHANGED <<reserved, repoLock, lifecycle, call, faults, history>>
  <2>1. Moves(c, call[c]) /\ call[c] \in CallRecords
    BY <1>4, At DEF Moves, Types
  <2>2. UNCHANGED <<reported, replaced>>
    BY <1>4 DEF history
  <2>3. work' \in Databases /\ work'.version <= Current /\ work'.rows = work.rows
    BY <1>1, <1>4, KeepingFacts DEF Databases
  <2>4. Types' /\ FaultsMove
    BY <1>1, <1>2, <1>4, <2>2, <2>3, At, FaultFacts DEF Types
  <2>5. Reserved(c)'
    BY <1>1, <1>4, <2>3, At DEF Reserved
  <2>6. BackedUp(c)' /\ Remembers(c)'
    BY <1>1, <2>1, <2>2, KeepingBackedUp, Zenon DEF SameBackup
  <2>7. Guarded(c)' /\ OwnGuards(c)
    BY <1>4, At DEF Guarded, OwnGuards, Own
  <2>8. DatabaseSound'
    BY <1>1, <1>2, <1>4, <2>3, KeepingFacts DEF MInv, DatabaseSound
  <2>9. CallSound(c)'
    BY <2>5, <2>6, <2>7, Zenon DEF CallSound
  <2>10. call[c].pc \notin Making
    BY <1>1 DEF Making
  <2> QED
    BY <1>1, <1>2, <1>4, <2>1, <2>4, <2>7, <2>8, <2>9, <2>10, KeepingFacts, QuietStep
       DEF FaultsMove
<1>5. CASE /\ work.version = Current /\ Goto(c, "commit")
           /\ UNCHANGED <<guards, faults, history>>
  <2>1. PICK n \in CallRecords : Moves(c, n) /\ n.pc = "commit" /\ Same(n, call[c])
    BY <1>5, At, GotoMoves, Zenon DEF Pcs, Locked, InLifecycle, Reserving
  <2>2. call'[c] = n /\ UNCHANGED <<reported, replaced, work>>
    BY <1>5, <2>1, At, MoveFacts, Zenon DEF history, guards
  <2>3. n.pc \in Keeping \cap Named \cap Locked \cap InLifecycle \cap Reserving
        /\ n.pc \notin Making /\ call[c].pc \in Reserving
    BY <1>1, <2>1, Zenon DEF Keeping, Named, Locked, InLifecycle, Reserving, Making
  <2>4. Reserved(c)'
    BY <1>1, <1>5, <2>1, <2>2, KeepingFacts, Zenon DEF Reserved, Same
  <2>5. BackedUp(c)' /\ Remembers(c)'
    BY <1>1, <2>1, <2>2, <2>3, KeepingBackedUp, Zenon DEF Same, SameBackup
  <2>6. FaultsMove /\ cancels' \in 0..MaxCancels
    BY <1>2, <1>5, At, FaultFacts, Zenon DEF Types
  <2> QED
    BY <1>1, <1>2, <1>5, <2>1, <2>3, <2>4, <2>5, <2>6, KeepingFacts, TurnKeeps, Zenon
<1> QED
  BY <1>1, <1>3, <1>4, <1>5, At, FaultFacts DEF MigrateSchemaStep

\* The confirmed answer reports the name of the backup the call made.
LEMMA ConfirmKeeps ==
    ASSUME MInv, NEW c \in Calls, Confirm(c)
    PROVE  MInv'
<1>1. call[c].pc \in Keeping /\ UNCHANGED <<db, files, env, replaced>>
  BY DEF Confirm, Keeping
<1>2. \/ Return(c, "migrated") /\ reported' = reported \cup {call[c].name} /\ FaultsMove
      \/ Return(c, "retained") /\ reported' = reported \cup {call[c].name} /\ FaultsMove
  BY At, FaultFacts, Zenon DEF Confirm, Retain
<1> QED
  BY <1>1, <1>2, ReportKeeps

\* COMMIT replaces the database whose image is in the file by the current
\* schema with the same transactions.
LEMMA CommitFacts ==
    ASSUME MInv, NEW c \in Calls, call[c].pc = "commit",
           db' = work, replaced' = replaced \cup {db}, reserved' = None, UNCHANGED <<work, env>>
    PROVE  /\ DatabaseSound' /\ InspectorSound'
           /\ db' \in Databases /\ replaced' \subseteq Databases /\ db'.version = Current
<1>1. UNCHANGED <<leased, inspector, writes, cancels>>
  BY Zenon DEF env
<1>2. /\ db \in Databases /\ work \in Databases /\ reserved = c /\ db.version < Current
      /\ Current \in Nat /\ work.version = Current /\ replaced \subseteq Databases
  BY At, KeepingFacts, Zenon DEF Keeping, Reserved, Types
<1>3. DatabaseSound'
  BY <1>1, <1>2, MigrationAssumption DEF MInv, DatabaseSound
<1>4. inspector.verdict # "current"
  BY <1>2 DEF MInv, InspectorSound, Databases
<1>5. inspector.version # None => \E d \in replaced' : d.version = inspector.version
  BY DEF MInv, InspectorSound
<1>6. InspectorSound'
  BY <1>1, <1>4, <1>5 DEF MInv, InspectorSound
<1> QED
  BY <1>2, <1>3, <1>6, Zenon

\* COMMIT replaces the database the verified image holds.
LEMMA CommitKeeps ==
    ASSUME MInv, NEW c \in Calls, Commit(c)
    PROVE  MInv'
<1>1. call[c].pc = "commit" /\ call[c].pc \in Keeping /\ UNCHANGED <<files, env>>
  BY DEF Commit, Keeping
<1>2. UNCHANGED <<leased, inspector, writes, cancels>>
  BY <1>1 DEF env
<1>3. CASE Fault /\ Retain(c) /\ UNCHANGED <<db, replaced>>
  BY <1>1, <1>3, At, FaultFacts, ReportKeeps, Zenon DEF Retain
<1>4. CASE /\ db' = work /\ replaced' = replaced \cup {db} /\ reserved' = None
           /\ Goto(c, "confirm")
           /\ UNCHANGED <<work, repoLock, lifecycle, faults, reported>>
  <2>1. PICK n \in CallRecords : Moves(c, n) /\ n.pc = "confirm" /\ Same(n, call[c])
    BY <1>4, At, GotoMoves, Zenon DEF Pcs, Locked, InLifecycle
  <2>2. call' \in [Calls -> CallRecords] /\ call'[c] = n
    BY <2>1, At, MoveFacts, Zenon
  <2>3. n.pc \in Keeping \cap Named \cap Locked \cap InLifecycle
        /\ n.pc \notin Making \cup Reserving
    BY <2>1 DEF Keeping, Named, Locked, InLifecycle, Reserving, Making
  <2>4. Guarded(c)' /\ OwnGuards(c)
    BY <1>1, <1>4, <2>2, <2>3, At, KeepingFacts, MigrationAssumption, Zenon DEF Guarded, OwnGuards, Own
  <2>5. Reserved(c)'
    BY <1>1, <1>4, <2>1, <2>2, <2>3, CommitFacts, Zenon DEF Reserved
  <2>6. BackedUp(c)' /\ Remembers(c)'
    BY <1>1, <1>4, <2>1, <2>3, KeepingBackedUp, Zenon DEF Same, SameBackup
  <2>7. Types'
    BY <1>1, <1>2, <1>4, <2>2, At, CommitFacts, Zenon DEF Types
  <2>8. BackupsSound'
    BY <1>1, <1>4, <2>1, <2>3, KeepingFacts, BackupsKept, Zenon
  <2>9. CountSound'
    <3>1. Unreported' = Unreported /\ InHand' = InHand
      BY <1>1, <1>4, <2>1, <2>3, KeepingFacts, InHandFacts, Zenon DEF Unreported
    <3> QED
      BY <1>4, <3>1, Counted DEF CountSound
  <2>10. DatabaseSound' /\ InspectorSound'
    BY <1>1, <1>4, CommitFacts, Zenon
  <2>11. CallSound(c)' /\ call[c].pc \in Locked
    BY <1>1, <2>4, <2>5, <2>6, KeepingFacts, Zenon DEF CallSound
  <2> QED
    BY <2>1, <2>4, <2>7, <2>8, <2>9, <2>10, <2>11, StepKeeps, Zenon
<1>5. CASE /\ db' = work /\ replaced' = replaced \cup {db} /\ Fault
           /\ reserved' = None /\ repoLock' = None /\ lifecycle' = None
           /\ call' = [call EXCEPT ![c].pc = "done", ![c].outcome = "retained"]
           /\ reported' = reported \cup {call[c].name}
           /\ UNCHANGED work
  <2>1. PICK n \in CallRecords : Moves(c, n) /\ Ended(n, call[c], "retained")
    BY <1>5, At, ReturnMoves, Zenon DEF Outcomes
  <2>2. call' \in [Calls -> CallRecords] /\ call'[c] = n
    BY <2>1, At, MoveFacts
  <2>3. FaultsMove /\ call[c].name \in Names /\ n.pc \notin Making
    BY <1>1, <1>5, <2>1, At, FaultFacts, KeepingFacts, Zenon DEF BackedUp, Ended, Making
  <2>4. Types'
    BY <1>1, <1>2, <1>5, <2>2, <2>3, At, CommitFacts DEF Types, FaultsMove
  <2>5. BackupsSound'
    BY <1>1, <1>5, <2>1, <2>3, KeepingFacts, BackupsKept
  <2>6. Unreported' = Unreported \ {call[c].name}
    BY <1>1, <1>5 DEF Unreported
  <2>7. DatabaseSound' /\ InspectorSound'
    BY <1>1, <1>5, CommitFacts
  <2>8. \E r \in Outcomes : Ended(n, call[c], r)
                            /\ (call[c].early => r \notin {"migrated", "retained"})
    BY <1>1, <2>1, KeepingFacts, Zenon DEF Outcomes
  <2>9. /\ OwnGuards(c) /\ repoLock' # c /\ lifecycle' # c /\ reserved' # c
        /\ call[c].pc \in Named
    BY <1>1, <1>5, At, KeepingFacts, MigrationAssumption DEF OwnGuards, Own, Guarded
  <2> QED
    BY <2>1, <2>3, <2>4, <2>5, <2>6, <2>7, <2>8, <2>9, EndNamed, Zenon
<1> QED
  BY <1>1, <1>3, <1>4, <1>5 DEF Commit

-----------------------------------------------------------------------------
(* The caller, and everything else on the machine.                         *)

\* A cancellation changes two flags of the call.
LEMMA CancelRecord ==
    ASSUME NEW m \in CallRecords, NEW b \in BOOLEAN
    PROVE  LET n == [m EXCEPT !.cancelled = TRUE, !.early = b]
           IN  /\ n \in CallRecords /\ n.pc = m.pc /\ n.cancelled = TRUE /\ n.early = b
               /\ n.found = m.found /\ n.name = m.name
               /\ n.snapshot = m.snapshot /\ n.outcome = m.outcome
  BY Zenon DEF CallRecords

\* A cancellation is a flag the call reads later.
LEMMA CancelKeeps ==
    ASSUME MInv, NEW c \in Calls, Cancel(c)
    PROVE  MInv'
<1> DEFINE n == [call[c] EXCEPT !.cancelled = TRUE, !.early = call[c].pc \in BeforeBoundary]
<1>1. Moves(c, n)
  BY At, Zenon DEF Cancel, Moves, Types
<1>2. /\ n \in CallRecords /\ n.pc = call[c].pc /\ n.cancelled = TRUE
      /\ n.early = (call[c].pc \in BeforeBoundary)
      /\ n.found = call[c].found /\ n.name = call[c].name
      /\ n.snapshot = call[c].snapshot /\ n.outcome = call[c].outcome
  <2>1. (call[c].pc \in BeforeBoundary) \in BOOLEAN
    OBVIOUS
  <2> QED
    BY <2>1, At, CancelRecord, Zenon
<1> HIDE DEF n
<1>3. UNCHANGED <<db, guards, files, leased, inspector, writes, history, faults>>
  BY DEF Cancel
<1>4. cancels' \in 0..MaxCancels
  BY At, MigrationAssumption DEF Cancel, Types
<1>5. call'[c] = n /\ work' = work /\ reported' = reported
  BY <1>1, <1>2, <1>3, At, MoveFacts DEF guards, history
<1>6. Reserved(c)'
  BY <1>2, <1>3, <1>5, At, Zenon DEF Reserved
<1>7. BackedUp(c)'
  BY <1>2, <1>3, <1>5, At, Zenon DEF BackedUp, OnDisk
<1>8. Remembers(c)'
  <2>1. call[c].pc # "done" /\ call[c].outcome = None
    BY At DEF Cancel, Remembers
  <2>2. call[c].outcome \notin {"migrated", "retained"}
    BY <2>1, NoneAssumption, Zenon DEF Outcomes
  <2>3. call[c].pc \in BeforeBoundary => call[c].pc \notin Keeping
    BY Zenon DEF BeforeBoundary, Keeping
  <2> QED
    BY <1>2, <1>5, <2>1, <2>2, <2>3, At, Zenon DEF Remembers
<1>9. FaultsMove
  BY <1>3, At, FaultFacts
<1> QED
  BY <1>1, <1>2, <1>3, <1>4, <1>6, <1>7, <1>8, <1>9, TurnKeeps, Zenon

\* A retry is a new call.
LEMMA RetryKeeps ==
    ASSUME MInv, NEW c \in Calls, Retry(c)
    PROVE  MInv'
<1>1. Moves(c, NewCall) /\ call[c].pc = "done"
  BY DEF Retry, Moves
<1>2. UNCHANGED <<db, guards, files, env, faults, history>>
  BY DEF Retry
<1>3. UNCHANGED <<reserved, repoLock, lifecycle, leased, inspector, writes, cancels>>
  BY <1>2 DEF guards, env
<1>4. NewCall \in CallRecords /\ NewCall.pc = "idle"
  BY NewCallType, Zenon
<1>5. /\ call[c].pc \notin Locked \cup InLifecycle \cup Reserving \cup Named
      /\ NewCall.pc \notin Locked \cup InLifecycle \cup Reserving \cup Named \cup Making
  BY <1>1, <1>4, Zenon DEF Locked, InLifecycle, Reserving, Named, Making, Keeping
<1>6. repoLock' # c /\ lifecycle' # c /\ reserved' # c
  BY <1>3, <1>5, At, Zenon DEF Guarded
<1>7. CallSound(c)'
  BY <1>1, <1>4, <1>6, At, FreeCall, Zenon
<1>8. FaultsMove /\ cancels' \in 0..MaxCancels
  BY <1>2, <1>3, At, FaultFacts, Zenon DEF Types
<1> QED
  BY <1>1, <1>2, <1>3, <1>4, <1>5, <1>7, <1>8, TurnKeeps, Zenon DEF CallSound

\* Others change the database only while no call has it reserved.
LEMMA EnvKeeps ==
    ASSUME MInv, UNCHANGED <<call, files, repoLock, lifecycle, faults, history>>,
           \A c \in Calls : reserved' = c <=> reserved = c,
           \/ UNCHANGED <<db, work>>
           \/ reserved \notin Calls /\ db'.version = db.version,
           Types', DatabaseSound', InspectorSound'
    PROVE  MInv'
<1>1. UNCHANGED <<reported, replaced>>
  BY DEF history
<1>2. ASSUME NEW c \in Calls PROVE CallSound(c)'
  <2>1. Guarded(c)'
    BY At, Zenon DEF Guarded
  <2>2. Remembers(c)'
    BY At, Zenon DEF Remembers
  <2>3. CASE UNCHANGED <<db, work>>
    <3>1. Reserved(c)'
      BY <2>3, At, Zenon DEF Reserved
    <3>2. BackedUp(c)'
      BY <1>1, <2>3, At, Zenon DEF BackedUp, OnDisk
    <3> QED
      BY <2>1, <2>2, <3>1, <3>2, Zenon DEF CallSound
  <2>4. CASE reserved \notin Calls /\ db'.version = db.version
    <3>1. call[c].pc \notin Reserving
      BY <2>4, At, Zenon DEF Guarded
    <3>2. call[c].pc \notin {"upgrade", "commit", "write", "finish", "sync", "verify", "bind"}
      BY <3>1 DEF Reserving, Making
    <3>3. Reserved(c)'
      BY <2>4, <3>1, <3>2, At, Zenon DEF Reserved
    <3>4. BackedUp(c)'
      BY <1>1, <3>2, At, Zenon DEF BackedUp, OnDisk
    <3> QED
      BY <2>1, <2>2, <3>3, <3>4, Zenon DEF CallSound
  <2> QED
    BY <2>3, <2>4
<1>3. BackupsSound'
  BY <1>1, ZenonT(40) DEF MInv, BackupsSound, OnDisk, Safe
<1>4. CountSound'
  BY <1>1, Zenon DEF MInv, CountSound, Unreported, InHand
<1> QED
  BY <1>2, <1>3, <1>4, Zenon DEF MInv

\* A command that holds the locks shared.
LEMMA LeaseKeeps ==
    ASSUME MInv, Lease \/ EndLease
    PROVE  MInv'
<1>1. /\ UNCHANGED <<db, guards, files, call, inspector, cancels, faults, history>>
      /\ leased' \in BOOLEAN /\ writes' \in 0..MaxWrites /\ writes' >= writes
  <2>1. writes \in 0..MaxWrites /\ MaxWrites \in Nat
    BY MigrationAssumption, Zenon DEF MInv, Types
  <2>2. CASE Lease
    BY <2>1, <2>2 DEF Lease
  <2>3. CASE EndLease
    <3>1. writes' = writes /\ leased' = FALSE
      BY <2>3, Zenon DEF EndLease
    <3>2. UNCHANGED <<db, guards, files, call, inspector, cancels, faults, history>>
      BY <2>3, Zenon DEF EndLease
    <3>3. leased' \in BOOLEAN /\ writes' \in 0..MaxWrites /\ writes' >= writes
      <4>1. leased' \in BOOLEAN
        BY <3>1, Zenon
      <4>2. writes' \in 0..MaxWrites /\ writes' >= writes
        <5>1. writes \in 0..MaxWrites /\ writes >= writes
          BY <2>1
        <5> QED
          BY <3>1, <5>1, Zenon
      <4> QED
        BY <4>1, <4>2
    <3> QED
      BY <3>2, <3>3, Zenon
  <2> QED
    BY <2>2, <2>3
<1>2. UNCHANGED <<reserved, work, repoLock, lifecycle, reported, replaced>>
  BY <1>1 DEF guards, history
<1>3. Types'
  BY <1>1, <1>2, Zenon DEF MInv, Types
<1>4. DatabaseSound' /\ InspectorSound'
  <2>1. db.rows \in Nat /\ writes \in Nat /\ writes' \in Nat /\ db.rows <= writes
    BY <1>1, MigrationAssumption DEF MInv, Types, Databases, DatabaseSound
  <2>2. /\ db.rows <= writes'
        /\ db.rows < writes => db.rows < writes'
    BY <1>1, <2>1
  <2>3. DatabaseSound'
    BY <1>1, <1>2, <2>2 DEF MInv, DatabaseSound
  <2>4. InspectorSound'
    BY <1>1, <1>2, InspectorStays DEF MInv
  <2> QED
    BY <2>3, <2>4
<1> QED
  BY <1>1, <1>2, <1>3, <1>4, EnvKeeps

\* Another connection takes the reservation only when it is free.
LEMMA WriterBeginKeeps ==
    ASSUME MInv, WriterBegin
    PROVE  MInv'
<1>1. /\ UNCHANGED <<db, repoLock, lifecycle, files, call, leased, inspector,
                     cancels, faults, history>>
      /\ reserved = None /\ reserved' = "writer" /\ work' = db
      /\ writes' = writes + 1 /\ writes < MaxWrites
  BY DEF WriterBegin
<1>2. UNCHANGED <<reported, replaced>>
  BY <1>1 DEF history
<1>3. Types'
  BY <1>1, <1>2, MigrationAssumption, SMTT(30) DEF MInv, Types
<1>4. work' = work
  BY <1>1, MigrationAssumption, Zenon DEF MInv, DatabaseSound
<1>5. DatabaseSound' /\ InspectorSound'
  <2>1. /\ work = db /\ db.rows \in Nat /\ writes \in Nat /\ db.rows <= writes
        /\ "writer" \notin Calls
    BY <1>1, <1>4, MigrationAssumption DEF MInv, Types, Databases, DatabaseSound
  <2>2. db.rows <= writes + 1 /\ db.rows < writes + 1
    BY <2>1
  <2>3. DatabaseSound'
    BY <1>1, <1>4, <2>1, <2>2 DEF DatabaseSound
  <2>4. InspectorSound'
    BY <1>1, <1>2, InspectorStays DEF MInv
  <2> QED
    BY <2>3, <2>4
<1> QED
  BY <1>1, <1>3, <1>4, <1>5, EnvKeeps, MigrationAssumption

\* Another connection commits a write: no call has read the database under the
\* reservation it holds.
LEMMA WriterCommitKeeps ==
    ASSUME MInv, WriterCommit
    PROVE  MInv' /\ db' = [db EXCEPT !.rows = @ + 1]
<1>1. /\ UNCHANGED <<repoLock, lifecycle, files, call, env, faults, history>>
      /\ reserved = "writer" /\ reserved' = None
      /\ db' = [work EXCEPT !.rows = @ + 1] /\ work' = db'
  BY DEF WriterCommit
<1>2. UNCHANGED <<leased, inspector, writes, cancels, reported, replaced>>
  BY <1>1 DEF env, history
<1>3. work = db /\ reserved \notin Calls /\ db \in Databases /\ db.rows < writes
      /\ writes \in 0..MaxWrites
  BY <1>1, MigrationAssumption DEF MInv, DatabaseSound, Types
<1>4. db' \in Databases /\ db'.version = db.version /\ db'.rows = db.rows + 1
  BY <1>1, <1>3, MigrationAssumption DEF Databases
<1>5. Types'
  BY <1>1, <1>2, <1>4 DEF MInv, Types
<1>6. DatabaseSound'
  BY <1>1, <1>2, <1>3, <1>4, MigrationAssumption DEF DatabaseSound, Databases
<1>7. InspectorSound'
  BY <1>2, <1>4, Zenon DEF MInv, InspectorSound
<1>8. \A c \in Calls : reserved' = c <=> reserved = c
  BY <1>1, MigrationAssumption
<1> QED
  BY <1>1, <1>3, <1>4, <1>5, <1>6, <1>7, <1>8, EnvKeeps

\* Both reads of an inspection.
LEMMA InspectKeeps ==
    ASSUME MInv, InspectVersion \/ InspectShape
    PROVE  MInv'
<1>1. UNCHANGED <<db, guards, files, call, leased, writes, cancels, faults, history>>
  BY DEF InspectVersion, InspectShape
<1>2. UNCHANGED <<reserved, work, repoLock, lifecycle, reported, replaced>>
  BY <1>1 DEF guards, history
<1>3. db.version \in 0..(Current + 1) /\ db.version # None /\ Current \in Nat
  <2>1. db.version \in 0..(Current + 1) /\ Current \in Nat
    BY MigrationAssumption, Zenon DEF MInv, Types, Databases
  <2> QED
    BY <2>1, NoneAssumption
<1>4. None \notin Verdicts /\ InspectorSound
      /\ inspector \in [version : 0..(Current + 1) \cup {None}, verdict : Verdicts \cup {None}]
  BY NoneAssumption, Zenon DEF MInv, Types
<1>5. inspector' \in [version : 0..(Current + 1) \cup {None}, verdict : Verdicts \cup {None}]
      /\ InspectorSound'
  <2>1. CASE InspectVersion
    BY <1>1, <1>2, <1>3, <1>4, <2>1, Zenon DEF InspectVersion, InspectorSound, Verdicts
  <2>2. CASE InspectShape
    <3> DEFINE v == IF inspector.version = 0 THEN "migration_required"
                    ELSE IF inspector.version > Current \/ inspector.version # db.version
                         THEN "incompatible"
                    ELSE IF inspector.version = Current THEN "current"
                    ELSE "migration_required"
    <3>1. inspector' = [inspector EXCEPT !.verdict = v] /\ inspector.version # None
      BY <2>2 DEF InspectShape
    <3>2. inspector.version \in 0..(Current + 1)
      BY <1>4, <3>1
    <3>3. /\ v \in Verdicts
          /\ v = "current" => db.version = Current
          /\ v = "incompatible" => inspector.version > Current \/ inspector.version # db.version
      BY <1>3, <3>2 DEF Verdicts
    <3> HIDE DEF v
    <3>4. inspector'.version = inspector.version /\ inspector'.verdict = v
          /\ inspector' \in [version : 0..(Current + 1) \cup {None}, verdict : Verdicts \cup {None}]
      BY <1>4, <3>1, <3>3
    <3> QED
      BY <1>1, <1>2, <1>4, <3>1, <3>3, <3>4 DEF InspectorSound
  <2> QED
    BY <2>1, <2>2
<1>6. Types'
  BY <1>1, <1>2, <1>5, Zenon DEF MInv, Types
<1>7. DatabaseSound'
  BY <1>1, <1>2, Zenon DEF MInv, DatabaseSound
<1> QED
  BY <1>1, <1>2, <1>5, <1>6, <1>7, EnvKeeps

\* A complete backup outlives a power loss, and no other file appears.
LEMMA PowerLossKeeps ==
    ASSUME MInv, PowerLoss
    PROVE  MInv'
<1>1. /\ UNCHANGED <<db, writes, cancels, history>>
      /\ reserved' = None /\ work' = db /\ repoLock' = None /\ lifecycle' = None
      /\ leased' = FALSE /\ inspector' = [version |-> None, verdict |-> None]
      /\ call' = [c \in Calls |-> IF call[c].pc = "done" THEN call[c] ELSE NewCall]
  BY DEF PowerLoss
<1>2. FaultsMove /\ faults' = faults + 1
  BY FaultFacts DEF MInv, PowerLoss
<1>3. UNCHANGED <<reported, replaced>> /\ reported \subseteq Names
  BY <1>1, Zenon DEF history, MInv, Types
<1>4. files \in [Names -> BackupFiles \cup {None}] /\ call \in [Calls -> CallRecords]
  BY DEF MInv, Types
<1>5. DOMAIN files' = Names /\ files' = [x \in Names |-> files'[x]]
      /\ \A x \in Names : files'[x] \in Survivors(files[x])
  BY Zenon DEF PowerLoss
<1>6. ASSUME NEW x \in Names
      PROVE  /\ files'[x] \in BackupFiles \cup {None}
             /\ files'[x] # None => files[x] # None
             /\ OnDisk(x) => OnDisk(x)' /\ files'[x] = files[x]
  <2> DEFINE f == files[x]
             g == files'[x]
  <2>1. CASE f = None
    BY <1>5, <2>1 DEF Survivors, OnDisk
  <2>2. CASE f # None
    <3>1. f \in BackupFiles
      BY <1>4, <2>2
    <3>2. \A part \in {"empty", "partial"} : [f EXCEPT !.part = part] \in BackupFiles
      BY <3>1 DEF BackupFiles, Parts
    <3>3. /\ g \in {f, None} \cup {[f EXCEPT !.part = part] : part \in {"empty", "partial"}}
          /\ f.entered /\ f.synced => g = f
      BY <1>5, <2>2, Zenon DEF Survivors
    <3>4. g \in BackupFiles \cup {None}
      BY <3>1, <3>2, <3>3
    <3> QED
      BY <2>2, <3>3, <3>4 DEF OnDisk
  <2> QED
    BY <2>1, <2>2, Zenon
<1>7. files' \in [Names -> BackupFiles \cup {None}]
  BY <1>5, <1>6, Zenon
<1>8. /\ call' \in [Calls -> CallRecords]
      /\ \A c \in Calls : call'[c] = IF call[c].pc = "done" THEN call[c] ELSE NewCall
  BY <1>1, <1>4, NewCallType, Zenon
<1>9. Types'
  BY <1>1, <1>2, <1>3, <1>7, <1>8, Zenon DEF MInv, Types, FaultsMove
<1>10. \A c \in Calls : call'[c].pc \in {"idle", "done"}
  BY <1>8, NewCallType, Zenon
<1>11. \A c \in Calls : call'[c].pc \notin Locked \cup InLifecycle \cup Reserving \cup Named
                                          \cup Making \cup Keeping
  BY <1>10, Zenon DEF Locked, InLifecycle, Reserving, Named, Making, Keeping
<1>12. ASSUME NEW c \in Calls PROVE CallSound(c)'
  <2>1. Guarded(c)'
    BY <1>1, <1>11, MigrationAssumption, Zenon DEF Guarded
  <2>2. Reserved(c)'
    BY <1>10, <1>11, Zenon DEF Reserved
  <2>3. BackedUp(c)'
    BY <1>10, <1>11, Zenon DEF BackedUp
  <2>4. Remembers(c)'
    BY <1>8, <1>11, At, NewCallType, Zenon DEF Remembers
  <2> QED
    BY <2>1, <2>2, <2>3, <2>4, Zenon DEF CallSound
<1>13. DatabaseSound'
  BY <1>1, MigrationAssumption, Zenon DEF MInv, DatabaseSound
<1>14. BackupsSound'
  <2>1. \A x : Safe(x)'
    BY <1>11 DEF Safe
  <2>2. BackupsSound
    BY DEF MInv
  <2>3. \A x \in Names : OnDisk(x) => OnDisk(x)' /\ files'[x].image = files[x].image
    BY <1>6, Zenon
  <2> QED
    BY <1>3, <2>1, <2>2, <2>3, Zenon DEF BackupsSound
<1>15. CountSound'
  <2>1. Unreported' \subseteq Unreported
    BY <1>3, <1>6, Zenon DEF Unreported
  <2>2. Cardinality(Unreported') <= Cardinality(Unreported) /\ Cardinality(Unreported') \in Nat
    BY <2>1, Counted, FS_Subset, FS_CardinalityType, Zenon
  <2>3. InHand' = 0
    BY <1>11 DEF InHand
  <2> QED
    BY <1>2, <2>2, <2>3, Counted DEF CountSound
<1>16. InspectorSound'
  BY <1>1, NoneAssumption, Zenon DEF InspectorSound, Verdicts
<1> QED
  BY <1>9, <1>12, <1>13, <1>14, <1>15, <1>16, Zenon DEF MInv

-----------------------------------------------------------------------------
(* The invariant and what it says.                                         *)

\* A database of any version and an untouched directory.
LEMMA InitMInv == Init => MInv
<1> SUFFICES ASSUME Init PROVE MInv
  OBVIOUS
<1>1. PICK v \in 0..(Current + 1) : db = Database(v, 0)
  BY Zenon DEF Init
<1>2. db \in Databases /\ db.rows = 0
  BY <1>1, MigrationAssumption, SMTT(30) DEF Database, Databases
<1>3. \A c \in Calls : call[c] = NewCall
  BY Zenon DEF Init
<1>4. call \in [Calls -> CallRecords]
  BY NewCallType, Zenon DEF Init
<1>5. Types
  <2>1. files \in [Names -> BackupFiles \cup {None}]
    BY Zenon DEF Init
  <2>2. inspector \in [version : 0..(Current + 1) \cup {None}, verdict : Verdicts \cup {None}]
    BY Zenon DEF Init
  <2>3. writes \in 0..MaxWrites /\ cancels \in 0..MaxCancels /\ faults \in 0..MaxFaults
    BY Zeros, Zenon DEF Init
  <2>4. work = db /\ reserved = None /\ repoLock = None /\ lifecycle = None /\ leased = FALSE
        /\ reported = {} /\ replaced = {}
    BY Zenon DEF Init
  <2> QED
    BY <1>2, <1>4, <2>1, <2>2, <2>3, <2>4, Zenon DEF Types
<1>6. \A c \in Calls : call[c].pc = "idle"
  BY <1>3, NewCallType, Zenon
<1>7. \A c \in Calls : call[c].pc \notin Locked \cup InLifecycle \cup Reserving \cup Named
                                        \cup Making \cup Keeping
  BY <1>6, Zenon DEF Locked, InLifecycle, Reserving, Named, Making, Keeping
<1>8. ASSUME NEW c \in Calls PROVE CallSound(c)
  <2>1. Guarded(c)
    BY <1>7, MigrationAssumption, Zenon DEF Guarded, Init
  <2>2. Reserved(c) /\ BackedUp(c)
    BY <1>6, <1>7, Zenon DEF Reserved, BackedUp
  <2>3. Remembers(c)
    BY <1>3, NewCallType, Zenon DEF Remembers
  <2> QED
    BY <2>1, <2>2, <2>3, Zenon DEF CallSound
<1>9. DatabaseSound
  <2>1. work = db /\ reserved = None /\ writes = 0 /\ None # "writer"
    BY MigrationAssumption, Zenon DEF Init
  <2> QED
    BY <1>2, <2>1, Zeros, Zenon DEF DatabaseSound
<1>10. BackupsSound
  BY Zenon DEF Init, BackupsSound
<1>11. CountSound
  <2>1. Unreported = {}
    BY Zenon DEF Init, Unreported
  <2>2. InHand = 0
    BY <1>7, Zenon DEF InHand
  <2>3. Cardinality(Unreported) = 0 /\ faults = 0
    BY <2>1, FS_EmptySet, Zenon DEF Init
  <2> QED
    BY <2>2, <2>3, Zeros, Zenon DEF CountSound
<1>12. InspectorSound
  BY NoneAssumption, Zenon DEF Init, InspectorSound, Verdicts
<1> QED
  BY <1>5, <1>8, <1>9, <1>10, <1>11, <1>12, Zenon DEF MInv

\* Every step keeps the invariant.
LEMMA NextMInv == MInv /\ [Next]_vars => MInv'
<1> SUFFICES ASSUME MInv, [Next]_vars PROVE MInv'
  OBVIOUS
<1>1. ASSUME NEW c \in Calls, Step(c) \/ Cancel(c) \/ Retry(c) \/ Kill(c) PROVE MInv'
  BY <1>1, StartKeeps, LockRepositoryKeeps, LockLifecycleKeeps, BeginKeeps, BegunKeeps,
     CreateKeeps, SnapshotKeeps, WriteChunkKeeps, SyncBackupKeeps, VerifyKeeps,
     SyncAndRecheckKeeps, CleanupKeeps, MigrateKeeps, CommitKeeps, ConfirmKeeps,
     CancelKeeps, RetryKeeps, KillKeeps, Zenon DEF Step
<1>2. CASE Lease \/ EndLease \/ WriterBegin \/ WriterCommit \/ PowerLoss
           \/ InspectVersion \/ InspectShape
  BY <1>2, LeaseKeeps, WriterBeginKeeps, WriterCommitKeeps, PowerLossKeeps, InspectKeeps, Zenon
<1>3. CASE UNCHANGED vars
  <2>1. UNCHANGED <<db, reserved, work, repoLock, lifecycle, files, call, leased, inspector,
                    writes, cancels, faults, reported, replaced>>
    BY <1>3, Zenon DEF vars, guards, env, history
  <2>2. UNCHANGED history
    BY <1>3 DEF vars
  <2>3. Types'
    BY <2>1, Zenon DEF MInv, Types
  <2>4. DatabaseSound'
    BY <2>1, Zenon DEF MInv, DatabaseSound
  <2>5. InspectorSound'
    BY <2>1, InspectorStays, Zenon
  <2> QED
    BY <2>1, <2>2, <2>3, <2>4, <2>5, EnvKeeps, Zenon
<1> QED
  BY <1>1, <1>2, <1>3, Zenon DEF Next

\* The inductive invariant holds always.
THEOREM MigrationInvariant == Spec => []MInv
  BY InitMInv, NextMInv, PTL DEF Spec

\* The types, without the phases and flags of the calls.
LEMMA TypesTypeOK == Types => TypeOK
<1> SUFFICES ASSUME Types PROVE TypeOK
  OBVIOUS
<1>1. \A c \in Calls :
         /\ call[c].name \in Names \cup {None}
         /\ call[c].found \in 1..Current \cup {None}
         /\ call[c].snapshot \in Databases \cup {None}
         /\ call[c].outcome \in Outcomes \cup {None}
  BY Zenon DEF Types, CallRecords
<1> QED
  BY <1>1, Zenon DEF Types, TypeOK

\* commit_migration writes the schema only after the backup is verified and
\* synchronised: every database a COMMIT replaced is on disk, whatever was
\* killed, lost or written before or after (MigrationBackedUp).
THEOREM MigrationBackedUpTheorem == Spec => []MigrationBackedUp
<1>1. MInv => MigrationBackedUp
  BY TypesTypeOK, Zenon DEF MInv, BackupsSound, MigrationBackedUp
<1> QED
  BY <1>1, MigrationInvariant, PTL

\* A backup that retain_backup or a result named to a caller stays complete
\* and on disk (ReportedBackupKept).
THEOREM ReportedBackupKeptTheorem == Spec => []ReportedBackupKept
<1>1. MInv => ReportedBackupKept
  BY Zenon DEF MInv, BackupsSound, ReportedBackupKept
<1> QED
  BY <1>1, MigrationInvariant, PTL

\* What ends in cleanup_failed_backup leaves no file unless a fault struck, and
\* a call cancelled before its last check never migrates
\* (UnreportedBackupsBounded).
THEOREM UnreportedBackupsBoundedTheorem == Spec => []UnreportedBackupsBounded
<1>1. MInv => UnreportedBackupsBounded
  <2> SUFFICES ASSUME MInv PROVE UnreportedBackupsBounded
    OBVIOUS
  <2>1. \A c \in Calls : call[c].early =>
           /\ call[c].pc \notin {"upgrade", "commit", "confirm"}
           /\ call[c].outcome \notin {"migrated", "retained"}
    BY At, Zenon DEF Remembers, Keeping
  <2> DEFINE Hands == {c \in Calls : call[c].name # None /\ call[c].pc # "done"}
  <2>2. \A c \in Calls : c \in Hands <=> call[c].pc \in Named
    <3> SUFFICES ASSUME NEW c \in Calls PROVE c \in Hands <=> call[c].pc \in Named
      BY Zenon
    <3>1. None \notin Names
      BY MigrationAssumption, NoneAssumption DEF Names
    <3>2. call[c].pc \in Named => call[c].name # None /\ call[c].pc # "done"
      BY <3>1, At, Zenon DEF BackedUp, Named, Making, Keeping
    <3>3. call[c].name # None /\ call[c].pc # "done" => call[c].pc \in Named
      BY At, Zenon DEF Remembers
    <3> QED
      BY <3>2, <3>3, Zenon
  <2>3. Cardinality(Hands) = InHand
    <3>1. CASE \E c \in Calls : call[c].pc \in Named
      <4>1. PICK c \in Calls : call[c].pc \in Named
        BY <3>1
      <4>2. \A q \in Calls \ {c} : call[q].pc \notin Named
        BY <4>1, InHandUnreported, Alone, Zenon
      <4>3. Hands = {c}
        BY <2>2, <4>1, <4>2, Zenon
      <4>4. Cardinality(Hands) = 1
        BY <4>3, FS_Singleton, Zenon
      <4> QED
        BY <3>1, <4>4, Zenon DEF InHand
    <3>2. CASE ~ \E c \in Calls : call[c].pc \in Named
      <4>1. Hands = {}
        BY <2>2, <3>2, Zenon
      <4> QED
        BY <3>2, <4>1, FS_EmptySet, Zenon DEF InHand
    <3> QED
      BY <3>1, <3>2, Zenon
  <2>4. Cardinality({n \in Names : files[n] # None} \ reported) <= faults + Cardinality(Hands)
    BY <2>3, Counted, Zenon DEF Unreported
  <2> QED
    BY <2>1, <2>4, Zenon DEF UnreportedBackupsBounded
<1> QED
  BY <1>1, MigrationInvariant, PTL

\* The verdict of inspect_schema, read without a lock or a transaction, calls a
\* schema current only when it is, and a usable one incompatible only when a
\* migration committed in between (InspectionSound).
THEOREM InspectionSoundTheorem == Spec => []InspectionSound
<1>1. MInv => InspectionSound
  BY Zenon DEF MInv, InspectorSound, InspectionSound
<1> QED
  BY <1>1, MigrationInvariant, PTL

\* The database changes by whole migrations and whole transactions only.
LEMMA WholeStep ==
    ASSUME MInv, Next
    PROVE  db' # db => \/ db' = [db EXCEPT !.rows = @ + 1]
                       \/ Supported(db.version) /\ db' = [db EXCEPT !.version = Current]
<1> DEFINE Whole == db' # db =>
                      \/ db' = [db EXCEPT !.rows = @ + 1]
                      \/ Supported(db.version) /\ db' = [db EXCEPT !.version = Current]
<1> SUFFICES Whole
  OBVIOUS
<1>1. CASE WriterCommit
  BY <1>1, WriterCommitKeeps
<1>2. ASSUME NEW c \in Calls, Commit(c) PROVE Whole
  <2>1. CASE db' = work
    <3>1. call[c].pc = "commit"
      BY <1>2 DEF Commit
    <3>2. /\ db \in Databases /\ work \in Databases /\ Supported(db.version)
          /\ work.version = Current /\ work.rows = db.rows
      BY <3>1, At, KeepingFacts, Zenon DEF Keeping, Reserved, MInv, DatabaseSound
    <3> QED
      BY <2>1, <3>2 DEF Databases
  <2> QED
    BY <1>2, <2>1 DEF Commit
<1>3. CASE UNCHANGED db
  BY <1>3
<1>4. ASSUME NEW c \in Calls, Step(c) \/ Cancel(c) \/ Retry(c) \/ Kill(c), ~Commit(c)
      PROVE  UNCHANGED db
  BY <1>4, Zenon DEF Step, Start, LockRepository, LockLifecycle, BeginExistingMigration, Begun,
     CreateBackup, SnapshotLockedSource, WriteRollbackImage, WriteChunk, SyncBackup,
     VerifyBackup, SyncAndRecheckBackup, CleanupFailedBackup, MigrateSchemaStep, Confirm,
     Cancel, Retry, Kill
<1>5. CASE Lease \/ EndLease \/ WriterBegin \/ PowerLoss \/ InspectVersion \/ InspectShape
  BY <1>5, Zenon DEF Lease, EndLease, WriterBegin, PowerLoss, InspectVersion, InspectShape
<1> QED
  BY <1>1, <1>2, <1>3, <1>4, <1>5 DEF Next

\* No step shows an intermediate schema or loses a transaction of another
\* connection (OnlyWholeMigrations).
THEOREM OnlyWholeMigrationsTheorem == Spec => OnlyWholeMigrations
<1> DEFINE Whole == db' # db =>
                      \/ db' = [db EXCEPT !.rows = @ + 1]
                      \/ Supported(db.version) /\ db' = [db EXCEPT !.version = Current]
<1>1. MInv /\ [Next]_vars => [Whole]_vars
  <2> SUFFICES ASSUME MInv, Next PROVE Whole
    OBVIOUS
  <2> QED
    BY WholeStep
<1> QED
  BY <1>1, MigrationInvariant, PTL DEF Spec, OnlyWholeMigrations

-----------------------------------------------------------------------------
(* What the outcome of a call tells its caller.                            *)

\* What call c may still rely on, and what its outcome tells.
Tells(c) ==
    /\ call[c].pc \in {"bind"} \cup Keeping => call[c].complete
    /\ call[c].pc = "confirm" => files[call[c].name].image \in replaced
    /\ call[c].outcome \in {"already_current", "migrated"} => db.version = Current
    /\ call[c].outcome \in {"migrated", "retained"} => call[c].name \in reported
    /\ call[c].outcome = "migrated" => files[call[c].name].image \in replaced

\* The invariant MInv, strengthened by it.
TInv == MInv /\ \A c \in Calls : Tells(c)

\* What a caller is told stays true, whatever other calls, kills and power
\* losses do later: the schema is current once a call has said so, the backup
\* that a result or an error names is complete on disk, and the one that comes
\* with a migration holds a database the migration replaced
\* (app migration.rs:33-77, retain_backup 307).
MigrationOutcomeTells ==
    \A c \in Calls :
        /\ call[c].outcome \in {"already_current", "migrated"} => db.version = Current
        /\ call[c].outcome \in {"migrated", "retained"} =>
              call[c].name \in Names /\ OnDisk(call[c].name)
        /\ call[c].outcome = "migrated" => files[call[c].name].image \in replaced

\* The checks that a call repeats under its guards hold: the backup read back has
\* the schema that the session bound, the migration finds its completed backup,
\* and the store opens at the current schema after COMMIT.  So from the complete
\* image on, a call that was not cancelled fails only for a fault
\* (app migration.rs:115-153, migration.rs:151-209).
MigrationChecksHold ==
    \A c \in Calls :
        /\ call[c].pc = "verify" =>
              /\ files[call[c].name].part = "whole"
              /\ files[call[c].name].image.version = call[c].found
        /\ call[c].pc = "upgrade" => call[c].complete
        /\ call[c].pc = "confirm" => db.version = Current

-----------------------------------------------------------------------------
\* A current schema stays current.
LEMMA CurrentStays ==
    ASSUME MInv, Next, db.version = Current
    PROVE  db'.version = Current
<1>1. db \in Databases
  BY DEF MInv, Types
<1>2. CASE db' = db
  BY <1>2
<1>3. CASE db' # db
  BY <1>1, <1>3, WholeStep DEF Databases
<1> QED
  BY <1>2, <1>3

\* What was reported or replaced stays so.
LEMMA HistoryGrows ==
    ASSUME Next
    PROVE  reported \subseteq reported' /\ replaced \subseteq replaced'
<1>1. ASSUME NEW c \in Calls, MigrateSchemaStep(c) \/ Commit(c) \/ Confirm(c)
      PROVE  reported \subseteq reported' /\ replaced \subseteq replaced'
  <2>1. \/ reported' = reported \/ reported' = reported \cup {call[c].name}
    BY <1>1, Zenon DEF MigrateSchemaStep, Commit, Confirm, Retain, history
  <2>2. \/ replaced' = replaced \/ replaced' = replaced \cup {db}
    BY <1>1, Zenon DEF MigrateSchemaStep, Commit, Confirm, history
  <2> QED
    BY <2>1, <2>2, Zenon
<1>2. ASSUME NEW c \in Calls, Step(c) \/ Cancel(c) \/ Retry(c) \/ Kill(c),
             ~(MigrateSchemaStep(c) \/ Commit(c) \/ Confirm(c))
      PROVE  UNCHANGED history
  BY <1>2, Zenon DEF Step, Start, LockRepository, LockLifecycle, BeginExistingMigration, Begun,
     CreateBackup, SnapshotLockedSource, WriteRollbackImage, WriteChunk, SyncBackup,
     VerifyBackup, SyncAndRecheckBackup, CleanupFailedBackup, Cancel, Retry, Kill
<1>3. CASE \/ Lease \/ EndLease \/ WriterBegin \/ WriterCommit \/ PowerLoss \/ InspectVersion
           \/ InspectShape
  <2>1. UNCHANGED history
    BY <1>3, Zenon DEF Lease, EndLease, WriterBegin, WriterCommit, PowerLoss, InspectVersion,
       InspectShape
  <2> QED
    BY <2>1 DEF history
<1>4. UNCHANGED history => reported \subseteq reported' /\ replaced \subseteq replaced'
  BY DEF history
<1> QED
  BY <1>1, <1>2, <1>3, <1>4, Zenon DEF Next

\* A call changes files under the repository lock, and then only the file under
\* its own name, which no caller was told of.
LEMMA FilesStep ==
    ASSUME MInv, NEW c \in Calls, Step(c) \/ Cancel(c) \/ Retry(c) \/ Kill(c), files' # files
    PROVE  call[c].pc \in Locked /\ \A n \in reported : files'[n] = files[n]
<1>1. files \in [Names -> BackupFiles \cup {None}] /\ reported \subseteq Names
  BY Zenon DEF MInv, Types
<1>2. ASSUME CreateBackup(c)
      PROVE  call[c].pc \in Locked /\ \A n \in reported : files'[n] = files[n]
  <2>1. call[c].pc = "create"
    BY <1>2, Zenon DEF CreateBackup
  <2>2. PICK x \in Names : files[x] = None /\ files' = [files EXCEPT ![x] = EmptyFile]
    BY <1>2, Zenon DEF CreateBackup, Refuse
  <2>3. \A n \in reported : files[n] # None
    BY Zenon DEF MInv, BackupsSound, OnDisk
  <2>4. \A n \in reported : files'[n] = files[n]
    BY <1>1, <2>2, <2>3, Zenon
  <2> QED
    BY <2>1, <2>4, Zenon DEF Locked, InLifecycle, Reserving
<1>3. ASSUME \/ WriteRollbackImage(c) \/ SyncBackup(c) \/ SyncAndRecheckBackup(c)
             \/ CleanupFailedBackup(c)
      PROVE  call[c].pc \in Locked /\ \A n \in reported : files'[n] = files[n]
  <2>1. call[c].pc \in {"write", "finish", "sync", "bind", "cleanup"}
    BY <1>3, Zenon DEF WriteRollbackImage, WriteChunk, SyncBackup, SyncAndRecheckBackup,
       CleanupFailedBackup
  <2>2. call[c].pc \in Locked /\ call[c].pc \in Named
    BY <2>1, Zenon DEF Locked, InLifecycle, Reserving, Named, Making
  <2>3. call[c].name \notin reported
    BY <2>2, At, Zenon DEF BackedUp
  <2>4. \A n \in Names \ {call[c].name} : files'[n] = files[n]
    BY <1>1, <1>3, Zenon DEF WriteRollbackImage, WriteChunk, SyncBackup, SyncAndRecheckBackup,
       CleanupFailedBackup, Abandon
  <2> QED
    BY <1>1, <2>2, <2>3, <2>4, Zenon
<1> QED
  BY <1>2, <1>3, Zenon DEF Step, Start, LockRepository, LockLifecycle, BeginExistingMigration,
     Begun, SnapshotLockedSource, VerifyBackup, MigrateSchemaStep, Commit, Confirm, Cancel, Retry,
     Kill, Refuse, Abandon

\* A backup that a caller was told of never changes.
LEMMA ReportedStay ==
    ASSUME MInv, Next
    PROVE  \A n \in reported : files'[n] = files[n]
<1>1. ASSUME PowerLoss PROVE \A n \in reported : files'[n] = files[n]
  <2> SUFFICES ASSUME NEW n \in reported PROVE files'[n] = files[n]
    OBVIOUS
  <2>1. n \in Names /\ OnDisk(n)
    BY Zenon DEF MInv, Types, BackupsSound
  <2>2. files'[n] \in Survivors(files[n])
    BY <1>1, <2>1, Zenon DEF PowerLoss
  <2> QED
    BY <2>1, <2>2 DEF OnDisk, Survivors
<1>2. CASE UNCHANGED files
  BY <1>2
<1>3. CASE \/ Lease \/ EndLease \/ WriterBegin \/ WriterCommit \/ InspectVersion \/ InspectShape
  BY <1>2, <1>3, Zenon DEF Lease, EndLease, WriterBegin, WriterCommit, InspectVersion, InspectShape
<1> QED
  BY <1>1, <1>2, <1>3, FilesStep, Zenon DEF Next

\* A call that does not move keeps what it tells.
LEMMA StillTells ==
    ASSUME TInv, Next, NEW c \in Calls, call'[c].name = call[c].name,
           call'[c].pc = call[c].pc, call'[c].outcome = call[c].outcome,
           call'[c].complete = call[c].complete, call[c].pc = "confirm" => files' = files
    PROVE  Tells(c)'
<1>1. MInv /\ Tells(c)
  BY Zenon DEF TInv
<1>2. db.version = Current => db'.version = Current
  BY <1>1, CurrentStays
<1>3. reported \subseteq reported' /\ replaced \subseteq replaced'
  BY HistoryGrows
<1>4. \A n \in reported : files'[n] = files[n]
  BY <1>1, ReportedStay
<1>5. call[c].outcome = "migrated" => files'[call[c].name] = files[call[c].name]
  BY <1>1, <1>4, Zenon DEF Tells
<1> QED
  BY <1>1, <1>2, <1>3, <1>5, Zenon DEF Tells

\* A call that has only begun, or has failed, tells nothing.
LEMMA TellsNothing ==
    ASSUME NEW c \in Calls, call'[c].pc \notin {"bind"} \cup Keeping,
           call'[c].outcome \in {None, "failed"}
    PROVE  Tells(c)'
<1>1. call'[c].outcome \notin {"already_current", "migrated", "retained"}
  BY NoneAssumption DEF Outcomes
<1>2. call'[c].pc # "confirm"
  BY DEF Keeping
<1> QED
  BY <1>1, <1>2, Zenon DEF Tells

\* Where Goto takes a call, and what it leaves of its record.
LEMMA GotoTold ==
    ASSUME MInv, NEW c \in Calls, NEW next \in Pcs, Goto(c, next), call[c].pc # "done"
    PROVE  /\ call'[c].pc = next /\ call'[c].outcome = None
           /\ call'[c].name = call[c].name /\ call'[c].complete = call[c].complete
           /\ \A q \in Calls \ {c} : call'[q] = call[q]
<1>1. PICK n \in CallRecords : Moves(c, n) /\ n.pc = next /\ Same(n, call[c])
  BY At, GotoMoves, Zenon
<1>2. call'[c] = n /\ \A q \in Calls \ {c} : call'[q] = call[q]
  BY <1>1, At, MoveFacts, Zenon
<1>3. call[c].outcome = None
  BY At, Zenon DEF Remembers
<1> QED
  BY <1>1, <1>2, <1>3, Zenon DEF Same

\* How a call returns.
LEMMA ReturnTold ==
    ASSUME MInv, NEW c \in Calls, NEW result \in Outcomes,
           call' = [call EXCEPT ![c].pc = "done", ![c].outcome = result]
    PROVE  /\ call'[c].pc = "done" /\ call'[c].outcome = result
           /\ call'[c].name = call[c].name
           /\ \A q \in Calls \ {c} : call'[q] = call[q]
<1>1. PICK n \in CallRecords : Moves(c, n) /\ Ended(n, call[c], result)
  BY At, ReturnMoves, Zenon
<1>2. call'[c] = n /\ \A q \in Calls \ {c} : call'[q] = call[q]
  BY <1>1, At, MoveFacts, Zenon
<1> QED
  BY <1>1, <1>2, Zenon DEF Ended

\* A call whose error names a backup.
LEMMA RetainTold ==
    ASSUME MInv, NEW c \in Calls,
           call' = [call EXCEPT ![c].pc = "done", ![c].outcome = "retained"],
           reported' = reported \cup {call[c].name}
    PROVE  Tells(c)' /\ \A q \in Calls \ {c} : call'[q] = call[q]
<1>1. /\ call'[c].pc = "done" /\ call'[c].outcome = "retained" /\ call'[c].name = call[c].name
      /\ \A q \in Calls \ {c} : call'[q] = call[q]
  BY ReturnTold, Zenon DEF Outcomes
<1>2. call'[c].pc \notin {"bind"} \cup Keeping /\ call'[c].pc # "confirm"
  BY <1>1 DEF Keeping
<1>3. call'[c].name \in reported'
  BY <1>1
<1>4. "retained" \notin {"already_current", "migrated"}
  OBVIOUS
<1> QED
  BY <1>1, <1>2, <1>3, <1>4, Zenon DEF Tells

\* The steps up to the complete backup, and those of a failing call.
LEMMA EarlyTells ==
    ASSUME TInv, NEW c \in Calls,
           \/ Start(c) \/ LockRepository(c) \/ LockLifecycle(c) \/ BeginExistingMigration(c)
           \/ CreateBackup(c) \/ SnapshotLockedSource(c) \/ WriteRollbackImage(c) \/ SyncBackup(c)
           \/ CleanupFailedBackup(c)
    PROVE  Tells(c)' /\ \A q \in Calls \ {c} : call'[q] = call[q]
<1>1. MInv /\ call[c].pc # "done"
  BY Zenon DEF TInv, Start, LockRepository, LockLifecycle, BeginExistingMigration, CreateBackup,
     SnapshotLockedSource, WriteRollbackImage, WriteChunk, SyncBackup, CleanupFailedBackup
<1>2. CASE call' = [call EXCEPT ![c].pc = "done", ![c].outcome = "failed"]
  <2>1. /\ call'[c].pc = "done" /\ call'[c].outcome = "failed"
        /\ \A q \in Calls \ {c} : call'[q] = call[q]
    BY <1>1, <1>2, ReturnTold, Zenon DEF Outcomes
  <2>2. call'[c].pc \notin {"bind"} \cup Keeping
    BY <2>1 DEF Keeping
  <2> QED
    BY <2>1, <2>2, TellsNothing, Zenon
<1>3. ASSUME NEW next \in {"locks", "storage", "reserve", "finish", "sync", "verify", "cleanup"},
             Goto(c, next)
      PROVE  Tells(c)' /\ \A q \in Calls \ {c} : call'[q] = call[q]
  <2>1. next \in Pcs /\ next \notin {"bind"} \cup Keeping
    BY DEF Pcs, Locked, InLifecycle, Reserving, Making, Keeping
  <2>2. /\ call'[c].pc = next /\ call'[c].outcome = None
        /\ \A q \in Calls \ {c} : call'[q] = call[q]
    BY <1>1, <1>3, <2>1, GotoTold, Zenon
  <2> QED
    BY <2>1, <2>2, TellsNothing, Zenon
<1>4. call \in [Calls -> CallRecords] /\ call[c] \in CallRecords /\ call[c].outcome = None
  BY <1>1, At, Zenon DEF Types, Remembers
<1>5. ASSUME NEW n \in {"begun", "snapshot", "write"}, NEW m, call' = [call EXCEPT ![c] = m],
             m.pc = n, m.outcome = None
      PROVE  Tells(c)' /\ \A q \in Calls \ {c} : call'[q] = call[q]
  <2>1. call'[c] = m /\ \A q \in Calls \ {c} : call'[q] = call[q]
    BY <1>4, <1>5, Zenon
  <2>2. n \notin {"bind"} \cup Keeping
    BY DEF Keeping
  <2> QED
    BY <1>5, <2>1, <2>2, TellsNothing, Zenon
<1>6. ASSUME call' = [call EXCEPT ![c].pc = "begun", ![c].found = db.version]
      PROVE  Tells(c)' /\ \A q \in Calls \ {c} : call'[q] = call[q]
  <2> DEFINE m == [call[c] EXCEPT !.pc = "begun", !.found = db.version]
  <2>1. m.pc = "begun" /\ m.outcome = None
    BY <1>4 DEF CallRecords
  <2>2. call' = [call EXCEPT ![c] = m]
    BY <1>4, <1>6, Zenon
  <2> HIDE DEF m
  <2> QED
    BY <1>5, <2>1, <2>2, Zenon
<1>7. ASSUME NEW x, call' = [call EXCEPT ![c].pc = "snapshot", ![c].name = x]
      PROVE  Tells(c)' /\ \A q \in Calls \ {c} : call'[q] = call[q]
  <2> DEFINE m == [call[c] EXCEPT !.pc = "snapshot", !.name = x]
  <2>1. m.pc = "snapshot" /\ m.outcome = None
    BY <1>4 DEF CallRecords
  <2>2. call' = [call EXCEPT ![c] = m]
    BY <1>4, <1>7, Zenon
  <2> HIDE DEF m
  <2> QED
    BY <1>5, <2>1, <2>2, Zenon
<1>8. ASSUME call' = [call EXCEPT ![c].pc = "write", ![c].snapshot = db]
      PROVE  Tells(c)' /\ \A q \in Calls \ {c} : call'[q] = call[q]
  <2> DEFINE m == [call[c] EXCEPT !.pc = "write", !.snapshot = db]
  <2>1. m.pc = "write" /\ m.outcome = None
    BY <1>4 DEF CallRecords
  <2>2. call' = [call EXCEPT ![c] = m]
    BY <1>4, <1>8, Zenon
  <2> HIDE DEF m
  <2> QED
    BY <1>5, <2>1, <2>2, Zenon
<1>9. \/ call' = [call EXCEPT ![c].pc = "done", ![c].outcome = "failed"]
      \/ \E next \in {"locks", "storage", "reserve", "finish", "sync", "verify", "cleanup"} :
            Goto(c, next)
      \/ call' = [call EXCEPT ![c].pc = "begun", ![c].found = db.version]
      \/ \E x : call' = [call EXCEPT ![c].pc = "snapshot", ![c].name = x]
      \/ call' = [call EXCEPT ![c].pc = "write", ![c].snapshot = db]
  BY Zenon DEF Start, LockRepository, LockLifecycle, BeginExistingMigration, CreateBackup,
     SnapshotLockedSource, WriteRollbackImage, WriteChunk, SyncBackup, CleanupFailedBackup, Refuse,
     Return, Abandon
<1> QED
  BY <1>2, <1>3, <1>6, <1>7, <1>8, <1>9, Zenon

\* A current repository ends the call, any other goes on to its backup.
LEMMA BegunTells ==
    ASSUME TInv, NEW c \in Calls, Begun(c)
    PROVE  Tells(c)' /\ \A q \in Calls \ {c} : call'[q] = call[q]
<1>1. MInv /\ call[c].pc = "begun" /\ call[c].pc # "done" /\ UNCHANGED db
  BY Zenon DEF TInv, Begun
<1>2. call[c].found = db.version
  BY <1>1, At, Zenon DEF Reserved, Reserving
<1>3. ASSUME NEW result \in {"failed", "already_current"}, Return(c, result),
             result = "already_current" => call[c].found = Current
      PROVE  Tells(c)' /\ \A q \in Calls \ {c} : call'[q] = call[q]
  <2>1. result \in Outcomes /\ result \notin {"migrated", "retained"}
    BY DEF Outcomes
  <2>2. call' = [call EXCEPT ![c].pc = "done", ![c].outcome = result]
    BY <1>3, Zenon DEF Return
  <2>3. /\ call'[c].pc = "done" /\ call'[c].outcome = result
        /\ \A q \in Calls \ {c} : call'[q] = call[q]
    BY <1>1, <2>1, <2>2, ReturnTold, Zenon
  <2>4. "done" \notin {"bind"} \cup Keeping /\ "done" # "confirm"
    BY DEF Keeping
  <2>5. result \in {"already_current", "migrated"} => db'.version = Current
    BY <1>1, <1>2, <1>3, <2>1, Zenon
  <2> QED
    BY <2>1, <2>3, <2>4, <2>5, Zenon DEF Tells
<1>4. CASE Goto(c, "create")
  <2>1. "create" \in Pcs /\ "create" \notin {"bind"} \cup Keeping
    BY DEF Pcs, Locked, InLifecycle, Reserving, Keeping
  <2>2. /\ call'[c].pc = "create" /\ call'[c].outcome = None
        /\ \A q \in Calls \ {c} : call'[q] = call[q]
    BY <1>1, <1>4, <2>1, GotoTold, Zenon
  <2> QED
    BY <2>1, <2>2, TellsNothing, Zenon
<1> QED
  BY <1>3, <1>4, Zenon DEF Begun, Refuse

\* The verified backup is complete for the steps after it.
LEMMA BackupTells ==
    ASSUME TInv, NEW c \in Calls, VerifyBackup(c) \/ SyncAndRecheckBackup(c)
    PROVE  Tells(c)' /\ \A q \in Calls \ {c} : call'[q] = call[q]
<1>1. MInv /\ Tells(c) /\ call[c].pc \in {"verify", "bind"}
  BY Zenon DEF TInv, VerifyBackup, SyncAndRecheckBackup
<1>2. call[c].pc # "done" /\ call[c].outcome = None /\ call[c] \in CallRecords
      /\ call \in [Calls -> CallRecords]
  BY <1>1, At, Zenon DEF Remembers, Types
<1>3. CASE Goto(c, "cleanup")
  <2>1. "cleanup" \in Pcs /\ "cleanup" \notin {"bind"} \cup Keeping
    BY DEF Pcs, Locked, InLifecycle, Reserving, Making, Keeping
  <2>2. /\ call'[c].pc = "cleanup" /\ call'[c].outcome = None
        /\ \A q \in Calls \ {c} : call'[q] = call[q]
    BY <1>1, <1>2, <1>3, <2>1, GotoTold, Zenon
  <2> QED
    BY <2>1, <2>2, TellsNothing, Zenon
<1>4. None \notin {"already_current", "migrated", "retained"}
  BY NoneAssumption DEF Outcomes
<1>5. CASE call' = [call EXCEPT ![c].pc = "bind", ![c].complete = TRUE]
  <2> DEFINE m == [call[c] EXCEPT !.pc = "bind", !.complete = TRUE]
  <2>1. m.pc = "bind" /\ m.complete /\ m.outcome = None
    BY <1>2, Zenon DEF CallRecords
  <2>2. call' = [call EXCEPT ![c] = m]
    BY <1>2, <1>5, Zenon
  <2> HIDE DEF m
  <2>3. call'[c] = m /\ \A q \in Calls \ {c} : call'[q] = call[q]
    BY <1>2, <2>2, Zenon
  <2> QED
    BY <1>4, <2>1, <2>3, Zenon DEF Tells
<1>6. CASE SyncAndRecheckBackup(c) /\ Goto(c, "upgrade")
  <2>1. "upgrade" \in Pcs /\ "upgrade" # "confirm"
    BY Zenon DEF Pcs, Locked, InLifecycle, Reserving
  <2>2. call[c].pc = "bind" /\ call[c].complete
    BY <1>1, <1>6, Zenon DEF SyncAndRecheckBackup, Tells
  <2>3. /\ call'[c].pc = "upgrade" /\ call'[c].outcome = None
        /\ call'[c].complete = call[c].complete
        /\ \A q \in Calls \ {c} : call'[q] = call[q]
    BY <1>1, <1>2, <1>6, <2>1, GotoTold, Zenon
  <2> QED
    BY <1>4, <2>1, <2>2, <2>3, Zenon DEF Tells
<1> QED
  BY <1>3, <1>5, <1>6, Zenon DEF VerifyBackup, SyncAndRecheckBackup, Abandon

\* The schema steps, with the complete backup.
LEMMA MigrateTells ==
    ASSUME TInv, Next, NEW c \in Calls, MigrateSchemaStep(c)
    PROVE  Tells(c)' /\ \A q \in Calls \ {c} : call'[q] = call[q]
<1>1. MInv /\ Tells(c) /\ call[c].pc = "upgrade" /\ call[c].pc # "done"
  BY Zenon DEF TInv, MigrateSchemaStep
<1>2. CASE UNCHANGED call
  BY <1>1, <1>2, StillTells, Zenon
<1>3. CASE Goto(c, "commit")
  <2>1. "commit" \in Pcs /\ "commit" # "confirm"
    BY Zenon DEF Pcs, Locked, InLifecycle, Reserving
  <2>2. call[c].complete
    BY <1>1, Zenon DEF Tells, Keeping
  <2>3. /\ call'[c].pc = "commit" /\ call'[c].outcome = None
        /\ call'[c].complete = call[c].complete
        /\ \A q \in Calls \ {c} : call'[q] = call[q]
    BY <1>1, <1>3, <2>1, GotoTold, Zenon
  <2>4. None \notin {"already_current", "migrated", "retained"}
    BY NoneAssumption DEF Outcomes
  <2> QED
    BY <2>1, <2>2, <2>3, <2>4, Zenon DEF Tells
<1>4. CASE Retain(c)
  <2>1. /\ call' = [call EXCEPT ![c].pc = "done", ![c].outcome = "retained"]
        /\ reported' = reported \cup {call[c].name}
    BY <1>4, Zenon DEF Retain, Return
  <2> QED
    BY <1>1, <2>1, RetainTold, Zenon
<1> QED
  BY <1>2, <1>3, <1>4, Zenon DEF MigrateSchemaStep

\* COMMIT replaces the database that the backup holds.
LEMMA CommitTells ==
    ASSUME TInv, NEW c \in Calls, Commit(c)
    PROVE  Tells(c)' /\ \A q \in Calls \ {c} : call'[q] = call[q]
<1>1. MInv /\ Tells(c) /\ call[c].pc = "commit" /\ call[c].pc # "done" /\ UNCHANGED files
  BY Zenon DEF TInv, Commit
<1>2. CASE replaced' = replaced \cup {db} /\ Goto(c, "confirm")
  <2>1. "confirm" \in Pcs
    BY Zenon DEF Pcs, Locked, InLifecycle
  <2>2. call[c].complete /\ files[call[c].name].image = db
    BY <1>1, At, Zenon DEF Tells, Keeping, BackedUp
  <2>3. /\ call'[c].pc = "confirm" /\ call'[c].outcome = None
        /\ call'[c].complete = call[c].complete /\ call'[c].name = call[c].name
        /\ \A q \in Calls \ {c} : call'[q] = call[q]
    BY <1>1, <1>2, <2>1, GotoTold, Zenon
  <2>4. None \notin {"already_current", "migrated", "retained"}
    BY NoneAssumption DEF Outcomes
  <2>5. files'[call'[c].name].image \in replaced'
    BY <1>1, <1>2, <2>2, <2>3, Zenon
  <2> QED
    BY <2>2, <2>3, <2>4, <2>5, Zenon DEF Tells
<1>3. CASE /\ call' = [call EXCEPT ![c].pc = "done", ![c].outcome = "retained"]
           /\ reported' = reported \cup {call[c].name}
  BY <1>1, <1>3, RetainTold, Zenon
<1> QED
  BY <1>2, <1>3, Zenon DEF Commit, Retain, Return

\* A confirmed migration tells its backup.
LEMMA ConfirmTells ==
    ASSUME TInv, NEW c \in Calls, Confirm(c)
    PROVE  Tells(c)' /\ \A q \in Calls \ {c} : call'[q] = call[q]
<1>1. MInv /\ Tells(c) /\ call[c].pc = "confirm" /\ UNCHANGED <<db, files, replaced>>
  BY Zenon DEF TInv, Confirm
<1>2. CASE /\ db.version = Current /\ Return(c, "migrated")
           /\ reported' = reported \cup {call[c].name}
  <2>1. call' = [call EXCEPT ![c].pc = "done", ![c].outcome = "migrated"]
    BY <1>2, Zenon DEF Return
  <2>2. "migrated" \in Outcomes /\ "done" \notin {"bind"} \cup Keeping /\ "done" # "confirm"
    BY DEF Outcomes, Keeping
  <2>3. /\ call'[c].pc = "done" /\ call'[c].outcome = "migrated" /\ call'[c].name = call[c].name
        /\ \A q \in Calls \ {c} : call'[q] = call[q]
    BY <1>1, <2>1, <2>2, ReturnTold, Zenon
  <2>4. files[call[c].name].image \in replaced
    BY <1>1, Zenon DEF Tells
  <2>5. call[c].name \in reported' /\ db'.version = Current
    BY <1>1, <1>2
  <2> QED
    BY <1>1, <2>2, <2>3, <2>4, <2>5, Zenon DEF Tells
<1>3. CASE Retain(c)
  <2>1. /\ call' = [call EXCEPT ![c].pc = "done", ![c].outcome = "retained"]
        /\ reported' = reported \cup {call[c].name}
    BY <1>3, Zenon DEF Retain, Return
  <2> QED
    BY <1>1, <2>1, RetainTold, Zenon
<1> QED
  BY <1>2, <1>3, Zenon DEF Confirm

\* A cancellation asked for tells nothing new, a call started anew nothing.
LEMMA CallerTells ==
    ASSUME TInv, Next, NEW c \in Calls, Cancel(c) \/ Retry(c) \/ Kill(c)
    PROVE  Tells(c)' /\ \A q \in Calls \ {c} : call'[q] = call[q]
<1>1. MInv
  BY DEF TInv
<1>2. call \in [Calls -> CallRecords] /\ call[c] \in CallRecords
  BY <1>1, At, Zenon DEF Types
<1>3. CASE Cancel(c)
  <2> DEFINE m == [call[c] EXCEPT !.cancelled = TRUE, !.early = call[c].pc \in BeforeBoundary]
  <2>1. /\ m.pc = call[c].pc /\ m.name = call[c].name /\ m.outcome = call[c].outcome
        /\ m.complete = call[c].complete
    BY <1>2, Zenon DEF CallRecords
  <2>2. call' = [call EXCEPT ![c] = m] /\ files' = files
    BY <1>2, <1>3, Zenon DEF Cancel
  <2> HIDE DEF m
  <2>3. call'[c] = m /\ \A q \in Calls \ {c} : call'[q] = call[q]
    BY <1>2, <2>2, Zenon
  <2> QED
    BY <2>1, <2>2, <2>3, StillTells, Zenon
<1>4. CASE Retry(c) \/ Kill(c)
  <2>1. call' = [call EXCEPT ![c] = NewCall]
    BY <1>4, Zenon DEF Retry, Kill
  <2>2. call'[c] = NewCall /\ \A q \in Calls \ {c} : call'[q] = call[q]
    BY <1>2, <2>1, Zenon
  <2>3. NewCall.pc = "idle" /\ NewCall.outcome = None
    BY DEF NewCall
  <2>4. "idle" \notin {"bind"} \cup Keeping
    BY DEF Keeping
  <2> QED
    BY <2>2, <2>3, <2>4, TellsNothing, Zenon
<1> QED
  BY <1>3, <1>4, Zenon

\* A step of one call keeps what every call tells.
LEMMA CallTells ==
    ASSUME TInv, Next, NEW c \in Calls, Step(c) \/ Cancel(c) \/ Retry(c) \/ Kill(c)
    PROVE  \A q \in Calls : Tells(q)'
<1>1. Tells(c)' /\ \A q \in Calls \ {c} : call'[q] = call[q]
  BY EarlyTells, BegunTells, BackupTells, MigrateTells, CommitTells, ConfirmTells, CallerTells,
     Zenon DEF Step
<1>2. ASSUME NEW q \in Calls \ {c} PROVE Tells(q)'
  <2>1. MInv /\ call'[q] = call[q]
    BY <1>1, Zenon DEF TInv
  <2>2. call[q].pc = "confirm" => files' = files
    <3> SUFFICES ASSUME call[q].pc = "confirm", files' # files PROVE FALSE
      OBVIOUS
    <3>1. call[c].pc \in Locked
      BY <2>1, FilesStep, Zenon
    <3>2. call[q].pc \notin Locked
      BY <2>1, <3>1, Alone, Zenon
    <3> QED
      BY <3>2, Zenon DEF Locked, InLifecycle
  <2> QED
    BY <2>1, <2>2, StillTells, Zenon
<1> QED
  BY <1>1, <1>2, Zenon

\* So does everything else on the machine, a power loss included.
LEMMA EnvTells ==
    ASSUME TInv, Next,
           \/ Lease \/ EndLease \/ WriterBegin \/ WriterCommit \/ InspectVersion \/ InspectShape
           \/ PowerLoss
    PROVE  \A q \in Calls : Tells(q)'
<1> SUFFICES ASSUME NEW q \in Calls PROVE Tells(q)'
  OBVIOUS
<1>1. CASE UNCHANGED <<files, call>>
  BY <1>1, StillTells, Zenon
<1>2. CASE Lease \/ EndLease \/ WriterBegin \/ WriterCommit \/ InspectVersion \/ InspectShape
  BY <1>1, <1>2, Zenon DEF Lease, EndLease, WriterBegin, WriterCommit, InspectVersion, InspectShape
<1>3. CASE PowerLoss
  <2>1. call'[q] = IF call[q].pc = "done" THEN call[q] ELSE NewCall
    BY <1>3, Zenon DEF PowerLoss
  <2>2. CASE call[q].pc = "done"
    <3>1. call'[q] = call[q] /\ call[q].pc # "confirm"
      BY <2>1, <2>2
    <3> QED
      BY <3>1, StillTells, Zenon
  <2>3. CASE call[q].pc # "done"
    <3>1. call'[q].pc = "idle" /\ call'[q].outcome = None
      BY <2>1, <2>3 DEF NewCall
    <3>2. "idle" \notin {"bind"} \cup Keeping
      BY DEF Keeping
    <3> QED
      BY <3>1, <3>2, TellsNothing, Zenon
  <2> QED
    BY <2>2, <2>3
<1> QED
  BY <1>2, <1>3, Zenon

\* Nobody has been told anything initially.
LEMMA InitTInv == Init => TInv
<1> SUFFICES ASSUME Init PROVE TInv
  OBVIOUS
<1>1. MInv
  BY InitMInv
<1>2. ASSUME NEW c \in Calls PROVE Tells(c)
  <2>1. call[c] = NewCall
    BY Zenon DEF Init
  <2>2. call[c].pc = "idle" /\ call[c].outcome = None
    BY <2>1 DEF NewCall
  <2>3. "idle" \notin {"bind"} \cup Keeping /\ "idle" # "confirm"
    BY DEF Keeping
  <2>4. None \notin {"already_current", "migrated", "retained"}
    BY NoneAssumption DEF Outcomes
  <2> QED
    BY <2>2, <2>3, <2>4, Zenon DEF Tells
<1> QED
  BY <1>1, <1>2, Zenon DEF TInv

\* Every step keeps the strengthened invariant.
LEMMA NextTInv == TInv /\ [Next]_vars => TInv'
<1> SUFFICES ASSUME TInv, [Next]_vars PROVE TInv'
  OBVIOUS
<1>1. MInv'
  BY NextMInv, Zenon DEF TInv
<1>2. CASE Next
  <2>1. \A q \in Calls : Tells(q)'
    BY <1>2, CallTells, EnvTells, Zenon DEF Next
  <2> QED
    BY <1>1, <2>1, Zenon DEF TInv
<1>3. CASE UNCHANGED vars
  <2>1. UNCHANGED <<db, files, call, reported, replaced>>
    BY <1>3 DEF vars, history
  <2>2. \A q \in Calls : Tells(q)'
    BY <2>1, Zenon DEF TInv, Tells
  <2> QED
    BY <1>1, <2>2, Zenon DEF TInv
<1> QED
  BY <1>2, <1>3

\* The strengthened invariant holds in every behaviour.
LEMMA TellsInvariant == Spec => []TInv
  BY InitTInv, NextTInv, PTL DEF Spec

\* A caller can rely on its result for good: what "already current", "migrated"
\* and an error with a backup say stays true through later calls, kills and
\* power losses (app migration.rs:33-77, retain_backup 307).
THEOREM MigrationOutcomesTell == Spec => []MigrationOutcomeTells
<1>1. TInv => MigrationOutcomeTells
  <2> SUFFICES ASSUME TInv, NEW c \in Calls
               PROVE  /\ call[c].outcome \in {"already_current", "migrated"} => db.version = Current
                      /\ call[c].outcome \in {"migrated", "retained"} =>
                            call[c].name \in Names /\ OnDisk(call[c].name)
                      /\ call[c].outcome = "migrated" => files[call[c].name].image \in replaced
    BY Zenon DEF MigrationOutcomeTells
  <2>1. Tells(c) /\ reported \subseteq Names /\ \A n \in reported : OnDisk(n)
    BY Zenon DEF TInv, MInv, Types, BackupsSound
  <2> QED
    BY <2>1, Zenon DEF Tells
<1> QED
  BY <1>1, TellsInvariant, PTL

\* No check after the complete backup fails for what another connection or call
\* did (app migration.rs:115-153, migration.rs:151-209).
THEOREM MigrationChecksHoldTheorem == Spec => []MigrationChecksHold
<1>1. TInv => MigrationChecksHold
  <2> SUFFICES ASSUME TInv, NEW c \in Calls
               PROVE  /\ call[c].pc = "verify" =>
                            /\ files[call[c].name].part = "whole"
                            /\ files[call[c].name].image.version = call[c].found
                      /\ call[c].pc = "upgrade" => call[c].complete
                      /\ call[c].pc = "confirm" => db.version = Current
    BY Zenon DEF MigrationChecksHold
  <2>1. MInv /\ Tells(c)
    BY Zenon DEF TInv
  <2>2. Reserved(c) /\ BackedUp(c)
    BY <2>1, At, Zenon
  <2>3. ASSUME call[c].pc = "verify"
        PROVE  /\ files[call[c].name].part = "whole"
               /\ files[call[c].name].image.version = call[c].found
    <3>1. call[c].found = db.version
      BY <2>2, <2>3, Zenon DEF Reserved, Reserving, Making
    <3>2. files[call[c].name].part = "whole" /\ files[call[c].name].image = db
      BY <2>2, <2>3, Zenon DEF BackedUp
    <3> QED
      BY <3>1, <3>2, Zenon
  <2>4. call[c].pc = "upgrade" => call[c].complete
    BY <2>1, Zenon DEF Tells, Keeping
  <2>5. call[c].pc = "confirm" => db.version = Current
    BY <2>2, Zenon DEF Reserved
  <2> QED
    BY <2>3, <2>4, <2>5
<1> QED
  BY <1>1, TellsInvariant, PTL

=============================================================================
