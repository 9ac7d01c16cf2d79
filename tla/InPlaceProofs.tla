--------------------------- MODULE InPlaceProofs ---------------------------
(***************************************************************************)
(* Theorems about InPlaceReplacement, for any number of commands, texts,   *)
(* modes and edits: the original is retained, the rename replaces what was *)
(* validated, and no command touches a file of another.                    *)
(*                                                                         *)
(* The backup is created exclusively and is kept until its command has     *)
(* ended, so it works as a lock: only its owner is past the creation, and  *)
(* only its owner can create the staging file, fill both and rename.       *)
(***************************************************************************)
EXTENDS InPlaceReplacement, TLAPS

USE ReplaceAssumption, NoneAssumption

-----------------------------------------------------------------------------
(* The inductive invariant.                                                *)

\* Before the backup is created; with a staging file; with a filled backup;
\* with a backup.
Early == {"resolve", "read", "validated", "original", "unoccupied", "capture",
          "backup.create"}
AtStaging == {"staging.protect", "staging.write", "staged", "verifySource",
              "verifyArtifacts", "install", "install.original", "install.staged",
              "install.rename"}
Filled == AtStaging \cup {"staging.create", "verifyReplaced", "replaced"}
Keeping == Filled \cup {"backup.protect", "backup.write"}

\* What a command knows and has made when it is at its step.
Owned(r) ==
    /\ pc[r] \notin {"resolve", "read", "ended"} =>
          original[r] \in Texts /\ accepted[r] \in Texts
    /\ pc[r] \in Keeping \cup {"backup.create"} => captured[r] \in Protections
    /\ pc[r] \in Keeping => backup # None /\ backup.owner = r
    /\ pc[r] \in Keeping \ {"backup.protect"} => backup.mode = captured[r].mode
    /\ pc[r] \in Filled => backup.bytes = original[r]
    /\ pc[r] \in AtStaging => staging # None /\ staging.owner = r
    /\ pc[r] \in AtStaging \ {"staging.protect"} => staging.mode = captured[r].mode
    /\ pc[r] \in AtStaging \ {"staging.protect", "staging.write"} =>
          staging.bytes = accepted[r]
    /\ r \in Exposed \ overtaken => source # None /\ source.bytes = original[r]
    /\ r \in installed => pc[r] \in {"verifyReplaced", "replaced", "ended"}

\* A file beside the source belongs to a command that captured a policy, and
\* holds nothing unless it is under that policy.
FileSound(file) ==
    file # None =>
        /\ file.owner \in Runs
        /\ pc[file.owner] \notin Early
        /\ captured[file.owner] \in Protections
        /\ file.bytes # "empty" => file.mode = captured[file.owner].mode

\* The backup of a command that has replaced the source.
Retains(r) ==
    /\ backup # None /\ backup.owner = r
    /\ backup.bytes = original[r] /\ backup.mode = captured[r].mode

Types ==
    /\ source \in Files \cup {None}
    /\ backup \in Files \cup {None}
    /\ staging \in Files \cup {None}
    /\ nextId \in Nat
    /\ pc \in [Runs -> Steps]
    /\ original \in [Runs -> Texts \cup {None}]
    /\ accepted \in [Runs -> Texts \cup {None}]
    /\ captured \in [Runs -> Protections \cup {None}]
    /\ outcome \in [Runs -> Outcomes \cup {None}]
    /\ \A r \in Runs : outcome[r] # None <=> pc[r] = "ended"
    /\ edits \in 0..MaxEdits
    /\ installed \subseteq Runs /\ overtaken \subseteq Runs /\ discarded \subseteq Runs

\* The source is a whole document under a policy of the user's.
Whole == source # None => source.bytes \in Texts /\ source.mode \in Modes

IInv ==
    /\ Types
    /\ Whole
    /\ FileSound(backup) /\ FileSound(staging)
    /\ \A r \in Runs : Owned(r)
    /\ \A r \in installed \ discarded : Retains(r)

-----------------------------------------------------------------------------
(* Steps of a command.                                                     *)

\* What a step of command r to another step may do at most.
Own(r, step) ==
    /\ pc' = [pc EXCEPT ![r] = step]
    /\ step \in Steps /\ (pc[r] \notin Early => step \notin Early)
    /\ \A p \in Runs \ {r} :
          /\ original'[p] = original[p] /\ accepted'[p] = accepted[p]
          /\ captured'[p] = captured[p]
    /\ captured'[r] = captured[r] \/ pc[r] \in Early
    /\ source' = source \/ pc[r] = "install.rename"
    /\ backup' = backup \/ backup = None \/ backup.owner = r
    /\ staging' = staging \/ staging = None \/ staging.owner = r
    /\ installed' \subseteq installed \cup {r}
    /\ UNCHANGED <<overtaken, discarded>>

\* The other commands are not concerned by it.
LEMMA OthersOwn ==
    ASSUME IInv, NEW r \in Runs, NEW step, Own(r, step), NEW p \in Runs \ {r}
    PROVE  Owned(p)' /\ (p \in installed' \ discarded' => Retains(p)')
<1>1. /\ Owned(p) /\ pc'[p] = pc[p] /\ (p \in installed' => p \in installed)
      /\ original'[p] = original[p] /\ accepted'[p] = accepted[p]
      /\ captured'[p] = captured[p] /\ overtaken' = overtaken /\ discarded' = discarded
  BY DEF IInv, Types, Own
<1>2. pc[p] \in Keeping => backup' = backup /\ backup.owner = p
  BY <1>1 DEF Own, Owned
<1>3. pc[p] \in AtStaging => staging' = staging
  BY <1>1 DEF Own, Owned
<1>4. p \in Exposed => source' = source
  <2>1. p \in Exposed => backup.owner = p
    BY <1>1 DEF Exposed, Owned, Keeping, Filled, AtStaging
  <2>2. pc[r] = "install.rename" => backup.owner = r
    BY DEF IInv, Owned, Keeping, Filled, AtStaging
  <2> QED
    BY <2>1, <2>2 DEF Own
<1>5. Owned(p)'
  BY <1>1, <1>2, <1>3, <1>4 DEF Owned, Exposed, Keeping, Filled
<1>6. p \in installed' \ discarded' => Retains(p)'
  <2>1. p \in installed' \ discarded' => Retains(p)
    BY <1>1 DEF IInv
  <2>2. Retains(p) => backup' = backup
    BY DEF Own, Retains
  <2> QED
    BY <1>1, <2>1, <2>2 DEF Retains
<1> QED
  BY <1>5, <1>6

\* A file that a step leaves alone stays sound.
LEMMA FileStays ==
    ASSUME IInv, NEW r \in Runs, NEW step, Own(r, step)
    PROVE  /\ backup' = backup => FileSound(backup)'
           /\ staging' = staging => FileSound(staging)'
<1>1. ASSUME NEW p \in Runs, pc[p] \notin Early
      PROVE  pc'[p] \notin Early /\ captured'[p] = captured[p]
  BY <1>1 DEF Own, IInv, Types
<1> QED
  BY <1>1 DEF IInv, FileSound, Early

\* Enough of a step to keep the invariant.
LEMMA OwnStep ==
    ASSUME IInv, NEW r \in Runs, NEW step, Own(r, step), Types', Whole', Owned(r)',
           backup' = backup \/ FileSound(backup)',
           staging' = staging \/ FileSound(staging)',
           r \in installed' => Retains(r)'
    PROVE  IInv'
<1>1. FileSound(backup)' /\ FileSound(staging)'
  BY FileStays
<1>2. \A p \in Runs : Owned(p)'
  BY OthersOwn
<1>3. installed' \subseteq Runs
  BY DEF Types
<1>4. \A p \in installed' \ discarded' : Retains(p)'
  BY <1>3, OthersOwn
<1> QED
  BY <1>1, <1>2, <1>4 DEF IInv

\* A command may end anywhere.
LEMMA EndStep ==
    ASSUME IInv, NEW r \in Runs, UNCHANGED <<files, args, history>>,
           NEW how, End(r, how) /\ how \in Outcomes /\ pc[r] # "ended"
    PROVE  IInv' /\ Own(r, "ended")
<1>1. UNCHANGED <<source, backup, staging, nextId, original, accepted, captured>>
  BY DEF files, args
<1>2. UNCHANGED <<edits, installed, overtaken, discarded>>
  BY DEF history
<1>3. pc' = [pc EXCEPT ![r] = "ended"] /\ outcome' = [outcome EXCEPT ![r] = how]
  BY DEF End
<1>4. Own(r, "ended")
  BY <1>1, <1>2, <1>3 DEF Own, Steps, Early
<1>5. Types' /\ Whole'
  BY <1>1, <1>2, <1>3 DEF IInv, Types, Whole, Steps
<1>6. pc'[r] = "ended"
  BY <1>3 DEF IInv, Types
<1>7. Owned(r)'
  BY <1>1, <1>2, <1>6
     DEF IInv, Owned, Exposed, Keeping, Filled, AtStaging
<1>8. r \in installed' => Retains(r)'
  <2>1. r \in installed => Retains(r)
    BY DEF IInv, Types, Owned, Retains, Keeping, Filled
  <2> QED
    BY <1>1, <1>2, <2>1 DEF Retains
<1> QED
  BY <1>1, <1>4, <1>5, <1>7, <1>8, OwnStep

\* Or it goes on to a step that needs nothing it does not have.
LEMMA GoStep ==
    ASSUME IInv, NEW r \in Runs, UNCHANGED <<files, args, history>>,
           NEW step \in Steps \ {"ended"}, Goto(r, step), pc[r] # "ended",
           pc[r] \notin Early => step \notin Early,
           step \in Keeping => pc[r] \in Keeping \ {"backup.protect"},
           step \in Filled => pc[r] \in Filled,
           step \in AtStaging => pc[r] \in AtStaging \ {"staging.protect", "staging.write"},
           step = "backup.create" => captured[r] \in Protections,
           pc[r] = "resolve" => step = "read",
           pc[r] # "read",
           step \in {"install.staged", "install.rename"} /\ r \notin overtaken =>
               source # None /\ source.bytes = original[r],
           pc[r] \in {"verifyReplaced", "replaced"} =>
               step \in {"verifyReplaced", "replaced"}
    PROVE  IInv' /\ Own(r, step)
<1>1. UNCHANGED <<source, backup, staging, nextId, original, accepted, captured>>
  BY DEF files, args
<1>2. UNCHANGED <<edits, installed, overtaken, discarded>>
  BY DEF history
<1>3. pc' = [pc EXCEPT ![r] = step] /\ outcome' = outcome
  BY DEF Goto
<1>4. Own(r, step)
  BY <1>1, <1>2, <1>3 DEF Own
<1>5. Types' /\ Whole'
  BY <1>1, <1>2, <1>3 DEF IInv, Types, Whole
<1>6. pc'[r] = step /\ Owned(r)
  BY <1>3 DEF IInv, Types
<1>7. Owned(r)'
  BY <1>1, <1>2, <1>6 DEF Owned, Exposed, Keeping, Filled, AtStaging
<1>8. r \in installed' => Retains(r)'
  BY <1>1, <1>2, <1>6 DEF Owned, Retains, Keeping, Filled
<1> QED
  BY <1>1, <1>4, <1>5, <1>7, <1>8, OwnStep

\* The steps that only read, and the ends of a command.
LEMMA ReadingStep ==
    ASSUME IInv, NEW r \in Runs,
           \/ Resolve(r) \/ Cancel(r) \/ CommitRegular(r) \/ CommitOriginal(r)
           \/ CommitUnoccupied(r) \/ ReadStaged(r) \/ VerifySource(r)
           \/ VerifyArtifacts(r) \/ InstallRegular(r) \/ InstallOriginal(r)
           \/ InstallStaged(r) \/ VerifyReplaced(r) \/ ReadReplaced(r) \/ Stop(r)
    PROVE  IInv' /\ \E step \in Steps : Own(r, step)
<1> USE DEF Early, Keeping, Filled, AtStaging
<1>e. "ended" \in Steps
  BY DEF Steps
<1>o. Owned(r)
  BY DEF IInv
<1>c. ASSUME NEW from, NEW failure \in Outcomes \cup {None}, NEW next \in Steps \ {"ended"},
             Check(r, from, failure, next), from # "ended",
             failure = None /\ Goto(r, next) => IInv' /\ Own(r, next)
      PROVE  IInv' /\ \E step \in Steps : Own(r, step)
  BY <1>c, <1>e, EndStep DEF Check
<1>f. RegularFailure \in Outcomes \cup {None}
  BY DEF RegularFailure, Outcomes
<1>1. CASE Resolve(r)
  <2> DEFINE failure == IF RegularFailure # None THEN RegularFailure
                        ELSE IF Unoccupied THEN None ELSE "exists"
  <2>1. failure \in Outcomes \cup {None}
    BY <1>f DEF Outcomes
  <2>2. Check(r, "resolve", failure, "read")
    BY <1>1 DEF Resolve
  <2> HIDE DEF failure
  <2>3. Goto(r, "read") => IInv' /\ Own(r, "read")
    BY <2>2, GoStep DEF Check, Steps
  <2> QED
    BY <2>1, <2>2, <2>3, <1>c DEF Steps
<1>2. CASE Cancel(r)
  BY <1>2, <1>e, EndStep DEF Cancel, Outcomes
<1>3. CASE CommitRegular(r)
  <2>1. Check(r, "validated", RegularFailure, "original")
    BY <1>3 DEF CommitRegular
  <2>2. Goto(r, "original") => IInv' /\ Own(r, "original")
    BY <2>1, GoStep DEF Check, Steps
  <2> QED
    BY <2>1, <2>2, <1>f, <1>c DEF Steps
<1>4. CASE CommitOriginal(r)
  <2>1. /\ pc[r] = "original" /\ UNCHANGED <<files, args, history>>
        /\ End(r, "concurrent") \/ End(r, "unchanged") \/ Goto(r, "unoccupied")
    BY <1>4 DEF CommitOriginal
  <2>2. CASE Goto(r, "unoccupied")
    BY <2>1, <2>2, GoStep DEF Steps
  <2>3. CASE End(r, "concurrent") \/ End(r, "unchanged")
    BY <2>1, <2>3, <1>e, EndStep DEF Outcomes
  <2> QED
    BY <2>1, <2>2, <2>3
<1>5. CASE CommitUnoccupied(r)
  <2> DEFINE failure == IF Unoccupied THEN None ELSE "exists"
  <2>1. failure \in Outcomes \cup {None}
    BY DEF Outcomes
  <2>2. Check(r, "unoccupied", failure, "capture")
    BY <1>5 DEF CommitUnoccupied
  <2> HIDE DEF failure
  <2>3. Goto(r, "capture") => IInv' /\ Own(r, "capture")
    BY <2>2, GoStep, Zenon DEF Check, Steps
  <2> QED
    BY <2>1, <2>2, <2>3, <1>c DEF Steps
<1>6. CASE ReadStaged(r)
  <2> DEFINE failure == IF Holds(staging, accepted[r]) THEN None ELSE "operational"
  <2>1. failure \in Outcomes \cup {None}
    BY DEF Outcomes
  <2>2. Check(r, "staged", failure, "verifySource")
    BY <1>6 DEF ReadStaged
  <2> HIDE DEF failure
  <2>3. Goto(r, "verifySource") => IInv' /\ Own(r, "verifySource")
    BY <2>2, GoStep DEF Check, Steps
  <2> QED
    BY <2>1, <2>2, <2>3, <1>c, Zenon DEF Steps
<1>7. CASE VerifySource(r)
  <2> DEFINE failure == IF source = None THEN "operational"
                        ELSE IF source.id # captured[r].id THEN "concurrent"
                        ELSE IF Verified(r, source) THEN None ELSE "usage"
  <2>1. failure \in Outcomes \cup {None}
    BY DEF Outcomes
  <2>2. Check(r, "verifySource", failure, "verifyArtifacts")
    BY <1>7 DEF VerifySource
  <2> HIDE DEF failure
  <2>3. Goto(r, "verifyArtifacts") => IInv' /\ Own(r, "verifyArtifacts")
    BY <2>2, GoStep DEF Check, Steps
  <2> QED
    BY <2>1, <2>2, <2>3, <1>c DEF Steps
<1>8. CASE VerifyArtifacts(r)
  <2> DEFINE failure == IF Verified(r, backup) /\ Verified(r, staging) THEN None
                        ELSE "usage"
  <2>1. failure \in Outcomes \cup {None}
    BY DEF Outcomes
  <2>2. Check(r, "verifyArtifacts", failure, "install")
    BY <1>8 DEF VerifyArtifacts
  <2> HIDE DEF failure
  <2>3. Goto(r, "install") => IInv' /\ Own(r, "install")
    BY <2>2, GoStep, Zenon DEF Check, Steps
  <2> QED
    BY <2>1, <2>2, <2>3, <1>c DEF Steps
<1>9. CASE InstallRegular(r)
  <2>1. Check(r, "install", RegularFailure, "install.original")
    BY <1>9 DEF InstallRegular
  <2>2. Goto(r, "install.original") => IInv' /\ Own(r, "install.original")
    BY <2>1, GoStep DEF Check, Steps
  <2> QED
    BY <2>1, <2>2, <1>f, <1>c DEF Steps
<1>10. CASE InstallOriginal(r)
  <2> DEFINE failure == IF Holds(source, original[r]) THEN None ELSE "concurrent"
  <2>1. /\ failure \in Outcomes \cup {None}
        /\ failure = None => source # None /\ source.bytes = original[r]
    BY DEF Outcomes, Holds
  <2>2. Check(r, "install.original", failure, "install.staged")
    BY <1>10 DEF InstallOriginal
  <2> HIDE DEF failure
  <2>3. failure = None /\ Goto(r, "install.staged") => IInv' /\ Own(r, "install.staged")
    BY <2>1, <2>2, GoStep DEF Check, Steps
  <2> QED
    BY <2>1, <2>2, <2>3, <1>c DEF Steps
<1>11. CASE InstallStaged(r)
  <2> DEFINE failure == IF Holds(staging, accepted[r]) THEN None ELSE "concurrent"
  <2>1. failure \in Outcomes \cup {None}
    BY DEF Outcomes
  <2>2. Check(r, "install.staged", failure, "install.rename")
    BY <1>11 DEF InstallStaged
  <2> HIDE DEF failure
  <2>3. r \notin overtaken => source # None /\ source.bytes = original[r]
    BY <1>o, <2>2 DEF Check, Owned, Exposed
  <2>4. Goto(r, "install.rename") => IInv' /\ Own(r, "install.rename")
    BY <2>2, <2>3, GoStep DEF Check, Steps
  <2> QED
    BY <2>1, <2>2, <2>4, <1>c DEF Steps
<1>12. CASE VerifyReplaced(r)
  <2> DEFINE failure == IF source = None THEN "operational"
                        ELSE IF Verified(r, source) THEN None ELSE "usage"
  <2>1. failure \in Outcomes \cup {None}
    BY DEF Outcomes
  <2>2. Check(r, "verifyReplaced", failure, "replaced")
    BY <1>12 DEF VerifyReplaced
  <2> HIDE DEF failure
  <2>3. Goto(r, "replaced") => IInv' /\ Own(r, "replaced")
    BY <2>2, GoStep DEF Check, Steps
  <2> QED
    BY <2>1, <2>2, <2>3, <1>c DEF Steps
<1>13. CASE ReadReplaced(r)
  BY <1>13, <1>e, EndStep DEF ReadReplaced, Outcomes
<1>14. CASE Stop(r)
  BY <1>14, <1>e, EndStep DEF Stop, Outcomes
<1> QED
  BY <1>1, <1>2, <1>3, <1>4, <1>5, <1>6, <1>7, <1>8, <1>9, <1>10, <1>11, <1>12,
     <1>13, <1>14

\* Reading the source and capturing its policy.
LEMMA LearningStep ==
    ASSUME IInv, NEW r \in Runs, Read(r) \/ Capture(r)
    PROVE  IInv' /\ \E step \in Steps : Own(r, step)
<1> USE DEF Early, Keeping, Filled, AtStaging
<1>e. "ended" \in Steps
  BY DEF Steps
<1>1. ASSUME pc[r] \in {"read", "capture"}, UNCHANGED <<files, history>>, UNCHANGED args,
             NEW how \in Outcomes, End(r, how)
      PROVE  IInv' /\ \E step \in Steps : Own(r, step)
  BY <1>1, <1>e, EndStep
<1>2. ASSUME NEW step \in {"validated", "backup.create"}, Goto(r, step),
             pc[r] = IF step = "validated" THEN "read" ELSE "capture",
             UNCHANGED <<files, history>>,
             NEW o, NEW a, NEW c,
             original' = [original EXCEPT ![r] = o], o \in Texts,
             accepted' = [accepted EXCEPT ![r] = a], a \in Texts,
             captured' = [captured EXCEPT ![r] = c], c \in Protections \cup {None},
             step = "backup.create" => c \in Protections
      PROVE  IInv' /\ \E s \in Steps : Own(r, s)
  <2>1. UNCHANGED <<source, backup, staging, nextId, edits, installed, overtaken, discarded>>
    BY <1>2 DEF files, history
  <2>2. pc' = [pc EXCEPT ![r] = step] /\ outcome' = outcome /\ step \in Steps
    BY <1>2 DEF Goto, Steps
  <2>3. Own(r, step)
    BY <1>2, <2>1, <2>2 DEF Own, IInv, Types
  <2>4. Types' /\ Whole'
    BY <1>2, <2>1, <2>2 DEF IInv, Types, Whole
  <2>5. pc'[r] = step /\ original'[r] = o /\ accepted'[r] = a /\ captured'[r] = c
    BY <1>2, <2>2 DEF IInv, Types
  <2>6. r \notin installed'
    BY <1>2, <2>1, Zenon DEF IInv, Owned
  <2>7. Owned(r)'
    BY <1>2, <2>5, <2>6 DEF Owned, Exposed
  <2> QED
    BY <2>1, <2>2, <2>3, <2>4, <2>6, <2>7, OwnStep
<1>3. CASE Read(r)
  <2>1. CASE source = None
    BY <1>1, <1>3, <2>1 DEF Read, Outcomes, args
  <2>2. CASE source # None
    <3>1. /\ pc[r] = "read" /\ Goto(r, "validated") /\ UNCHANGED <<files, history>>
          /\ original' = [original EXCEPT ![r] = source.bytes]
          /\ captured' = captured
      BY <1>3, <2>2 DEF Read
    <3>2. PICK t \in Texts : accepted' = [accepted EXCEPT ![r] = t]
      BY <1>3, <2>2 DEF Read
    <3>3. /\ source.bytes \in Texts /\ captured[r] \in Protections \cup {None}
          /\ captured' = [captured EXCEPT ![r] = captured[r]]
      BY <2>2, <3>1 DEF IInv, Whole, Types
    <3> QED
      BY <1>2, <3>1, <3>2, <3>3, Zenon
  <2> QED
    BY <2>1, <2>2
<1>4. CASE Capture(r)
  <2>1. CASE source = None \/ source.links # 1
    BY <1>1, <1>4, <2>1, Zenon DEF Capture, Outcomes, args
  <2>2. CASE source # None /\ source.links = 1
    <3> DEFINE c == [id |-> source.id, mode |-> source.mode]
    <3>1. /\ pc[r] = "capture" /\ Goto(r, "backup.create")
          /\ UNCHANGED <<files, history, original, accepted>>
          /\ captured' = [captured EXCEPT ![r] = c]
      BY <1>4, <2>2, Zenon DEF Capture
    <3>2. original[r] \in Texts /\ accepted[r] \in Texts
      BY <3>1, Zenon DEF IInv, Owned
    <3>3. /\ original' = [original EXCEPT ![r] = original[r]]
          /\ accepted' = [accepted EXCEPT ![r] = accepted[r]]
      BY <3>1, Zenon DEF IInv, Types
    <3>4. c \in Protections
      BY <2>2, Zenon DEF Protections, IInv, Types, Whole, Files
    <3> HIDE DEF c
    <3> QED
      BY <1>2, <3>1, <3>2, <3>3, <3>4, Zenon
  <2> QED
    BY <2>1, <2>2
<1> QED
  BY <1>3, <1>4

\* A file as it is created.
LEMMA NewFileSound ==
    ASSUME Types, NEW r \in Runs
    PROVE  LET f == NewFile("empty", "0600", r)
           IN  f \in Files /\ f # None /\ f.owner = r /\ f.bytes = "empty"
  BY SMTT(60) DEF NewFile, Files, Types

\* The backup is created, protected and filled.
LEMMA BackupStep ==
    ASSUME IInv, NEW r \in Runs, CreateBackup(r) \/ ProtectBackup(r) \/ WriteBackup(r)
    PROVE  IInv' /\ \E step \in Steps : Own(r, step)
<1> USE DEF Early, Keeping, Filled, AtStaging
<1>o. Owned(r) /\ Types /\ Whole
  BY DEF IInv
<1>1. ASSUME NEW step \in Steps, pc' = [pc EXCEPT ![r] = step],
             NEW how, outcome' = [outcome EXCEPT ![r] = how], how \in Outcomes \cup {None},
             how # None <=> step = "ended",
             pc[r] \in {"backup.create", "backup.protect", "backup.write"},
             step \in {"backup.protect", "backup.write", "staging.create", "ended"},
             NEW f \in Files, backup' = f, f.owner = r, backup = None \/ backup.owner = r,
             f.bytes = "empty" \/ step # "backup.protect",
             step # "backup.protect" => f.mode = captured[r].mode,
             step = "staging.create" => f.bytes = original[r],
             source' = source, staging' = staging, nextId' \in Nat,
             UNCHANGED <<args, history>>
      PROVE  IInv' /\ \E s \in Steps : Own(r, s)
  <2>1. UNCHANGED <<original, accepted, captured, edits, installed, overtaken, discarded>>
    BY <1>1 DEF args, history
  <2>2. Own(r, step)
    BY <1>1, <2>1 DEF Own
  <2>3. Types' /\ Whole'
    BY <1>1, <1>o, <2>1 DEF Types, Whole
  <2>4. pc'[r] = step /\ f # None /\ captured[r] \in Protections
    BY <1>1, <1>o DEF Types, Owned
  <2>5. original[r] \in Texts /\ accepted[r] \in Texts /\ r \notin installed
    BY <1>1, <1>o DEF Owned
  <2>6. Owned(r)'
    BY <1>1, <2>1, <2>4, <2>5 DEF Owned, Exposed
  <2>7. FileSound(backup)'
    BY <1>1, <2>1, <2>4 DEF FileSound
  <2> QED
    BY <1>1, <2>1, <2>2, <2>3, <2>5, <2>6, <2>7, OwnStep
<1>n. outcome' = outcome /\ pc[r] # "ended" =>
        outcome' = [outcome EXCEPT ![r] = None] /\ None \in Outcomes \cup {None}
  BY <1>o DEF Types
<1>2. CASE CreateBackup(r)
  <2>1. CASE backup # None
    BY <1>2, <2>1, EndStep DEF CreateBackup, Outcomes, Steps
  <2>2. CASE backup = None
    <3>1. /\ pc[r] = "backup.create" /\ Goto(r, "backup.protect")
          /\ backup' = NewFile("empty", "0600", r) /\ nextId' = nextId + 1
          /\ UNCHANGED <<source, staging>> /\ UNCHANGED <<args, history>>
      BY <1>2, <2>2 DEF CreateBackup
    <3>2. /\ backup' \in Files /\ backup'.owner = r /\ backup'.bytes = "empty"
          /\ nextId' \in Nat
      BY <1>o, <3>1, NewFileSound DEF Types
    <3> QED
      BY <1>1, <1>n, <2>2, <3>1, <3>2 DEF Goto, Steps
  <2> QED
    BY <2>1, <2>2
<1>3. CASE ProtectBackup(r)
  <2>1. /\ pc[r] = "backup.protect" /\ Goto(r, "backup.write")
        /\ backup' = [backup EXCEPT !.mode = captured[r].mode]
        /\ UNCHANGED <<source, staging, nextId>> /\ UNCHANGED <<args, history>>
    BY <1>3 DEF ProtectBackup
  <2>2. /\ backup \in Files /\ backup.owner = r /\ captured[r] \in Protections
        /\ nextId \in Nat
    BY <1>o, <2>1 DEF Owned, Types
  <2>3. backup' \in Files /\ backup'.owner = r /\ backup'.mode = captured[r].mode
    BY <2>1, <2>2 DEF Files, Protections
  <2> QED
    BY <1>1, <1>n, <2>1, <2>2, <2>3, Zenon DEF Goto, Steps
<1>4. CASE WriteBackup(r)
  <2>1. pc[r] = "backup.write" /\ UNCHANGED <<source, staging, nextId>>
        /\ UNCHANGED <<args, history>>
    BY <1>4 DEF WriteBackup
  <2>2. /\ backup \in Files /\ backup.owner = r /\ backup.mode = captured[r].mode
        /\ original[r] \in Texts /\ nextId \in Nat
    BY <1>o, <2>1, Zenon DEF Owned, Types
  <2>3. CASE /\ backup' = [backup EXCEPT !.bytes = original[r]]
             /\ Goto(r, "staging.create")
    <3>1. /\ backup' \in Files /\ backup'.owner = r /\ backup'.mode = captured[r].mode
          /\ backup'.bytes = original[r]
      BY <2>2, <2>3 DEF Files
    <3> QED
      BY <1>1, <1>n, <2>1, <2>2, <2>3, <3>1, Zenon DEF Goto, Steps
  <2>4. CASE /\ backup' = [backup EXCEPT !.bytes = "partial"]
             /\ End(r, "operational")
    <3>1. backup' \in Files /\ backup'.owner = r /\ backup'.mode = captured[r].mode
      BY <2>2, <2>4 DEF Files
    <3> QED
      BY <1>1, <2>1, <2>2, <2>4, <3>1, Zenon DEF End, Steps, Outcomes
  <2> QED
    BY <1>4, <2>3, <2>4 DEF WriteBackup
<1> QED
  BY <1>2, <1>3, <1>4

\* The staging file is created, protected and filled.
LEMMA StagingStep ==
    ASSUME IInv, NEW r \in Runs, CreateStaging(r) \/ ProtectStaging(r) \/ WriteStaging(r)
    PROVE  IInv' /\ \E step \in Steps : Own(r, step)
<1> USE DEF Early, Keeping, Filled, AtStaging
<1>o. Owned(r) /\ Types /\ Whole
  BY DEF IInv
<1>1. ASSUME NEW step \in Steps, pc' = [pc EXCEPT ![r] = step],
             NEW how, outcome' = [outcome EXCEPT ![r] = how], how \in Outcomes \cup {None},
             how # None <=> step = "ended",
             pc[r] \in {"staging.create", "staging.protect", "staging.write"},
             step \in {"staging.protect", "staging.write", "staged", "ended"},
             NEW f \in Files, staging' = f, f.owner = r, staging = None \/ staging.owner = r,
             f.bytes = "empty" \/ step # "staging.protect",
             step # "staging.protect" => f.mode = captured[r].mode,
             step = "staged" => f.bytes = accepted[r],
             source' = source, backup' = backup, nextId' \in Nat,
             UNCHANGED <<args, history>>
      PROVE  IInv' /\ \E s \in Steps : Own(r, s)
  <2>1. UNCHANGED <<original, accepted, captured, edits, installed, overtaken, discarded>>
    BY <1>1 DEF args, history
  <2>2. Own(r, step)
    BY <1>1, <2>1 DEF Own
  <2>3. Types' /\ Whole'
    BY <1>1, <1>o, <2>1 DEF Types, Whole
  <2>4. pc'[r] = step /\ f # None /\ captured[r] \in Protections
    BY <1>1, <1>o, Zenon DEF Types, Owned
  <2>5. original[r] \in Texts /\ accepted[r] \in Texts /\ r \notin installed
    BY <1>1, <1>o DEF Owned
  <2>6. Owned(r)'
    BY <1>1, <1>o, <2>1, <2>4, <2>5, Zenon DEF Owned, Exposed
  <2>7. FileSound(staging)'
    BY <1>1, <2>1, <2>4 DEF FileSound
  <2> QED
    BY <1>1, <2>1, <2>2, <2>3, <2>5, <2>6, <2>7, OwnStep
<1>n. outcome' = outcome /\ pc[r] # "ended" =>
        outcome' = [outcome EXCEPT ![r] = None] /\ None \in Outcomes \cup {None}
  BY <1>o DEF Types
<1>2. CASE CreateStaging(r)
  <2>1. CASE staging # None
    BY <1>2, <2>1, EndStep DEF CreateStaging, Outcomes, Steps
  <2>2. CASE staging = None
    <3>1. /\ pc[r] = "staging.create" /\ Goto(r, "staging.protect")
          /\ staging' = NewFile("empty", "0600", r) /\ nextId' = nextId + 1
          /\ UNCHANGED <<source, backup>> /\ UNCHANGED <<args, history>>
      BY <1>2, <2>2 DEF CreateStaging
    <3>2. /\ staging' \in Files /\ staging'.owner = r /\ staging'.bytes = "empty"
          /\ nextId' \in Nat
      BY <1>o, <3>1, NewFileSound DEF Types
    <3> QED
      BY <1>1, <1>n, <2>2, <3>1, <3>2 DEF Goto, Steps
  <2> QED
    BY <2>1, <2>2
<1>3. CASE ProtectStaging(r)
  <2>1. /\ pc[r] = "staging.protect" /\ Goto(r, "staging.write")
        /\ staging' = [staging EXCEPT !.mode = captured[r].mode]
        /\ UNCHANGED <<source, backup, nextId>> /\ UNCHANGED <<args, history>>
    BY <1>3 DEF ProtectStaging
  <2>2. /\ staging \in Files /\ staging.owner = r /\ captured[r] \in Protections
        /\ nextId \in Nat
    BY <1>o, <2>1 DEF Owned, Types
  <2>3. staging' \in Files /\ staging'.owner = r /\ staging'.mode = captured[r].mode
    BY <2>1, <2>2 DEF Files, Protections
  <2> QED
    BY <1>1, <1>n, <2>1, <2>2, <2>3, Zenon DEF Goto, Steps
<1>4. CASE WriteStaging(r)
  <2>1. pc[r] = "staging.write" /\ UNCHANGED <<source, backup, nextId>>
        /\ UNCHANGED <<args, history>>
    BY <1>4 DEF WriteStaging
  <2>2. /\ staging \in Files /\ staging.owner = r /\ staging.mode = captured[r].mode
        /\ accepted[r] \in Texts /\ nextId \in Nat
    BY <1>o, <2>1 DEF Owned, Types
  <2>3. CASE /\ staging' = [staging EXCEPT !.bytes = accepted[r]]
             /\ Goto(r, "staged")
    <3>1. /\ staging' \in Files /\ staging'.owner = r /\ staging'.mode = captured[r].mode
          /\ staging'.bytes = accepted[r]
      BY <2>2, <2>3 DEF Files
    <3> QED
      BY <1>1, <1>n, <2>1, <2>2, <2>3, <3>1, Zenon DEF Goto, Steps
  <2>4. CASE /\ staging' = [staging EXCEPT !.bytes = "partial"]
             /\ End(r, "operational")
    <3>1. staging' \in Files /\ staging'.owner = r /\ staging'.mode = captured[r].mode
      BY <2>2, <2>4 DEF Files
    <3> QED
      BY <1>1, <2>1, <2>2, <2>4, <3>1, Zenon DEF End, Steps, Outcomes
  <2> QED
    BY <1>4, <2>3, <2>4 DEF WriteStaging
<1> QED
  BY <1>2, <1>3, <1>4

\* The staging file takes the place of the source.
LEMMA RenameStep ==
    ASSUME IInv, NEW r \in Runs, Rename(r)
    PROVE  IInv' /\ \E step \in Steps : Own(r, step)
<1> USE DEF Early, Keeping, Filled, AtStaging
<1> DEFINE step == "verifyReplaced"
<1>o. Owned(r) /\ Types
  BY DEF IInv
<1>1. /\ pc[r] = "install.rename" /\ pc' = [pc EXCEPT ![r] = step] /\ outcome' = outcome
      /\ source' = staging /\ staging' = None /\ installed' = installed \cup {r}
      /\ UNCHANGED <<backup, nextId, original, accepted, captured>>
      /\ UNCHANGED <<edits, overtaken, discarded>>
  BY DEF Rename, Goto, args
<1>2. /\ staging # None /\ staging.owner = r /\ staging.bytes \in Texts
      /\ staging.mode \in Modes /\ captured[r] \in Protections
  BY <1>o, <1>1 DEF Owned, Protections
<1>3. Own(r, step) /\ step \in Steps
  BY <1>1, <1>2 DEF Own, Steps
<1>4. Types' /\ Whole'
  BY <1>o, <1>1, <1>2, <1>3 DEF Types, Whole
<1>5. pc'[r] = step
  BY <1>o, <1>1 DEF Types
<1>6. Owned(r)' /\ Retains(r)'
  BY <1>o, <1>1, <1>5 DEF Owned, Exposed, Retains
<1>7. FileSound(staging)'
  BY <1>1 DEF FileSound
<1> QED
  BY <1>1, <1>3, <1>4, <1>6, <1>7, OwnStep

-----------------------------------------------------------------------------
(* Other programs and the user.                                            *)

\* A change of the source by another program.
LEMMA EditStep ==
    ASSUME IInv, Edit
    PROVE  IInv' /\ UNCHANGED <<backup, staging, pc, installed>>
<1>1. ASSUME NEW file \in Files \cup {None}, EditTo(file), nextId' \in Nat,
             file # None => file.bytes \in Texts /\ file.mode \in Modes
      PROVE  IInv' /\ UNCHANGED <<backup, staging, pc, installed>>
  <2>1. /\ UNCHANGED <<backup, staging, pc, original, accepted, captured>>
        /\ UNCHANGED <<outcome, installed, discarded>>
        /\ source' = file /\ edits' \in 0..MaxEdits /\ overtaken' = overtaken \cup Exposed
    <3>1. /\ UNCHANGED <<backup, staging, pc, original, accepted, captured>>
          /\ UNCHANGED <<outcome, installed, discarded>>
          /\ source' = file /\ overtaken' = overtaken \cup Exposed
      BY <1>1, Zenon DEF EditTo, args
    <3>2. edits < MaxEdits /\ edits' = edits + 1
      BY <1>1, Zenon DEF EditTo
    <3>3. edits \in 0..MaxEdits
      BY Zenon DEF IInv, Types
    <3>4. edits' \in 0..MaxEdits
      BY <3>2, <3>3, ReplaceAssumption
    <3> QED
      BY <3>1, <3>4, Zenon
  <2>2. Types' /\ Whole'
    BY <1>1, <2>1, Zenon DEF IInv, Types, Whole, Exposed
  <2>3. ASSUME NEW r \in Runs PROVE Owned(r)'
    BY <2>1, Zenon DEF IInv, Owned, Exposed
  <2>4. FileSound(backup)' /\ FileSound(staging)'
    BY <2>1, Zenon DEF IInv, FileSound
  <2>5. \A r \in installed' \ discarded' : Retains(r)'
    BY <2>1, Zenon DEF IInv, Retains
  <2> QED
    BY <2>1, <2>2, <2>3, <2>4, <2>5 DEF IInv
<1>2. source # None => source \in Files /\ source.bytes \in Texts /\ source.mode \in Modes
  BY DEF IInv, Types, Whole
<1>3. nextId \in Nat
  BY DEF IInv, Types
<1>4. ASSUME NEW t \in Texts, NEW m \in Modes, EditTo(NewFile(t, m, None)),
             nextId' = nextId + 1
      PROVE  IInv' /\ UNCHANGED <<backup, staging, pc, installed>>
  <2>1. /\ NewFile(t, m, None) \in Files
        /\ NewFile(t, m, None).bytes = t /\ NewFile(t, m, None).mode = m
    BY <1>3 DEF NewFile, Files
  <2> QED
    BY <1>1, <1>3, <1>4, <2>1
<1>5. ASSUME source # None, nextId' = nextId, NEW t \in Texts,
             EditTo([source EXCEPT !.bytes = t])
      PROVE  IInv' /\ UNCHANGED <<backup, staging, pc, installed>>
  <2> DEFINE f == [source EXCEPT !.bytes = t]
  <2>1. f \in Files /\ f.bytes = t /\ f.mode = source.mode
    BY <1>2, <1>5 DEF Files
  <2> QED
    BY <1>1, <1>2, <1>3, <1>5, <2>1, Zenon
<1>6. ASSUME source # None, nextId' = nextId, NEW m \in Modes,
             EditTo([source EXCEPT !.mode = m])
      PROVE  IInv' /\ UNCHANGED <<backup, staging, pc, installed>>
  <2> DEFINE f == [source EXCEPT !.mode = m]
  <2>1. f \in Files /\ f.bytes = source.bytes /\ f.mode = m
    BY <1>2, <1>6 DEF Files
  <2> QED
    BY <1>1, <1>2, <1>3, <1>6, <2>1, Zenon
<1>7. ASSUME source # None, nextId' = nextId, EditTo([source EXCEPT !.links = 3 - source.links])
      PROVE  IInv' /\ UNCHANGED <<backup, staging, pc, installed>>
  <2> DEFINE f == [source EXCEPT !.links = 3 - source.links]
  <2>1. f \in Files /\ f.bytes = source.bytes /\ f.mode = source.mode
    BY <1>2, <1>7 DEF Files
  <2> QED
    BY <1>1, <1>2, <1>3, <1>7, <2>1, Zenon
<1>8. ASSUME nextId' = nextId, EditTo(None)
      PROVE  IInv' /\ UNCHANGED <<backup, staging, pc, installed>>
  BY <1>1, <1>3, <1>8
<1> QED
  BY <1>4, <1>5, <1>6, <1>7, <1>8, Zenon DEF Edit

\* The user removes what an ended command left.
LEMMA DiscardStep ==
    ASSUME IInv, Discard
    PROVE  IInv' /\ UNCHANGED <<source, pc, installed>>
<1>1. /\ UNCHANGED <<source, nextId, pc, original, accepted, captured>>
      /\ UNCHANGED <<outcome, edits, installed, overtaken>>
  BY Zenon DEF Discard, args
<1>2. \/ /\ backup # None /\ outcome[backup.owner] # None
         /\ backup' = None /\ discarded' = discarded \cup {backup.owner}
         /\ staging' = staging
      \/ /\ staging # None /\ outcome[staging.owner] # None
         /\ staging' = None /\ backup' = backup /\ discarded' = discarded
  BY DEF Discard
<1>3. /\ backup' # backup => pc[backup.owner] = "ended" /\ backup.owner \in Runs
      /\ staging' # staging => pc[staging.owner] = "ended"
  BY <1>2, Zenon DEF IInv, Types, FileSound
<1>4. Types' /\ Whole'
  BY <1>1, <1>2, <1>3, Zenon DEF IInv, Types, Whole
<1>5. FileSound(backup)' /\ FileSound(staging)'
  BY <1>1, <1>2, Zenon DEF IInv, FileSound
<1>6. ASSUME NEW r \in Runs PROVE Owned(r)'
  <2>1. /\ Owned(r)
        /\ pc[r] \in Keeping => backup' = backup
        /\ pc[r] \in AtStaging => staging' = staging
    BY <1>3, Zenon DEF IInv, Owned, Keeping, Filled, AtStaging
  <2> QED
    BY <1>1, <2>1, Zenon DEF Owned, Exposed, Keeping, Filled
<1>7. \A r \in installed' \ discarded' : Retains(r)'
  BY <1>1, <1>2, Zenon DEF IInv, Retains
<1> QED
  BY <1>1, <1>4, <1>5, <1>6, <1>7 DEF IInv

-----------------------------------------------------------------------------
(* The theorems.                                                           *)

\* Every step of a command keeps the invariant and is a step of its own.
LEMMA CommandStep ==
    ASSUME IInv, NEW r \in Runs, Run(r) \/ Stop(r)
    PROVE  IInv' /\ \E step \in Steps : Own(r, step)
  BY ReadingStep, LearningStep, BackupStep, StagingStep, RenameStep DEF Run

\* The source is whole and there are no other files initially.
LEMMA InitIInv == Init => IInv
<1> SUFFICES ASSUME Init PROVE IInv
  OBVIOUS
<1>1. PICK t \in Texts, m \in Modes :
        source = [id |-> 0, bytes |-> t, mode |-> m, links |-> 1, owner |-> None]
  BY DEF Init
<1>2. source \in Files /\ source.bytes = t /\ source.mode = m
  BY <1>1, SMTT(60) DEF Files
<1>3. Types /\ Whole
  <2>1. nextId \in Nat /\ edits \in 0..MaxEdits
    BY ReplaceAssumption DEF Init
  <2>2. pc \in [Runs -> Steps] /\ \A r \in Runs : outcome[r] = None /\ pc[r] # "ended"
    BY DEF Init, Steps
  <2> QED
    BY <1>2, <2>1, <2>2, Zenon DEF Init, Types, Whole
<1>4. \A r \in Runs : Owned(r)
  <2>1. \A r \in Runs : pc[r] = "resolve" /\ r \notin installed
    BY Zenon DEF Init
  <2>2. /\ "resolve" \notin Keeping \cup {"backup.create"}
        /\ "resolve" \notin Filled /\ "resolve" \notin AtStaging
    BY DEF Keeping, Filled, AtStaging
  <2> QED
    BY <2>1, <2>2 DEF Owned, Exposed, Keeping, Filled, AtStaging
<1> QED
  BY <1>3, <1>4 DEF Init, IInv, FileSound

\* Every step keeps the invariant.
LEMMA NextIInv == IInv /\ [Next]_vars => IInv'
<1> SUFFICES ASSUME IInv, [Next]_vars PROVE IInv'
  OBVIOUS
<1>1. CASE Next
  BY <1>1, CommandStep, EditStep, DiscardStep DEF Next
<1>2. CASE UNCHANGED vars
  <2>1. /\ UNCHANGED <<source, backup, staging, nextId, pc, original, accepted>>
        /\ UNCHANGED <<captured, outcome, edits, installed, overtaken, discarded>>
    BY <1>2 DEF vars, files, args, history
  <2>2. Types' /\ Whole'
    BY <2>1, Zenon DEF IInv, Types, Whole
  <2>3. FileSound(backup)' /\ FileSound(staging)'
    BY <2>1, Zenon DEF IInv, FileSound
  <2>4. \A r \in Runs : Owned(r)'
    BY <2>1, Zenon DEF IInv, Owned, Exposed
  <2>5. \A r \in installed' \ discarded' : Retains(r)'
    BY <2>1, Zenon DEF IInv, Retains
  <2> QED
    BY <2>2, <2>3, <2>4, <2>5 DEF IInv
<1> QED
  BY <1>1, <1>2

\* The inductive invariant holds for any number of commands, texts and modes.
THEOREM Invariance == Spec => []IInv
  BY InitIInv, NextIInv, PTL DEF Spec

\* No document is lost or exposed by --in-place: the source is never part of
\* one, what is beside it is under the captured policy as soon as it holds
\* anything, and what a rename replaced stays in the backup (replace.rs:141,
\* protection.rs:57).
THEOREM OriginalKept == Spec => []OriginalRetained
<1>1. IInv => OriginalRetained
  <2> SUFFICES ASSUME IInv PROVE OriginalRetained
    OBVIOUS
  <2>1. TypeOK
    BY DEF IInv, Types, TypeOK
  <2>2. \A file \in {backup, staging} \ {None} :
          file.bytes # "empty" => file.mode = captured[file.owner].mode
    BY DEF IInv, FileSound
  <2> QED
    BY <2>1, <2>2, Zenon DEF IInv, Whole, Retains, OriginalRetained
<1> QED
  BY <1>1, Invariance, PTL

\* A rename puts the accepted bytes where the validated ones were, unless
\* another program wrote after the last comparison (replace.rs:206).
THEOREM ValidatedReplaced == Spec => ReplacesValidatedBytes
<1> DEFINE Validated(r) ==
      /\ source'.bytes = accepted[r] /\ source'.mode = captured[r].mode
      /\ r \notin overtaken => source # None /\ source.bytes = original[r]
<1>1. IInv /\ [Next]_vars => [\A r \in installed' \ installed : Validated(r)]_vars
  <2> SUFFICES ASSUME IInv, Next, NEW r \in installed' \ installed
               PROVE  Validated(r)
    OBVIOUS
  <2>1. PICK p \in Runs : Run(p) \/ Stop(p)
    BY EditStep, DiscardStep DEF Next
  <2>2. Rename(p)
    BY <2>1, Zenon DEF Run, Stop, Check, Resolve, Read, Cancel, CommitRegular, CommitOriginal,
         CommitUnoccupied, Capture, CreateBackup, ProtectBackup, WriteBackup,
         CreateStaging, ProtectStaging, WriteStaging, ReadStaged, VerifySource,
         VerifyArtifacts, InstallRegular, InstallOriginal, InstallStaged,
         VerifyReplaced, ReadReplaced, history
  <2>3. p = r /\ pc[r] = "install.rename" /\ source' = staging
    BY <2>2 DEF Rename
  <2>4. Owned(r)
    BY <2>1, <2>3 DEF IInv
  <2> QED
    BY <2>1, <2>3, <2>4 DEF Owned, Exposed, AtStaging
<1> QED
  BY <1>1, Invariance, PTL DEF Spec, ReplacesValidatedBytes

\* A command only ever changes files it created itself (replace.rs:146,
\* protection.rs:60).
THEOREM OthersFilesKept == Spec => OwnFilesOnly
<1> DEFINE Keeps(r) ==
      pc'[r] # pc[r] =>
          /\ backup # None /\ backup' # backup => backup.owner = r
          /\ staging # None /\ staging' # staging => staging.owner = r
<1>1. IInv /\ [Next]_vars => [\A r \in Runs : Keeps(r)]_vars
  <2> SUFFICES ASSUME IInv, Next, NEW r \in Runs, pc'[r] # pc[r]
               PROVE  Keeps(r)
    OBVIOUS
  <2>1. PICK p \in Runs : Run(p) \/ Stop(p)
    BY EditStep, DiscardStep DEF Next
  <2>2. PICK step \in Steps : Own(p, step)
    BY <2>1, CommandStep
  <2>3. p = r
    BY <2>2, Zenon DEF Own, IInv, Types
  <2> QED
    BY <2>2, <2>3 DEF Own
<1> QED
  BY <1>1, Invariance, PTL DEF Spec, OwnFilesOnly

-----------------------------------------------------------------------------
(* What the outcome of a command tells, and commands among themselves.     *)

\* How a command may end once it has renamed its staging file.
Late == {"usage", "operational", "killed", "replaced"}

\* Whether a command has replaced the source shows in its step and its outcome.
Told(r) ==
    /\ pc[r] \in {"verifyReplaced", "replaced"} => r \in installed
    /\ pc[r] = "ended" /\ r \in installed => outcome[r] \in Late
    /\ outcome[r] = "replaced" => r \in installed

\* Only an edit comes between a command's last check and its rename.
Quiet == edits = 0 => overtaken = {}

\* The invariant IInv, strengthened by both.
RInv == IInv /\ Quiet /\ \A r \in Runs : Told(r)

\* The outcome tells what became of the source: a command that reports
\* "replaced" has renamed, and one that reports a missing input, an occupied
\* name, a concurrent modification, a cancellation or unchanged bytes has not
\* (replace.rs:141-222).  Usage and operational errors, and a kill, may come
\* before or after the rename.
OutcomeTells ==
    \A r \in Runs :
        /\ outcome[r] = "replaced" => r \in installed
        /\ outcome[r] \in {"input", "exists", "concurrent", "cancelled", "unchanged"} =>
              r \notin installed

\* The exclusively created backup is a lock: two commands are never both between
\* the creation of their backup and their end (protection.rs:60).
OneCommits ==
    \A r, q \in Runs : pc[r] \in Keeping /\ pc[q] \in Keeping => r = q

\* Commands that no other program disturbs take effect one after the other: each
\* replaces exactly the bytes that it read, so none loses the result of another.
CommandsSerialise ==
    [][edits = 0 => \A r \in installed' \ installed :
          source # None /\ source.bytes = original[r] /\ source'.bytes = accepted[r]]_vars

-----------------------------------------------------------------------------
\* How a step of a command that is not the rename may go on or end.
Plain(r) ==
    /\ UNCHANGED history
    /\ \/ \E step \in Steps \ {"ended", "verifyReplaced"} :
             Goto(r, step) /\ (step = "replaced" => pc[r] = "verifyReplaced")
       \/ \E how \in Outcomes :
             /\ End(r, how)
             /\ pc[r] \in {"verifyReplaced", "replaced"} => how \in Late
             /\ how = "replaced" => pc[r] = "replaced"

\* A step that only reads.
LEMMA CheckPlain ==
    ASSUME NEW r \in Runs, NEW step, NEW failure, NEW next, Check(r, step, failure, next),
           next \in Steps \ {"ended", "verifyReplaced"},
           next = "replaced" => step = "verifyReplaced",
           failure # None => failure \in Outcomes \ {"replaced"},
           failure # None /\ step = "verifyReplaced" => failure \in Late,
           step # "replaced"
    PROVE  Plain(r)
<1>1. UNCHANGED history /\ pc[r] = step
  BY DEF Check
<1>2. CASE failure = None
  BY <1>1, <1>2, Zenon DEF Check, Plain
<1>3. CASE failure # None
  <2>1. End(r, failure)
    BY <1>3, Zenon DEF Check
  <2>2. pc[r] \in {"verifyReplaced", "replaced"} => failure \in Late
    BY <1>1, <1>3, Zenon
  <2> QED
    BY <1>1, <1>3, <2>1, <2>2, Zenon DEF Plain
<1> QED
  BY <1>2, <1>3

\* Every step of a command but the rename is such a step.
LEMMA RunPlain ==
    ASSUME NEW r \in Runs, Run(r) \/ Stop(r), ~Rename(r)
    PROVE  Plain(r)
<1>0. RegularFailure # None => RegularFailure \in {"input", "usage"}
  BY DEF RegularFailure
<1>1. CASE \/ Resolve(r) \/ CommitRegular(r) \/ InstallRegular(r)
  <2>1. CASE Resolve(r)
    <3> DEFINE f == IF RegularFailure # None THEN RegularFailure
                    ELSE IF Unoccupied THEN None ELSE "exists"
    <3>1. f # None => f \in {"input", "usage", "exists"}
      BY <1>0, Zenon
    <3>2. Check(r, "resolve", f, "read")
      BY <2>1 DEF Resolve
    <3> HIDE DEF f
    <3> QED
      BY <3>1, <3>2, CheckPlain DEF Steps, Outcomes, Late
  <2>2. CASE CommitRegular(r)
    <3> DEFINE f == RegularFailure
    <3>1. Check(r, "validated", f, "original")
      BY <2>2 DEF CommitRegular
    <3>2. f # None => f \in {"input", "usage"}
      BY <1>0
    <3> HIDE DEF f
    <3> QED
      BY <3>1, <3>2, CheckPlain DEF Steps, Outcomes, Late
  <2>3. CASE InstallRegular(r)
    <3> DEFINE f == RegularFailure
    <3>1. Check(r, "install", f, "install.original")
      BY <2>3 DEF InstallRegular
    <3>2. f # None => f \in {"input", "usage"}
      BY <1>0
    <3> HIDE DEF f
    <3> QED
      BY <3>1, <3>2, CheckPlain DEF Steps, Outcomes, Late
  <2> QED
    BY <1>1, <2>1, <2>2, <2>3, Zenon
<1>2. ASSUME NEW step, NEW next, NEW f, Check(r, step, f, next),
             <<step, next>> \in {<<"unoccupied", "capture">>, <<"staged", "verifySource">>,
                 <<"verifySource", "verifyArtifacts">>, <<"verifyArtifacts", "install">>,
                 <<"install.original", "install.staged">>,
                 <<"install.staged", "install.rename">>, <<"verifyReplaced", "replaced">>},
             f # None => f \in {"exists", "operational", "usage", "concurrent"},
             f # None /\ step = "verifyReplaced" => f \in {"operational", "usage"}
      PROVE  Plain(r)
  <2>1. /\ next \in Steps \ {"ended", "verifyReplaced"} /\ step # "replaced"
        /\ next = "replaced" => step = "verifyReplaced"
    BY <1>2 DEF Steps
  <2>2. f # None => f \in Outcomes \ {"replaced"}
    BY <1>2 DEF Outcomes
  <2>3. f # None /\ step = "verifyReplaced" => f \in Late
    BY <1>2 DEF Late
  <2> QED
    BY <1>2, <2>1, <2>2, <2>3, CheckPlain, Zenon
<1>3. CASE \/ CommitUnoccupied(r) \/ ReadStaged(r) \/ VerifyArtifacts(r)
           \/ InstallOriginal(r) \/ InstallStaged(r)
  <2>1. PICK good \in BOOLEAN, bad \in {"exists", "operational", "usage", "concurrent"} :
          \/ Check(r, "unoccupied", IF good THEN None ELSE bad, "capture")
          \/ Check(r, "staged", IF good THEN None ELSE bad, "verifySource")
          \/ Check(r, "verifyArtifacts", IF good THEN None ELSE bad, "install")
          \/ Check(r, "install.original", IF good THEN None ELSE bad, "install.staged")
          \/ Check(r, "install.staged", IF good THEN None ELSE bad, "install.rename")
    <3>1. CASE CommitUnoccupied(r)
      BY <3>1, Zenon DEF CommitUnoccupied, Check
    <3>2. CASE ReadStaged(r)
      BY <3>2, Zenon DEF ReadStaged, Check
    <3>3. CASE VerifyArtifacts(r)
      BY <3>3, Zenon DEF VerifyArtifacts, Check
    <3>4. CASE InstallOriginal(r)
      BY <3>4, Zenon DEF InstallOriginal, Check
    <3>5. CASE InstallStaged(r)
      BY <3>5, Zenon DEF InstallStaged, Check
    <3> QED
      BY <1>3, <3>1, <3>2, <3>3, <3>4, <3>5, Zenon
  <2> DEFINE f == IF good THEN None ELSE bad
  <2>2. f # None => f \in {"exists", "operational", "usage", "concurrent"}
    BY Zenon
  <2>3. \/ Check(r, "unoccupied", f, "capture") \/ Check(r, "staged", f, "verifySource")
        \/ Check(r, "verifyArtifacts", f, "install")
        \/ Check(r, "install.original", f, "install.staged")
        \/ Check(r, "install.staged", f, "install.rename")
    BY <2>1
  <2> HIDE DEF f
  <2> QED
    BY <1>2, <2>2, <2>3
<1>4. CASE VerifySource(r) \/ VerifyReplaced(r)
  <2>1. CASE VerifySource(r)
    <3> DEFINE f == IF source = None THEN "operational"
                    ELSE IF source.id # captured[r].id THEN "concurrent"
                    ELSE IF Verified(r, source) THEN None ELSE "usage"
    <3>1. f # None => f \in {"operational", "concurrent", "usage"}
      BY Zenon
    <3>2. Check(r, "verifySource", f, "verifyArtifacts")
      BY <2>1 DEF VerifySource
    <3> HIDE DEF f
    <3> QED
      BY <1>2, <3>1, <3>2
  <2>2. CASE VerifyReplaced(r)
    <3> DEFINE f == IF source = None THEN "operational"
                    ELSE IF Verified(r, source) THEN None ELSE "usage"
    <3>1. f # None => f \in {"operational", "usage"}
      BY Zenon
    <3>2. Check(r, "verifyReplaced", f, "replaced")
      BY <2>2 DEF VerifyReplaced
    <3> HIDE DEF f
    <3> QED
      BY <1>2, <3>1, <3>2
  <2> QED
    BY <1>4, <2>1, <2>2
<1>5. ASSUME UNCHANGED history, pc[r] \notin {"verifyReplaced", "replaced"},
             \/ \E step \in {"validated", "unoccupied", "backup.create", "backup.protect",
                             "backup.write", "staging.create", "staging.protect",
                             "staging.write", "staged"} : Goto(r, step)
             \/ \E how \in {"input", "cancelled", "concurrent", "unchanged", "operational",
                            "usage", "exists"} : End(r, how)
      PROVE  Plain(r)
  BY <1>5 DEF Plain, Steps, Outcomes
<1>6. CASE \/ Read(r) \/ Cancel(r) \/ CommitOriginal(r) \/ Capture(r) \/ CreateBackup(r)
           \/ ProtectBackup(r) \/ WriteBackup(r) \/ CreateStaging(r) \/ ProtectStaging(r)
           \/ WriteStaging(r)
  <2>1. UNCHANGED history
    BY <1>6, Zenon DEF Read, Cancel, CommitOriginal, Capture, CreateBackup, ProtectBackup,
       WriteBackup, CreateStaging, ProtectStaging, WriteStaging
  <2>2. pc[r] \in {"read", "validated", "original", "capture", "backup.create", "backup.protect",
                   "backup.write", "staging.create", "staging.protect", "staging.write"}
    BY <1>6, Zenon DEF Read, Cancel, CommitOriginal, Capture, CreateBackup, ProtectBackup,
       WriteBackup, CreateStaging, ProtectStaging, WriteStaging
  <2>3. pc[r] \notin {"verifyReplaced", "replaced"}
    BY <2>2
  <2>4. \/ \E step \in {"validated", "unoccupied", "backup.create", "backup.protect",
                        "backup.write", "staging.create", "staging.protect",
                        "staging.write", "staged"} : Goto(r, step)
        \/ \E how \in {"input", "cancelled", "concurrent", "unchanged", "operational",
                       "usage", "exists"} : End(r, how)
    BY <1>6, Zenon DEF Read, Cancel, CommitOriginal, Capture, CreateBackup, ProtectBackup,
       WriteBackup, CreateStaging, ProtectStaging, WriteStaging
  <2> QED
    BY <1>5, <2>1, <2>3, <2>4, Zenon
<1>7. CASE ReadReplaced(r)
  <2>1. /\ UNCHANGED history /\ pc[r] = "replaced"
        /\ End(r, "replaced") \/ End(r, "operational")
    BY <1>7 DEF ReadReplaced
  <2> QED
    BY <2>1 DEF Plain, Outcomes, Late
<1>8. CASE Stop(r)
  <2>1. UNCHANGED history /\ (End(r, "killed") \/ End(r, "operational"))
    BY <1>8 DEF Stop
  <2> QED
    BY <2>1 DEF Plain, Outcomes, Late
<1> QED
  BY <1>1, <1>3, <1>4, <1>6, <1>7, <1>8, Zenon DEF Run

\* What Told says of the other commands is not touched by one command's step.
LEMMA OthersTold ==
    ASSUME IInv, NEW r \in Runs, NEW q \in Runs \ {r}, Told(q),
           pc'[q] = pc[q], outcome'[q] = outcome[q],
           installed' = installed \/ installed' = installed \cup {r}
    PROVE  Told(q)'
<1>1. q \in installed' <=> q \in installed
  BY Zenon
<1> QED
  BY <1>1, Zenon DEF Told

\* Any step of a command but the rename keeps it.
LEMMA PlainTold ==
    ASSUME RInv, NEW r \in Runs, Plain(r), pc[r] # "ended"
    PROVE  Quiet' /\ \A q \in Runs : Told(q)'
<1>1. UNCHANGED <<edits, installed, overtaken>>
  BY DEF Plain, history
<1>2. Quiet'
  BY <1>1, Zenon DEF RInv, Quiet
<1>3. pc \in [Runs -> Steps] /\ outcome \in [Runs -> Outcomes \cup {None}]
  BY Zenon DEF RInv, IInv, Types
<1>4. Owned(r) /\ Told(r) /\ (outcome[r] # None <=> pc[r] = "ended") /\ IInv
  BY Zenon DEF RInv, IInv, Types
<1>5. None # "replaced"
  BY NoneAssumption DEF Outcomes
<1>6. r \in installed => pc[r] \in {"verifyReplaced", "replaced", "ended"}
  BY <1>4, Zenon DEF Owned
<1>7. ASSUME NEW step \in Steps \ {"ended", "verifyReplaced"}, Goto(r, step),
             step = "replaced" => pc[r] = "verifyReplaced"
      PROVE  \A q \in Runs : Told(q)'
  <2>1. /\ pc'[r] = step /\ outcome' = outcome
        /\ \A q \in Runs \ {r} : pc'[q] = pc[q] /\ outcome'[q] = outcome[q]
    BY <1>3, <1>7, Zenon DEF Goto
  <2>2. Told(r)'
    <3>1. step \in {"verifyReplaced", "replaced"} => r \in installed
      BY <1>4, <1>7, Zenon DEF Told
    <3>2. outcome[r] = "replaced" => r \in installed
      BY <1>4, Zenon DEF Told
    <3> QED
      BY <1>1, <1>7, <2>1, <3>1, <3>2, Zenon DEF Told
  <2>3. ASSUME NEW q \in Runs \ {r} PROVE Told(q)'
    <3>1. Told(q) /\ pc'[q] = pc[q] /\ outcome'[q] = outcome[q]
      BY <2>1, Zenon DEF RInv
    <3> QED
      BY <1>1, <1>4, <3>1, OthersTold, Zenon
  <2> QED
    BY <2>2, <2>3, Zenon
<1>8. ASSUME NEW how \in Outcomes, End(r, how), pc[r] # "ended",
             pc[r] \in {"verifyReplaced", "replaced"} => how \in Late,
             how = "replaced" => pc[r] = "replaced"
      PROVE  \A q \in Runs : Told(q)'
  <2>1. /\ pc'[r] = "ended" /\ outcome'[r] = how
        /\ \A q \in Runs \ {r} : pc'[q] = pc[q] /\ outcome'[q] = outcome[q]
    BY <1>3, <1>8, Zenon DEF End
  <2>2. Told(r)'
    <3>1. r \in installed => how \in Late
      BY <1>6, <1>8, Zenon
    <3>2. how = "replaced" => r \in installed
      BY <1>4, <1>8, Zenon DEF Told
    <3>3. "ended" \notin {"verifyReplaced", "replaced"}
      OBVIOUS
    <3> QED
      BY <1>1, <2>1, <3>1, <3>2, <3>3, Zenon DEF Told
  <2>3. ASSUME NEW q \in Runs \ {r} PROVE Told(q)'
    <3>1. Told(q) /\ pc'[q] = pc[q] /\ outcome'[q] = outcome[q]
      BY <2>1, Zenon DEF RInv
    <3> QED
      BY <1>1, <1>4, <3>1, OthersTold, Zenon
  <2> QED
    BY <2>2, <2>3, Zenon
<1> QED
  BY <1>2, <1>7, <1>8, Zenon DEF Plain

\* A command that has ended takes no step.
LEMMA RunActive ==
    ASSUME NEW r \in Runs, Run(r) \/ Stop(r)
    PROVE  pc[r] # "ended"
  BY Zenon DEF Run, Stop, Check, Resolve, Read, Cancel, CommitRegular, CommitOriginal,
     CommitUnoccupied, Capture, CreateBackup, ProtectBackup, WriteBackup, CreateStaging,
     ProtectStaging, WriteStaging, ReadStaged, VerifySource, VerifyArtifacts, InstallRegular,
     InstallOriginal, InstallStaged, Rename, VerifyReplaced, ReadReplaced

\* The rename is told by the step after it.
LEMMA RenameTold ==
    ASSUME RInv, NEW r \in Runs, Rename(r)
    PROVE  Quiet' /\ \A q \in Runs : Told(q)'
<1>1. /\ pc[r] = "install.rename" /\ installed' = installed \cup {r}
      /\ Goto(r, "verifyReplaced") /\ UNCHANGED <<edits, overtaken>>
  BY DEF Rename
<1>2. pc \in [Runs -> Steps] /\ IInv
  BY Zenon DEF RInv, IInv, Types
<1>3. /\ pc'[r] = "verifyReplaced" /\ outcome' = outcome
      /\ \A q \in Runs \ {r} : pc'[q] = pc[q]
  BY <1>1, <1>2, Zenon DEF Goto
<1>4. Quiet'
  BY <1>1, Zenon DEF RInv, Quiet
<1>5. r \in installed' /\ "verifyReplaced" # "ended"
  BY <1>1
<1>6. Told(r)'
  BY <1>3, <1>5, Zenon DEF Told
<1>7. ASSUME NEW q \in Runs \ {r} PROVE Told(q)'
  <2>1. Told(q) /\ pc'[q] = pc[q] /\ outcome'[q] = outcome[q]
    BY <1>3, Zenon DEF RInv
  <2> QED
    BY <1>1, <1>2, <2>1, OthersTold, Zenon
<1> QED
  BY <1>4, <1>6, <1>7, Zenon

\* The strengthened invariant holds initially.
LEMMA InitRInv == Init => RInv
<1> SUFFICES ASSUME Init PROVE RInv
  OBVIOUS
<1>1. IInv
  BY InitIInv
<1>2. Quiet
  BY DEF Init, Quiet
<1>3. \A r \in Runs : Told(r)
  <2> SUFFICES ASSUME NEW r \in Runs PROVE Told(r)
    OBVIOUS
  <2>1. pc[r] = "resolve" /\ outcome[r] = None
    BY Zenon DEF Init
  <2>2. None # "replaced"
    BY NoneAssumption DEF Outcomes
  <2>3. "resolve" \notin {"verifyReplaced", "replaced", "ended"}
    OBVIOUS
  <2> QED
    BY <2>1, <2>2, <2>3, Zenon DEF Told
<1> QED
  BY <1>1, <1>2, <1>3, Zenon DEF RInv

\* Every step keeps it.
LEMMA NextRInv == RInv /\ [Next]_vars => RInv'
<1> SUFFICES ASSUME RInv, [Next]_vars PROVE RInv'
  OBVIOUS
<1>1. IInv'
  BY NextIInv, Zenon DEF RInv
<1> SUFFICES Quiet' /\ \A q \in Runs : Told(q)'
  BY <1>1, Zenon DEF RInv
<1>2. ASSUME NEW r \in Runs, Run(r) \/ Stop(r) PROVE Quiet' /\ \A q \in Runs : Told(q)'
  BY <1>2, RunActive, RunPlain, PlainTold, RenameTold, Zenon
<1>3. CASE UNCHANGED <<pc, outcome, installed>> /\ (edits' = 0 => UNCHANGED <<edits, overtaken>>)
  <2>1. Quiet'
    BY <1>3, Zenon DEF RInv, Quiet
  <2>2. \A q \in Runs : Told(q)'
    BY <1>3, Zenon DEF RInv, Told
  <2> QED
    BY <2>1, <2>2
<1>4. CASE Edit
  <2>1. /\ UNCHANGED <<pc, outcome, installed>> /\ edits' = edits + 1
    BY <1>4, Zenon DEF Edit, EditTo
  <2>2. edits \in Nat
    BY DEF RInv, IInv, Types
  <2>3. edits' # 0
    BY <2>1, <2>2
  <2> QED
    BY <1>3, <2>1, <2>3, Zenon
<1>5. CASE Discard
  <2>1. UNCHANGED <<pc, outcome, installed, edits, overtaken>>
    BY <1>5, Zenon DEF Discard
  <2> QED
    BY <1>3, <2>1, Zenon
<1>6. CASE UNCHANGED vars
  <2>1. UNCHANGED <<pc, outcome, installed, edits, overtaken>>
    BY <1>6 DEF vars, history
  <2> QED
    BY <1>3, <2>1, Zenon
<1> QED
  BY <1>2, <1>4, <1>5, <1>6, Zenon DEF Next

\* The strengthened invariant holds in every behaviour.
LEMMA ToldInvariant == Spec => []RInv
  BY InitRInv, NextRInv, PTL DEF Spec

\* A caller that sees "replaced" or one of the refusals of commit knows whether
\* the source was renamed, whatever other commands and programs did meanwhile
\* (replace.rs:141-222).
THEOREM OutcomesTell == Spec => []OutcomeTells
<1>1. RInv => OutcomeTells
  <2> SUFFICES ASSUME RInv, NEW r \in Runs
               PROVE  /\ outcome[r] = "replaced" => r \in installed
                      /\ outcome[r] \in {"input", "exists", "concurrent", "cancelled",
                                          "unchanged"} => r \notin installed
    BY Zenon DEF OutcomeTells
  <2>1. Told(r) /\ (outcome[r] # None <=> pc[r] = "ended")
    BY Zenon DEF RInv, IInv, Types
  <2>2. ASSUME outcome[r] \in {"input", "exists", "concurrent", "cancelled", "unchanged"}
        PROVE  outcome[r] # None /\ outcome[r] \notin Late
    BY <2>2, NoneAssumption DEF Outcomes, Late
  <2> QED
    BY <2>1, <2>2, Zenon DEF Told
<1> QED
  BY <1>1, ToldInvariant, PTL

\* The exclusive creation of the backup excludes every other command until its
\* owner has ended (protection.rs:60, replace.rs:146).
THEOREM BackupExcludes == Spec => []OneCommits
<1>1. IInv => OneCommits
  <2> SUFFICES ASSUME IInv, NEW r \in Runs, NEW q \in Runs,
                      pc[r] \in Keeping, pc[q] \in Keeping
               PROVE  r = q
    BY Zenon DEF OneCommits
  <2>1. Owned(r) /\ Owned(q)
    BY Zenon DEF IInv
  <2> QED
    BY <2>1, Zenon DEF Owned
<1> QED
  BY <1>1, Invariance, PTL

\* Without edits by other programs, concurrent commands lose nothing of each
\* other's: the second comparison in install_verified is made under the
\* exclusion of the backup (replace.rs:206-222).
THEOREM CommandsSerialiseTheorem == Spec => CommandsSerialise
<1>1. RInv /\ [Next]_vars /\ [\A r \in installed' \ installed :
          /\ source'.bytes = accepted[r] /\ source'.mode = captured[r].mode
          /\ r \notin overtaken => source # None /\ source.bytes = original[r]]_vars
      => [edits = 0 => \A r \in installed' \ installed :
          source # None /\ source.bytes = original[r] /\ source'.bytes = accepted[r]]_vars
  BY Zenon DEF RInv, Quiet
<1> QED
  BY <1>1, ToldInvariant, ValidatedReplaced, PTL DEF Spec, ReplacesValidatedBytes, CommandsSerialise

=============================================================================
