------------------------ MODULE InPlaceReplacement -------------------------
(***************************************************************************)
(* The --in-place commit of crates/cli/src/check/replace.rs: commands that *)
(* replace one source file after keeping a backup beside it, against each  *)
(* other and against programs that change the source meanwhile.            *)
(*                                                                         *)
(* The directory has three names.  A file is its inode number, content,    *)
(* access mode, link count and the command that created it.  One step      *)
(* stands for the calls between which nothing that another program does    *)
(* could matter: each check of the source is a step of its own.  Symbolic  *)
(* links are not modelled; they are refused where an aliased file is.      *)
(***************************************************************************)
EXTENDS Naturals, FiniteSets

CONSTANTS
    Runs,      \* invocations of check or rewrite with --in-place
    Texts,     \* complete document contents
    Modes,     \* access policies a source may have
    MaxEdits,  \* bound on the changes other programs make to the source
    None       \* no file, no value, no outcome yet

ASSUME ReplaceAssumption ==
    /\ MaxEdits \in Nat
    /\ None \notin Runs
    /\ Texts \cap {"empty", "partial"} = {} /\ "0600" \notin Modes
    /\ None \notin Texts

VARIABLES
    source, backup, staging,  \* the file at each name, or None
    nextId,                   \* the next inode number
    pc,                       \* [Runs -> next step]
    original,                 \* [Runs -> the bytes the command read]
    accepted,                 \* [Runs -> the bytes it is to write]
    captured,                 \* [Runs -> Protection: inode and mode, or None]
    outcome,                  \* [Runs -> how the command ended, or None]
    edits,                    \* changes other programs made so far
    installed,                \* commands that renamed their staging file
    overtaken,                \* commands whose last check an edit followed
    discarded                 \* commands whose backup the user has removed

files == <<source, backup, staging, nextId>>
args == <<original, accepted, captured>>
history == <<edits, installed, overtaken, discarded>>
vars == <<files, pc, args, outcome, history>>

Files == [id : Nat, bytes : Texts \cup {"empty", "partial"}, mode : Modes \cup {"0600"},
          links : 1..2, owner : Runs \cup {None}]

Steps ==
    {"resolve", "read", "validated", "original", "unoccupied", "capture",
     "backup.create", "backup.protect", "backup.write",
     "staging.create", "staging.protect", "staging.write",
     "staged", "verifySource", "verifyArtifacts",
     "install", "install.original", "install.staged", "install.rename",
     "verifyReplaced", "replaced", "ended"}

Outcomes == {"input", "usage", "exists", "concurrent", "operational", "cancelled",
             "killed", "unchanged", "replaced"}

Protections == [id : Nat, mode : Modes]

ASSUME NoneAssumption == None \notin Files \cup Outcomes \cup Protections

TypeOK ==
    /\ {source, backup, staging} \subseteq Files \cup {None}
    /\ nextId \in Nat
    /\ pc \in [Runs -> Steps]
    /\ original \in [Runs -> Texts \cup {None}]
    /\ accepted \in [Runs -> Texts \cup {None}]
    /\ captured \in [Runs -> Protections \cup {None}]
    /\ outcome \in [Runs -> Outcomes \cup {None}]
    /\ \A r \in Runs : outcome[r] # None <=> pc[r] = "ended"
    /\ edits \in 0..MaxEdits
    /\ installed \subseteq Runs /\ overtaken \subseteq Runs /\ discarded \subseteq Runs

NewFile(bytes, mode, owner) ==
    [id |-> nextId, bytes |-> bytes, mode |-> mode, links |-> 1, owner |-> owner]

Init ==
    /\ \E t \in Texts, m \in Modes :
          source = [id |-> 0, bytes |-> t, mode |-> m, links |-> 1, owner |-> None]
    /\ backup = None /\ staging = None
    /\ nextId = 1
    /\ pc = [r \in Runs |-> "resolve"]
    /\ original = [r \in Runs |-> None]
    /\ accepted = [r \in Runs |-> None]
    /\ captured = [r \in Runs |-> None]
    /\ outcome = [r \in Runs |-> None]
    /\ edits = 0
    /\ installed = {} /\ overtaken = {} /\ discarded = {}

-----------------------------------------------------------------------------
(* The checks commit is made of.                                           *)

Goto(r, step) == pc' = [pc EXCEPT ![r] = step] /\ UNCHANGED outcome

End(r, how) == pc' = [pc EXCEPT ![r] = "ended"] /\ outcome' = [outcome EXCEPT ![r] = how]

\* require_regular_file, as the failure it gives or None.
RegularFailure ==
    IF source = None THEN "input" ELSE IF source.links # 1 THEN "usage" ELSE None

\* read_direct_unaliased_bounded, compared with what is expected.
Holds(file, bytes) == file # None /\ file.links = 1 /\ file.bytes = bytes

Unoccupied == backup = None /\ staging = None

\* Protection::verify_file.
Verified(r, file) == file # None /\ file.links = 1 /\ file.mode = captured[r].mode

\* A step that only reads: go on, or end with the failure.
Check(r, step, failure, next) ==
    /\ pc[r] = step
    /\ IF failure = None THEN Goto(r, next) ELSE End(r, failure)
    /\ UNCHANGED <<files, args, history>>

-----------------------------------------------------------------------------
(* From the command line to the commit.                                    *)

\* resolve_destination.
Resolve(r) ==
    Check(r, "resolve",
          IF RegularFailure # None THEN RegularFailure
          ELSE IF Unoccupied THEN None ELSE "exists",
          "read")

\* The source is read and the candidate validated; an abstention accepts the
\* original bytes.
Read(r) ==
    /\ pc[r] = "read"
    /\ IF source = None THEN End(r, "input") /\ UNCHANGED <<original, accepted>>
       ELSE /\ original' = [original EXCEPT ![r] = source.bytes]
            /\ \E t \in Texts : accepted' = [accepted EXCEPT ![r] = t]
            /\ Goto(r, "validated")
    /\ UNCHANGED <<files, captured, history>>

\* require_not_cancelled, the last look at the token.
Cancel(r) ==
    /\ pc[r] = "validated"
    /\ End(r, "cancelled")
    /\ UNCHANGED <<files, args, history>>

CommitRegular(r) == Check(r, "validated", RegularFailure, "original")

-----------------------------------------------------------------------------
(* commit.                                                                 *)

\* require_original_bytes, then the early return for identical bytes.
CommitOriginal(r) ==
    /\ pc[r] = "original"
    /\ IF ~Holds(source, original[r]) THEN End(r, "concurrent")
       ELSE IF original[r] = accepted[r] THEN End(r, "unchanged")
       ELSE Goto(r, "unoccupied")
    /\ UNCHANGED <<files, args, history>>

CommitUnoccupied(r) ==
    Check(r, "unoccupied", IF Unoccupied THEN None ELSE "exists", "capture")

\* Protection::capture.
Capture(r) ==
    /\ pc[r] = "capture"
    /\ IF source = None THEN End(r, "operational") /\ UNCHANGED captured
       ELSE IF source.links # 1 THEN End(r, "usage") /\ UNCHANGED captured
       ELSE /\ captured' = [captured EXCEPT ![r] = [id |-> source.id, mode |-> source.mode]]
            /\ Goto(r, "backup.create")
    /\ UNCHANGED <<files, original, accepted, history>>

\* Mutant: Protection::write replaces a file that is already there.
CreateBackupOverwriting(r) ==
    /\ pc[r] = "backup.create"
    /\ backup' = NewFile("empty", "0600", r) /\ nextId' = nextId + 1
    /\ Goto(r, "backup.protect")
    /\ UNCHANGED <<source, staging, args, history>>

\* Protection::write: the file is created exclusively and without access for
\* others, given the captured policy, and only then filled.
CreateBackup(r) ==
    /\ pc[r] = "backup.create"
    /\ IF backup # None THEN End(r, "exists") /\ UNCHANGED files
       ELSE /\ backup' = NewFile("empty", "0600", r) /\ nextId' = nextId + 1
            /\ Goto(r, "backup.protect")
            /\ UNCHANGED <<source, staging>>
    /\ UNCHANGED <<args, history>>

ProtectBackup(r) ==
    /\ pc[r] = "backup.protect"
    /\ backup' = [backup EXCEPT !.mode = captured[r].mode]
    /\ Goto(r, "backup.write")
    /\ UNCHANGED <<source, staging, nextId, args, history>>

\* Mutant: the backup is a copy of what the source holds by now.
WriteBackupFromSource(r) ==
    /\ pc[r] = "backup.write" /\ source # None
    /\ backup' = [backup EXCEPT !.bytes = source.bytes]
    /\ Goto(r, "staging.create")
    /\ UNCHANGED <<source, staging, nextId, args, history>>

\* A write that fails leaves part of the bytes.
WriteBackup(r) ==
    /\ pc[r] = "backup.write"
    /\ \/ backup' = [backup EXCEPT !.bytes = original[r]] /\ Goto(r, "staging.create")
       \/ backup' = [backup EXCEPT !.bytes = "partial"] /\ End(r, "operational")
    /\ UNCHANGED <<source, staging, nextId, args, history>>

CreateStaging(r) ==
    /\ pc[r] = "staging.create"
    /\ IF staging # None THEN End(r, "exists") /\ UNCHANGED files
       ELSE /\ staging' = NewFile("empty", "0600", r) /\ nextId' = nextId + 1
            /\ Goto(r, "staging.protect")
            /\ UNCHANGED <<source, backup>>
    /\ UNCHANGED <<args, history>>

ProtectStaging(r) ==
    /\ pc[r] = "staging.protect"
    /\ staging' = [staging EXCEPT !.mode = captured[r].mode]
    /\ Goto(r, "staging.write")
    /\ UNCHANGED <<source, backup, nextId, args, history>>

WriteStaging(r) ==
    /\ pc[r] = "staging.write"
    /\ \/ staging' = [staging EXCEPT !.bytes = accepted[r]] /\ Goto(r, "staged")
       \/ staging' = [staging EXCEPT !.bytes = "partial"] /\ End(r, "operational")
    /\ UNCHANGED <<source, backup, nextId, args, history>>

\* The staged bytes are read back.
ReadStaged(r) ==
    Check(r, "staged", IF Holds(staging, accepted[r]) THEN None ELSE "operational",
          "verifySource")

\* Protection::verify_source: the same inode, under the same policy.
VerifySource(r) ==
    Check(r, "verifySource",
          IF source = None THEN "operational"
          ELSE IF source.id # captured[r].id THEN "concurrent"
          ELSE IF Verified(r, source) THEN None ELSE "usage",
          "verifyArtifacts")

VerifyArtifacts(r) ==
    Check(r, "verifyArtifacts",
          IF Verified(r, backup) /\ Verified(r, staging) THEN None ELSE "usage",
          "install")

-----------------------------------------------------------------------------
(* install_verified, and what commit does after it.                        *)

InstallRegular(r) == Check(r, "install", RegularFailure, "install.original")

\* Mutant: the bytes of the source are not compared a second time.
InstallOriginalUnchecked(r) == Check(r, "install.original", None, "install.staged")

InstallOriginal(r) ==
    Check(r, "install.original", IF Holds(source, original[r]) THEN None ELSE "concurrent",
          "install.staged")

InstallStaged(r) ==
    Check(r, "install.staged", IF Holds(staging, accepted[r]) THEN None ELSE "concurrent",
          "install.rename")

\* install: rename of the staging file over the source.
Rename(r) ==
    /\ pc[r] = "install.rename"
    /\ source' = staging /\ staging' = None
    /\ installed' = installed \cup {r}
    /\ Goto(r, "verifyReplaced")
    /\ UNCHANGED <<backup, nextId, args, edits, overtaken, discarded>>

VerifyReplaced(r) ==
    Check(r, "verifyReplaced",
          IF source = None THEN "operational" ELSE IF Verified(r, source) THEN None ELSE "usage",
          "replaced")

ReadReplaced(r) ==
    /\ pc[r] = "replaced"
    /\ End(r, IF Holds(source, accepted[r]) THEN "replaced" ELSE "operational")
    /\ UNCHANGED <<files, args, history>>

-----------------------------------------------------------------------------
(* Failures, other programs, the user, and the specification.              *)

\* The process is killed, or the call it makes fails with an I/O error: no
\* file is removed.
Stop(r) ==
    /\ pc[r] \notin {"resolve", "ended"}
    /\ \E how \in {"killed", "operational"} : End(r, how)
    /\ UNCHANGED <<files, args, history>>

\* Commands between their last look at the source's bytes and the rename.
Exposed == {r \in Runs : pc[r] \in {"install.staged", "install.rename"}}

EditTo(file) ==
    /\ edits < MaxEdits /\ edits' = edits + 1
    /\ source' = file /\ file # source
    /\ overtaken' = overtaken \cup Exposed
    /\ UNCHANGED <<backup, staging, pc, args, outcome, installed, discarded>>

\* Another program rewrites the source, replaces or removes it, gives it a
\* second name or another mode.
Edit ==
    \/ /\ source # None /\ UNCHANGED nextId
       /\ \/ \E t \in Texts : EditTo([source EXCEPT !.bytes = t])
          \/ \E m \in Modes : EditTo([source EXCEPT !.mode = m])
          \/ EditTo([source EXCEPT !.links = 3 - @])
          \/ EditTo(None)
    \/ \E t \in Texts, m \in Modes : EditTo(NewFile(t, m, None)) /\ nextId' = nextId + 1

\* The user removes what an ended command left.
Discard ==
    /\ \/ /\ backup # None /\ outcome[backup.owner] # None
          /\ backup' = None /\ discarded' = discarded \cup {backup.owner}
          /\ UNCHANGED staging
       \/ /\ staging # None /\ outcome[staging.owner] # None
          /\ staging' = None
          /\ UNCHANGED <<backup, discarded>>
    /\ UNCHANGED <<source, nextId, pc, args, outcome, edits, installed, overtaken>>

Run(r) ==
    \/ Resolve(r) \/ Read(r) \/ Cancel(r) \/ CommitRegular(r) \/ CommitOriginal(r)
    \/ CommitUnoccupied(r) \/ Capture(r)
    \/ CreateBackup(r) \/ ProtectBackup(r) \/ WriteBackup(r)
    \/ CreateStaging(r) \/ ProtectStaging(r) \/ WriteStaging(r)
    \/ ReadStaged(r) \/ VerifySource(r) \/ VerifyArtifacts(r)
    \/ InstallRegular(r) \/ InstallOriginal(r) \/ InstallStaged(r) \/ Rename(r)
    \/ VerifyReplaced(r) \/ ReadReplaced(r)

Next == (\E r \in Runs : Run(r) \/ Stop(r)) \/ Edit \/ Discard

Spec == Init /\ [][Next]_vars

-----------------------------------------------------------------------------
(* Properties.                                                             *)

\* Whatever a failed write or a kill leaves, no document is lost or exposed:
\* the source never holds part of one (replace.rs:163-176), a backup or staging
\* file that holds any of one is under the access policy captured from the
\* source (protection.rs:57-87), and from the rename on the bytes the command
\* read are in the backup until the user removes it (replace.rs:141-146,
\* docs/interfaces.md:74-75).
OriginalRetained ==
    /\ TypeOK
    /\ source # None => source.bytes \in Texts
    /\ \A file \in {backup, staging} \ {None} :
          file.bytes # "empty" => file.mode = captured[file.owner].mode
    /\ \A r \in installed \ discarded :
          /\ backup # None /\ backup.owner = r
          /\ backup.bytes = original[r] /\ backup.mode = captured[r].mode

\* The rename replaces exactly the bytes the candidate was validated against
\* by the accepted ones, unless another program wrote after the last check
\* (replace.rs:206-222): neither an edit nor another command's result that
\* the check could see is lost.
ReplacesValidatedBytes ==
    [][\A r \in installed' \ installed :
          /\ source'.bytes = accepted[r] /\ source'.mode = captured[r].mode
          /\ r \notin overtaken => source # None /\ source.bytes = original[r]]_vars

\* A command never changes, fills or moves a backup or staging file that
\* another one created (replace.rs:146, protection.rs:60-71).
OwnFilesOnly ==
    [][\A r \in Runs : pc'[r] # pc[r] =>
          /\ backup # None /\ backup' # backup => backup.owner = r
          /\ staging # None /\ staging' # staging => staging.owner = r]_vars

\* "Source drift is a retryable `concurrent_modification` failure"
\* (docs/interfaces.md:78): what a command that failed so has left does not
\* stop the next one.
DriftIsRetryable ==
    [][\A r \in Runs : outcome'[r] = "exists" /\ outcome[r] = None =>
          \A file \in {backup, staging} \ {None} : outcome[file.owner] # "concurrent"]_vars
=============================================================================
