------------------------ MODULE InstallationRegistry ------------------------
(***************************************************************************)
(* What the artifact repository promises about installations, whatever the *)
(* database rows and files behind it look like: every artifact goes round  *)
(* absent -> installed -> removing -> absent, one whole turn at a time,    *)
(* and each turn has a generation of its own, one above the last.  The     *)
(* state store (ArtifactState) implements this for single-file artifacts,  *)
(* and the managed-set store (ArtifactSetLifecycle) for artifact sets.     *)
(***************************************************************************)
EXTENDS Naturals

CONSTANTS
    Artifacts,      \* the identities that may be installed
    MaxEpoch        \* the largest generation the store can write

VARIABLES
    generation,     \* [Artifacts -> generation last installed, 0 if none]
    status          \* [Artifacts -> where the artifact is in its turn]

vars == <<generation, status>>

Init ==
    /\ generation = [a \in Artifacts |-> 0]
    /\ status = [a \in Artifacts |-> "absent"]

\* A new installation is a new generation.
Install(a) ==
    /\ status[a] = "absent"
    /\ generation[a] < MaxEpoch
    /\ generation' = [generation EXCEPT ![a] = @ + 1]
    /\ status' = [status EXCEPT ![a] = "installed"]

\* Authority over the installed generation is withdrawn before its bytes go.
BeginRemoval(a) ==
    /\ status[a] = "installed"
    /\ status' = [status EXCEPT ![a] = "removing"]
    /\ UNCHANGED generation

FinishRemoval(a) ==
    /\ status[a] = "removing"
    /\ status' = [status EXCEPT ![a] = "absent"]
    /\ UNCHANGED generation

Next == \E a \in Artifacts : Install(a) \/ BeginRemoval(a) \/ FinishRemoval(a)

Spec == Init /\ [][Next]_vars
=============================================================================
