------------------------ MODULE MCArtifactLifecycle ------------------------
(***************************************************************************)
(* Instances of ArtifactLifecycle for TLC.                                 *)
(***************************************************************************)
EXTENDS ArtifactLifecycle

MCQualifiedArtifact == [q \in Qualifications |-> CHOOSE a \in Artifacts : TRUE]
MCAuthorizedRoles == [q \in Qualifications |-> Roles]
=============================================================================
