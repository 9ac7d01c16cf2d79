----------------------- MODULE MCArtifactSetLifecycle -----------------------
(***************************************************************************)
(* Model values for ArtifactSetLifecycle.                                  *)
(***************************************************************************)
EXTENDS ArtifactSetLifecycle
=============================================================================
