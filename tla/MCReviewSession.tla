-------------------------- MODULE MCReviewSession --------------------------
(***************************************************************************)
(* Instances of ReviewSession for TLC.                                     *)
(***************************************************************************)
EXTENDS ReviewSession, TLC

MCSymmetry == Permutations(Versions)
=============================================================================
