----------------------- MODULE MCInPlaceReplacement ------------------------
(***************************************************************************)
(* Instances of InPlaceReplacement for TLC.                                *)
(***************************************************************************)
EXTENDS InPlaceReplacement, TLC

MCSymmetry == Permutations(Runs) \cup Permutations(Texts) \cup Permutations(Modes)
=============================================================================
