------------------------- MODULE MCStoreMigration --------------------------
(***************************************************************************)
(* Instances of StoreMigration for TLC.                                    *)
(***************************************************************************)
EXTENDS StoreMigration, TLC

MCSymmetry == Permutations(Calls)
=============================================================================
