-------------------------- MODULE MCOllamaSession --------------------------
(***************************************************************************)
(* Instances of OllamaSession for TLC.                                     *)
(***************************************************************************)
EXTENDS OllamaSession

CONSTANT a

MCOneModel == <<a>>
=============================================================================
