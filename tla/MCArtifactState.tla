-------------------------- MODULE MCArtifactState --------------------------
(***************************************************************************)
(* Instance of ArtifactState for TLC: two artifacts, two manifest variants *)
(* (so that a conflicting one can be offered), two roles, and three        *)
(* qualifications: two rival ones for the first artifact, one for the      *)
(* second that authorizes a single role.                                   *)
(***************************************************************************)
EXTENDS ArtifactState, TLC

CONSTANTS a1, a2, r1, r2, q1, q2, q3

MCQualifiedArtifact == (q1 :> a1) @@ (q2 :> a1) @@ (q3 :> a2)
MCAuthorizedRoles == (q1 :> {r1, r2}) @@ (q2 :> {r1}) @@ (q3 :> {r1})

\* Manifests and activation identities are interchangeable.
MCSymmetry == Permutations(Manifests) \cup Permutations(ActivationIds)
=============================================================================
