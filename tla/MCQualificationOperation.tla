---------------------- MODULE MCQualificationOperation ----------------------
EXTENDS QualificationOperation

\* Targets and baselines alternate in plan order.
MCTargets == {a \in 1..N : a % 2 = 1}
=============================================================================
