SPECIFICATION Spec
CONSTANTS
    Operations = {o1, o2}
    N = 4
    R = 2
    Targets <- MCTargets
INVARIANTS
    SettledDurably
    CompletedHasBundle
    VerdictStandsOnEvidence
PROPERTY
    ImplementsPlan
CHECK_DEADLOCK FALSE
