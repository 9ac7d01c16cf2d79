SPECIFICATION Spec
CONSTANTS
    Runs = {r1, r2}
    Texts = {t1, t2}
    Modes = {m1, m2}
    MaxEdits = 1
    None = None
SYMMETRY MCSymmetry
CHECK_DEADLOCK FALSE
PROPERTIES
    DriftIsRetryable
