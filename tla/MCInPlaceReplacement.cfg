SPECIFICATION Spec
CONSTANTS
    Runs = {r1, r2}
    Texts = {t1, t2, t3}
    Modes = {m1, m2}
    MaxEdits = 2
    None = None
SYMMETRY MCSymmetry
CHECK_DEADLOCK FALSE
INVARIANTS
    OriginalRetained
PROPERTIES
    ReplacesValidatedBytes
    OwnFilesOnly
