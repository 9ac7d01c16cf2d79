SPECIFICATION Spec
CONSTANTS
    Documents = {1, 2}
    Versions = {v1, v2}
    MaxOperation = 2
    MaxEdits = 1
    MaxFaults = 1
    None = None
SYMMETRY MCSymmetry
CHECK_DEADLOCK FALSE
INVARIANTS
    OneOperationInFlight
PROPERTIES
    TerminalHandedBack
    ShownMatchesCatalogue
