SPECIFICATION Spec
CONSTANTS
    Documents = {1}
    Versions = {v1}
    MaxOperation = 2
    MaxEdits = 0
    MaxFaults = 2
    None = None

CHECK_DEADLOCK FALSE
PROPERTIES
    LoadingEnds
    SessionEnds
