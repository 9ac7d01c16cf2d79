\* One process, one set, one error: nothing competes for the locks and there is
\* room in every directory.
CONSTANTS
    Sets = {s1}
    TreeSize = 2
    Procs = {p1}
    NoJob = NoJob
    MaxEpoch = 2
    MaxStorageEntries = 4
    MaxStagingEntries = 2
    MaxFaults = 1
    MaxPowerLosses = 0
SPECIFICATION FairSpec
PROPERTIES
    SetRemovalCompletes
