\* One set of three entries, two operations at a time, kills, errors and a power
\* loss.  Three faults can stop a removal and leak MaxStorageEntries probes; a
\* staging root that is left behind fills .set-staging/.
CONSTANTS
    Sets = {s1}
    TreeSize = 3
    Procs = {p1, p2}
    NoJob = NoJob
    MaxEpoch = 2
    MaxStorageEntries = 2
    MaxStagingEntries = 1
    MaxFaults = 3
    MaxPowerLosses = 1
SPECIFICATION FairSpec
INVARIANTS
    PartialOnlyWhileRemoving
    InstalledTreeExact
    SetLeaseProtects
PROPERTIES
    SetImplementsRegistry
    WholeRemovalCompletes
