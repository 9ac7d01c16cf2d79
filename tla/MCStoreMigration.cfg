\* Two calls and an inspection at once, one write of another command, one
\* cancellation and one kill, error or power loss.
SPECIFICATION FairSpec
CHECK_DEADLOCK FALSE
CONSTANTS
    Calls = {m1, m2}
    Current = 2
    MaxEntries = 3
    OtherFiles = 1
    MaxBytes = 1
    MaxWrites = 1
    MaxCancels = 1
    MaxFaults = 1
    Inspects = TRUE
    None = None
INVARIANTS
    MigrationBackedUp
    ReportedBackupKept
    UnreportedBackupsBounded
    InspectionSound
PROPERTIES
    OnlyWholeMigrations
    MigrationCompletes
