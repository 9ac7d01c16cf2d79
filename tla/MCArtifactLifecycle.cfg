\* Two processes, each with any operation under way, and three failures, kills
\* or power losses; MaxStorageEntries leaves room for the one artifact.
SPECIFICATION FairSpec
CONSTANTS
    Artifacts = {a1}
    Manifests = {m1}
    NoManifest = NoManifest
    Roles = {r1}
    Qualifications = {q1}
    QualifiedArtifact <- MCQualifiedArtifact
    AuthorizedRoles <- MCAuthorizedRoles
    NoBinding = NoBinding
    ActivationIds = {d1}
    MaxEpoch = 2
    Procs = {p1, p2}
    NoJob = NoJob
    MaxStorageEntries = 4
    MaxFaults = 3
INVARIANTS
    InstalledBytesDurable
    LeaseProtects
PROPERTIES
    CompletionMeansGone
    UnlinkOnlyPrepared
    RemovalCompletes
