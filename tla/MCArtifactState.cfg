SPECIFICATION StoreSpec
CONSTANTS
    a1 = a1
    a2 = a2
    r1 = r1
    r2 = r2
    q1 = q1
    q2 = q2
    q3 = q3
    Artifacts = {a1, a2}
    Manifests = {m1, m2}
    NoManifest = NoManifest
    Roles = {r1, r2}
    Qualifications = {q1, q2, q3}
    QualifiedArtifact <- MCQualifiedArtifact
    AuthorizedRoles <- MCAuthorizedRoles
    NoBinding = NoBinding
    ActivationIds = {d1, d2, d3}
    MaxEpoch = 2
SYMMETRY MCSymmetry
INVARIANTS
    RemovalStateSound
    ActiveBindingsSound
    DecisionsExplainBindings
PROPERTIES
    ImplementsRegistry
