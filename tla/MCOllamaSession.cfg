\* One bound model, three calls (the preflight and two completions, for two
\* receipts), two changes of what the server reports; SessionBytes admits two
\* completions of small bodies and runs out within either one for larger ones.
SPECIFICATION FairSpec
CHECK_DEADLOCK FALSE
CONSTANTS
    a = a
    Models <- MCOneModel
    BodyLimit = 2
    SessionBytes = 22
    MaxDrift = 2
    MaxOperations = 3
    None = None
INVARIANTS
    ReceiptFactsMatchPreflight
PROPERTIES
    EveryResponseObserved
    OperationEnds
