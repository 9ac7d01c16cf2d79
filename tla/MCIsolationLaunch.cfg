SPECIFICATION FairSpec
CONSTANTS
    MaxInputs = 2
    MaxCalls = 3
INVARIANTS
    TargetConfined
    CloseMeansGone
    ChannelAnswersRequest
PROPERTIES
    HostReturns
    NoOrphanedTarget
CHECK_DEADLOCK FALSE
