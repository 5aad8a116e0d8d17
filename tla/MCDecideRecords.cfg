SPECIFICATION FairSpec
CONSTANTS
    NumRecords = 3
    Workers = {v, w}
    Stages <- MCStages
    FailFastAfter = 2
CHECK_DEADLOCK FALSE
INVARIANTS
    PublicationAtomic
    ChainSound
    NumbersAgree
PROPERTIES
    CancelledKeepsPrevious
    ToolEnds
