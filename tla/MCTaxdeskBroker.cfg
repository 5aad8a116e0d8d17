SPECIFICATION Spec
CONSTANTS
    Calls = {c1, c2}
    MaxCalls = 1
    CallTimeout = 2
    ShimTimeout = 3
    CliExits <- MCCliExits
CHECK_DEADLOCK FALSE
INVARIANTS
    SlotsAccounted
    LogAgrees
    ReportsTrue
PROPERTY
    EveryCallEnds
