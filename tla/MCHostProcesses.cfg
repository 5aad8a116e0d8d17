SPECIFICATION HostSpec
CONSTANTS
    Owners = {o1, o2}
    RunIds = {r1, r2}
    Nobody = Nobody
    MaxFailures = 2
CHECK_DEADLOCK FALSE
INVARIANTS
    FinalizedTruthfully
    NothingLeftRunning
    CheckoutWhole
PROPERTY
    StopsWhenAsked
