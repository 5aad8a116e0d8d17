SPECIFICATION Spec
CONSTANTS
    Launches = {l1, l2, l3}
    NoOne = NoOne
    MaySandbox = {l1, l2}
    Mixed = FALSE
    MaxFaults = 2
CHECK_DEADLOCK FALSE
INVARIANTS
    ScratchRemoved
    SessionProvisioned
    BrokerEnds
PROPERTY
    ProvisioningSettles
