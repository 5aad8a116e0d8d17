SPECIFICATION Spec
CONSTANTS
    Launches = {l1, l2}
    NoOne = NoOne
    MaySandbox = {l1, l2}
    Mixed = TRUE
    MaxFaults = 1
CHECK_DEADLOCK FALSE
PROPERTY
    TrajectoryKept
