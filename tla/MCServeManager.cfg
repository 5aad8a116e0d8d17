SPECIFICATION FairSpec
CONSTANTS
    Last = 2
    MaxFaults = 2
CHECK_DEADLOCK FALSE
INVARIANTS
    NothingUnmanaged
    DeclaredSoundly
    ActivationFilesAgree
    StoppedMeansDown
PROPERTIES
    InvocationEnds
