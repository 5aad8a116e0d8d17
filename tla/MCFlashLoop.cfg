SPECIFICATION FairSpec
CONSTANTS
    Requests = {a, b}
    PromptLengths <- MCPromptLengths
    OutputLimits <- MCOutputLimits
    MaxContext = 3
CHECK_DEADLOCK FALSE
INVARIANTS
    SlotHeldByWorker
    IdleGaugesZero
    CancellationKept
    ContextWithinCapacity
    AnswersAgree
PROPERTIES
    ImplementsSingleSlot
    EverythingEnds
