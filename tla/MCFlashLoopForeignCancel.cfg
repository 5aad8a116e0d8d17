SPECIFICATION Spec
CONSTANTS
    Requests = {a, b}
    PromptLengths <- MCPromptLengths
    OutputLimits <- MCOutputLimits
    MaxContext = 3
CHECK_DEADLOCK FALSE
INVARIANTS
    CancelledOnlyByOwner
