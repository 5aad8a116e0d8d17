SPECIFICATION Spec
CONSTANTS
    Loops = 3
    GroupSizes <- MCGroupSizes
    ResidualLengths <- MCResidualLengths
    Widths <- MCWidths
    MaxTokens = 12
CHECK_DEADLOCK FALSE
INVARIANTS
    TailBounded
    RowsFaithful
    AppendIsOneShot
