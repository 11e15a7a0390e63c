SPECIFICATION Spec
CONSTANTS
    Blocks = 3
    MaxAttempts = 2
    Unrelated = 2
    StaleRetries = TRUE
INVARIANT CorrectCopy
CHECK_DEADLOCK FALSE
