SPECIFICATION Spec
CONSTANTS
    Blocks = 4
    Workers = 2
    MaxAttempts = 2
    Margin = 1
    Window = 1
    Resumes = 0
INVARIANTS
    CorrectAfterRetry
CHECK_DEADLOCK FALSE
