SPECIFICATION Spec
CONSTANTS
    Keys = 0
    Outputs = 0
    Failures = 2
INVARIANT RetryPending
CHECK_DEADLOCK FALSE
