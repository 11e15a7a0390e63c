SPECIFICATION Spec
CONSTANTS
    MaxItems = 1
    MaxPosts = 1
    Kinds = {"fileDown"}
    Requests = {}
    Chunks = 3
    Retries = 0
INVARIANT PauseParks
CHECK_DEADLOCK FALSE
