SPECIFICATION Spec
CONSTANTS
    MaxItems = 3
    MaxPosts = 2
    Kinds = {"dirDown"}
    Requests = {"connect"}
    Chunks = 1
    Retries = 1
INVARIANTS
    TypeOK
    ConservedInOrder
    PumpPending
    NoSpuriousCancel
    HandledCancelHolds
    AnswersInOrder
CHECK_DEADLOCK FALSE
