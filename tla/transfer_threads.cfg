SPECIFICATION MCSpec
CONSTANTS
    Depth = 2
    Source = 4
    Lengths = {0, 4}
    Pauses = 1
    Lanes = {l1, l2}
    Rate = 4
    Chunks = {1, 3, 4}
INVARIANTS
    PipeInOrder
    WatermarkExact
    AggregateCapped
PROPERTIES
    CopySpec
    UploadCopied
    Ends
CHECK_DEADLOCK FALSE
