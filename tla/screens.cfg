SPECIFICATION MCSpec
CONSTANTS
    Sizes <- WindowSizes
    ScrollbackMax = 1
    Counts = {0, 2}
    MaxInk = 2
    Rows = 2
    Cols = 2
    MaxFields = 2
    MaxOrders = 3
    Contents = {1, 239, 255}
    MaxRecord = 2
INVARIANTS
    TokensAsMeant
    ScreenShape
    WritesKeepPairs
    ScrollSound
    HostScreenSound
CHECK_DEADLOCK FALSE
