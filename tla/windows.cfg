SPECIFICATION MCSpec
CONSTANTS
    Hosts = {h1}
    Keys = {k1}
    MaxTabs = 3
    Addresses = {a1, a2}
    MaxTransfers = 5
    MaxRows = 3
    Dirs = {d1}
    MaxHistory = 2
    MaxCopies = 2
    MaxFiles = 3
    Names = {"x", "y"}
    MaxDepth = 3
    MaxBookmarks = 1
    Working <- ProgramFolder
    MaxActs = 5
    MaxRequests = 2
INVARIANTS
    HostsShown
    HexShown
    RowsTrue
    HandedOverWhole
PROPERTIES
    CopyHandedOver
    NoEcho
CHECK_DEADLOCK FALSE
