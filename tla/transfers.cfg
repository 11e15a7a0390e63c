SPECIFICATION MCSpec
CONSTANTS
    FileBlocks = 3
    FileAttempts = 3
    Blocks = 5
    MaxAttempts = 2
    Unrelated = 5
    StaleRetries = FALSE
    Workers = 2
    Margin = 1
    Window = 1
    Resumes = 1
    Files = {f1, f2}
    LongNames = {f2}
    MaxUnits = 3
    OctalLimit = 3
    Tolerance = 2
    Hidden = {{}, {"a"}, {"d", "d/x"}}
    KeepsTimes = TRUE
    Edits = 2
    Errors = 1
    Runs = 2
    WindowEdits = 3
    Clicks = 2
    Breaks = 1
    Ids = {"first", "second"}
    Intervals = {0, 2}
    MaxTime = 4
    Commands = 3
    Crashes = 1
INVARIANTS
    CorrectTransfers
    LaneOnDisk
    SkippedIsCommitted
    MirrorComplete
PROPERTIES
    RetryKeeps
    CallsReturn
    RepeatIsNoOp
    
    ScheduleKept
CHECK_DEADLOCK FALSE
