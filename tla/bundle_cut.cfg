SPECIFICATION Spec
CONSTANTS
    Files = {f1, f2}
    LongNames = {f2}
    MaxUnits = 1
    OctalLimit = 3
INVARIANT StreamWhole
CHECK_DEADLOCK FALSE
