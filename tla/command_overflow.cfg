SPECIFICATION Spec
CONSTANTS
    MaxOutputBytes = 2
    MaxWritten = 4
    MayFail = FALSE
INVARIANTS
    OverflowFails
CHECK_DEADLOCK FALSE
