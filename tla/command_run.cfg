SPECIFICATION FairSpec
CONSTANTS
    MaxOutputBytes = 2
    MaxWritten = 4
    MayFail = TRUE
INVARIANTS
    TypeOK
    ChildGone
    SuccessIsWhole
    LimitIsInclusive
PROPERTIES
    Returns
CHECK_DEADLOCK FALSE
