SPECIFICATION FairSpec
CONSTANTS
    Prompt = 2
    PipeCapacity = 1
    Progress = {"a", "b"}
    RepeatLimit = 2
    MayFail = TRUE
INVARIANTS
    TypeOK
    ChildGone
    SuccessIsWhole
    RepeatedMeansLooping
PROPERTIES
    OnlyThePromptHolds
CHECK_DEADLOCK FALSE
