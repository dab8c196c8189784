SPECIFICATION FairSpec
CONSTANTS
    TICK_CHECK_POINT = 2
    Day = 5
    timep <- MCtimep
    MaxLane = 2
INVARIANTS
    TypeOK
    AlgIsInitialised
    OutputIsThisFrame
    NoOscillation
PROPERTY
    AlgFollowsTime
