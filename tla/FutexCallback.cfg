CONSTANTS
    SpanCount = 2
    SpinLimit = 3
    CallbackMode = TRUE
SPECIFICATION FairSpec
INVARIANTS
    TypeOK
    NoLostWake
PROPERTIES
    PreExitSticks
    SleeperIsWoken
    ReleaseEndsThread
CHECK_DEADLOCK FALSE
