CONSTANTS
    SpanSize = 2
    TotalSize = 8
    MaxFrames = 22
SPECIFICATION FairSpec
INVARIANTS
    TypeOK
    NeverRefused
    NoSharedSpan
    FilledSpansIntact
    FreeSpansSilent
PROPERTY ImplementsFifo
CHECK_DEADLOCK FALSE
