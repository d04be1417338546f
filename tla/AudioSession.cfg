CONSTANTS
    Pids <- MCPids
    Streams <- MCStreams
    Owner <- MCOwner
SPECIFICATION Spec
INVARIANTS
    TypeOK
    TimersMatchSessions
PROPERTIES
    OnlyEmptySessionsTimeOut
CHECK_DEADLOCK FALSE
