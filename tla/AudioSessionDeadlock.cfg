CONSTANTS
    Pids <- MCPids
    Streams <- MCStreams
    Owner <- MCOwner
SPECIFICATION FairSpec
PROPERTY EmptySessionsTimeOut
CHECK_DEADLOCK FALSE
