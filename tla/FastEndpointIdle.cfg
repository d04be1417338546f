CONSTANTS
    p1 = p1
    p2 = p2
    Processes <- MCProcesses
    Cases <- NoMishaps
SPECIFICATION FairSpec
PROPERTIES
    IdleDeviceStops
    EndpointReclaimed
CHECK_DEADLOCK FALSE
