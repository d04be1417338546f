CONSTANTS
    p1 = p1
    p2 = p2
    Processes <- MCProcesses
    Cases <- NoMishaps
SPECIFICATION Spec
PROPERTIES
    StopsOnlyWhenIdle
CHECK_DEADLOCK FALSE
