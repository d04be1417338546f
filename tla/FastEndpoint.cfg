CONSTANTS
    p1 = p1
    p2 = p2
    Processes <- MCProcesses
    Cases <- MCCases
SYMMETRY Symmetry
SPECIFICATION Spec
INVARIANTS
    TypeOK
    NoDangling
    UnlinkedIsEmpty
CHECK_DEADLOCK FALSE
