CONSTANT
    Modes <- MCModes
SPECIFICATION FairSpec
INVARIANTS
    TypeOK
    Agreement
    NoSilentStall
CHECK_DEADLOCK FALSE
PROPERTIES
    FreshCallsTellTheTruth
    EveryCallAnswered
