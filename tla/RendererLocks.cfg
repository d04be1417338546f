CONSTANTS
    DualTone = FALSE
    UnrefsLocked = FALSE
SPECIFICATION Spec
INVARIANTS
    NoCircularWait
    DestructAfterUnlock
