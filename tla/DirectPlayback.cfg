SPECIFICATION Spec
CONSTANTS
  Buffers = {b1, b2}
  RingSpans = 1
  MaxErrors = 2
  None = None
INVARIANTS TypeOK OneOwner NoUseAfterReset
PROPERTIES EveryCallReturns BlockedFallsSilent LostOnlyWhenBlocked
CHECK_DEADLOCK FALSE
