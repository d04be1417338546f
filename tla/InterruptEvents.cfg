SPECIFICATION EventsSpec
CONSTANTS
  s1 = s1
  s2 = s2
  s3 = s3
  Streams = {s1, s2, s3}
  Pid <- OwnProcess
  ShareMode = {}
  ConcurrentSources <- NoSources
  Types <- SomeTypes
  Modes = {}
  TypesWithModes = {}
  TypesOf <- TypesOfEach
  MaxQueue = 3
  Absent = {s3}
  MayFail = TRUE
INVARIANTS EventsTypeOK PlaysAsListed FocusIsFreed
CHECK_DEADLOCK FALSE
