SPECIFICATION Spec
CONSTANTS
  s1 = s1
  s2 = s2
  s3 = s3
  pid1 = pid1
  pid2 = pid2
  Streams = {s1, s2, s3}
  Pid <- TwoProcesses
  ShareMode = {}
  ConcurrentSources <- NoSources
  Types <- FocusTypes
  Modes = {"DEFAULT", "MIX_WITH_OTHERS", "PAUSE_OTHERS"}
  TypesWithModes <- SomeTypes
INVARIANTS TypeOK NoClash ToldTheTruth
PROPERTIES ReasonsRemain 
