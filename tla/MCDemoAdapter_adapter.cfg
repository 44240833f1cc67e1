SPECIFICATION Spec
CONSTANTS
  s1 = s1
  s2 = s2
  i1 = i1
  i2 = i2
  Streams <- MCStreams
  SessionIds <- MCSessionIds
  MaxRetries = 2
  Configs <- MCConfigs
  NoId = NoId
  None = None
INVARIANTS LiveIsTracked CleanedUp
PROPERTIES ShutdownCompletes
CHECK_DEADLOCK FALSE
