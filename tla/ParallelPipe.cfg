SPECIFICATION FairSpec
CONSTANTS
  NumJobs = 3
  BufSize = 2
  Items = 5
  Emits <- MCEmits
  EndEmits = 1
  MayThrow = {"worker", "main"}
  BeginThrows = {0}
INVARIANTS
  NoProtocolFault
  BuffersNotShared
  OutputOrderExact
PROPERTIES
  ImplementsSerialPipe
  EveryPhaseEnds
  ThrownIsReported
CHECK_DEADLOCK FALSE
