SPECIFICATION FairSpec
CONSTANTS
  NumJobs = 2
  BufSize = 2
  Items = 5
  Emits <- MCEmits
  EndEmits = 1
  MayThrow = {"worker", "main"}
  BeginThrows = {1}
PROPERTIES
  StopIsGraceful
CHECK_DEADLOCK FALSE
