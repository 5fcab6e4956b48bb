SPECIFICATION Spec
CONSTANTS
  Jobs <- MCJobs
  Values <- MCValues
INVARIANTS
  DependenciesRespected
  FewestEvacuations
  SharedMemoryEvacuated
  OnlyOwnMemoryHeld
  SortedOutput
  CallsInOrder
  LimitsRespected
PROPERTIES
  EveryNodeEnds
