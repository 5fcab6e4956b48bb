SPECIFICATION FairSpec
CONSTANTS
  a = a
  b = b
  c = c
  Jobs = {a, b, c}
  Roots = {a, c}
  Spawns <- MCSpawns
  Workers = {w1, w2}
  Capacity = 1
  MaxRuns = 2
  MaxResize = 1
  Main = Main
  NoJob = NoJob
INVARIANTS
  TypeOK
  DependenciesExact
  ParentOutlivesSubjob
  NoBadJobState
  QueueAttended
PROPERTIES
  JoinMeansDone
  EveryJobCompletes
  JoinReturns
CHECK_DEADLOCK FALSE
