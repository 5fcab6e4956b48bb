SPECIFICATION MCSpec
CONSTANTS
  Jobs = {0, 1, 2, 3, 4, 5}
  Roots = {0}
  Master = 0
  Order <- MCOrder
  Spawns <- MCSpawns
  Workers = {w1, w2}
  Capacity = 1
  MaxRuns = 1
  MaxResize = 0
  Main = Main
  NoJob = NoJob
  Arrays <- MCArrays
  MinSize = 3
  Guesses <- MCGuesses
  x = x
  y = y
  p1 = p1
  p2 = p2
  p3 = p3
  Threads = {p1, p2, p3}
  Types = {x, y}
  Bytes <- MCBytes
  Raw = Raw
  Granularity = 2
  Settings <- MCSettings
  Heaps = {3, 100}
  Exclusive = 8
INVARIANTS
  SortSafe
  RegistryExact
  GrantsWithinLimit
PROPERTY
  SortReturns
