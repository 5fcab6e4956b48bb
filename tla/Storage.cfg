SPECIFICATION MCSpec
CONSTANTS
  Values = {"a", "b"}
  CacheSize = 2
  MaxBlocks = 3
  TreeItems <- MCItems
  TreeKeys <- MCKeys
  MinFanout = 2
  MaxFanout = 4
  MaxItems <- MCMaxItems
  PQItems = {1, 2, 3, 4, 5, 6, 7}
  Fanout = 3
  SlotSize = 4
  BufferSize = 2
  FewItems = 8
  Strides = {1, 3, 6}
  Stops = {20, 56, 108}
  MaxCalls = 2
  MaxPushes = 170
INVARIANTS
  CacheSafe
  
  QueueSafe
PROPERTIES
  CacheImplementsStore
  TreeImplementsIndex
  QueueImplementsHeap
