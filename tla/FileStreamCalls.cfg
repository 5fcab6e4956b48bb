SPECIFICATION FairSpec
CONSTANTS
  Modes = {TRUE, FALSE}
  BlockItems = 2
  MaxItems <- TwoBlocks
  SharedBuffers = 1
  Taken <- Contended
  Ops <- AllOps
  Avoids <- Defects
  Spurious = FALSE
  NoCall = NoCall
INVARIANTS
  NoStreamFault
  CurrentBufferOwned
PROPERTIES
  ImplementsStream
  EveryCallReturns
