SPECIFICATION FairSpec
CONSTANTS
  Modes = {TRUE}
  BlockItems = 2
  MaxItems <- TwoBlocks
  SharedBuffers = 1
  Taken <- AtAnyTime
  Ops <- PositionOps
  Avoids <- AllButTell
  Spurious = FALSE
  NoCall = NoCall
INVARIANTS
  NoStreamFault
