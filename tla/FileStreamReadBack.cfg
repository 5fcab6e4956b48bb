SPECIFICATION FairSpec
CONSTANTS
  Modes = {TRUE}
  BlockItems = 2
  MaxItems <- ManyBlocks
  SharedBuffers = 1
  Taken <- AtAnyTime
  Ops <- BlockOps
  Avoids <- AllButReadBack
  Spurious = FALSE
  NoCall = NoCall
INVARIANTS
  NoStreamFault
