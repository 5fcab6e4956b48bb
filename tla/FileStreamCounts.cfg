SPECIFICATION FairSpec
CONSTANTS
  Modes = {FALSE}
  BlockItems = 2
  MaxItems <- TwoBlocks
  SharedBuffers = 1
  Taken <- AtAnyTime
  Ops <- ReadWriteOps
  Avoids <- AllButCounts
  Spurious = FALSE
  NoCall = NoCall
PROPERTIES
  ImplementsStream
