SPECIFICATION MCSpec
CONSTANTS
  Modes = {TRUE}
  BlockItems = 2
  MaxItems <- ManyBlocks
  SharedBuffers = 1
  Taken <- AtAnyTime
  Ops <- BlockOps
  Avoids <- Defects
  Spurious = TRUE
  NoCall = NoCall
  FileStreams = {s1, s2}
  FileItems = {i1, i2}
  FileBlock = 2
  MaxFileSize = 3
  ArraySizes = {2}
  Word = 16
  Omits = {"skip_unfetched", "skip_past_end", "read_at_end", "array_past_end"}
SYMMETRY
  MCSymmetry
INVARIANTS
  NoStreamFault
  FileSafe
PROPERTIES
  ImplementsStream
  FileImplementsItems
