SPECIFICATION FileSpec
CONSTANTS
  FileStreams = {s1, s2}
  FileItems = {i1, i2}
  FileBlock = 2
  MaxFileSize = 3
  ArraySizes = {2}
  Word = 16
  Omits = {"skip_past_end", "read_at_end", "array_past_end"}
INVARIANTS
  SeekMovesOffset
