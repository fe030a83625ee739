SPECIFICATION Spec
CONSTANTS
  MAX_STREAM_WINDOW_SIZE = 4
  Word = 16
  Chunk = 2
  Writers = {"cw"}
  Readers = {"sr"}
  Home <- MCHome
  WriteSizes = {1}
  ReadSizes = {2}
  MaxBytes = 2
  Blocking = {"c", "s"}
  GoAways = {}
  Foreign = {"c"}
  Closing = {"fin"}
  MaxFin = 1
  Failures = FALSE
INVARIANTS CloseShows
CHECK_DEADLOCK FALSE
