SPECIFICATION Spec
CONSTANTS
  MAX_STREAM_WINDOW_SIZE = 2
  Word = 16
  Chunk = 2
  Writers = {"cw"}
  Readers = {"sr"}
  Home <- MCHome
  WriteSizes = {2}
  ReadSizes = {2}
  MaxBytes = 2
  Blocking = {"c", "s"}
  GoAways = {}
  Foreign = {}
  Closing = {}
  MaxFin = 0
  Failures = FALSE
INVARIANTS CreditShows
CHECK_DEADLOCK FALSE
