SPECIFICATION Spec
CONSTANTS
  MAX_STREAM_WINDOW_SIZE = 4
  Word = 16
  Chunk = 2
  Writers = {"cw"}
  Readers = {"sr", "sr2"}
  Home <- MCHome
  WriteSizes = {1}
  ReadSizes = {2}
  MaxBytes = 2
  Blocking = {"c", "s"}
  GoAways = {}
  Foreign = {}
  Closing = {}
  MaxFin = 0
  Failures = FALSE
INVARIANTS ReadTookData
CHECK_DEADLOCK FALSE
