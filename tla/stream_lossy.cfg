SPECIFICATION Spec
CONSTANTS
  MAX_STREAM_WINDOW_SIZE = 2
  Word = 16
  Chunk = 2
  Writers = {"cw"}
  Readers = {"sr"}
  Home <- MCHome
  WriteSizes = {2}
  ReadSizes = {1}
  MaxBytes = 4
  Blocking = {"c"}
  GoAways = {"s"}
  Foreign = {}
  Closing = {}
  MaxFin = 0
  Failures = TRUE
INVARIANTS FlowLedger
CHECK_DEADLOCK FALSE
