SPECIFICATION Spec
CONSTANTS
  cw = cw
  cw2 = cw2
  MAX_STREAM_WINDOW_SIZE = 2
  Word = 16
  Chunk = 2
  Writers = {cw, cw2}
  Readers = {"sr"}
  Home <- MCHome
  WriteSizes = {2}
  ReadSizes = {1}
  MaxBytes = 2
  Blocking = {"s"}
  GoAways = {}
  Foreign = {}
  Closing = {}
  MaxFin = 0
  Failures = TRUE
SYMMETRY WriterSymmetry
INVARIANTS BufferFits
CHECK_DEADLOCK FALSE
