SPECIFICATION FairSpec
CONSTANTS
  MAX_STREAM_WINDOW_SIZE = 4
  Word = 16
  Chunk = 2
  Writers = {"cw"}
  Readers = {"sr"}
  Home <- MCHome
  WriteSizes = {1, 5}
  ReadSizes = {1, 3}
  MaxBytes = 7
  Blocking = {"c", "s"}
  GoAways = {}
  Foreign = {}
  Closing = {}
  MaxFin = 0
  Failures = FALSE
INVARIANTS TypeOK InFlightFits FlowLedger NoProtocolError
PROPERTIES Delivered WriteReturns
CHECK_DEADLOCK FALSE
