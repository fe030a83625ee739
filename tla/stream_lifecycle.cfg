SPECIFICATION FairSpec
CONSTANTS
  MAX_STREAM_WINDOW_SIZE = 2
  Word = 16
  Chunk = 2
  Writers = {"cw"}
  Readers = {"sr"}
  Home <- MCHome
  WriteSizes = {2}
  ReadSizes = {2}
  MaxBytes = 4
  Blocking = {"c", "s"}
  GoAways = {"s"}
  Foreign = {"c"}
  Closing = {"fin", "rst"}
  MaxFin = 2
  Failures = FALSE
INVARIANTS EofMeansDrained OnlySecondCloseFails
PROPERTIES NeverReopened OpenAnswered CloseSeen
CHECK_DEADLOCK FALSE
