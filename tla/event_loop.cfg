SPECIFICATION FairSpec
CONSTANTS
  Fds = {"f", "g"}
  BatchSize = 2
  MaxNew = 2
  Failures = TRUE
INVARIANTS TypeOK PointersLive InStep
PROPERTIES Served Stops
CHECK_DEADLOCK FALSE
