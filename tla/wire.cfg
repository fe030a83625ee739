SPECIFICATION FairSpec
CONSTANTS
  HdrSize = 2
  Chunk = 2
  Senders = {"w"}
  Sids = {1, 3}
  Known = {1}
  Sizes <- MCSizes
  MaxFrames = 3
  Failures = {"may"}
INVARIANTS TypeOK Aligned InOrder Conserved
PROPERTIES AllArrives
CHECK_DEADLOCK FALSE
