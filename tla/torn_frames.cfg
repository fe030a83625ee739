SPECIFICATION Spec
CONSTANTS
  HdrSize = 2
  Chunk = 2
  Senders = {"w1", "w2"}
  Sids = {1}
  Known = {1}
  Sizes <- MCSizesSplit
  MaxFrames = 1
  Failures = {"never"}
INVARIANTS Aligned
CHECK_DEADLOCK FALSE
