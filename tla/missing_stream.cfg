SPECIFICATION Spec
CONSTANTS
  HdrSize = 2
  Chunk = 2
  Senders = {"w"}
  Sids = {1, 3}
  Known = {1}
  Sizes <- MCSizesSplit
  MaxFrames = 2
  Failures = {"never"}
INVARIANTS Aligned
CHECK_DEADLOCK FALSE
