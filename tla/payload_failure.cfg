SPECIFICATION Spec
CONSTANTS
  HdrSize = 2
  Chunk = 2
  Senders = {"w"}
  Sids = {1}
  Known = {1}
  Sizes <- MCSizesSplit
  MaxFrames = 3
  Failures = {"may"}
INVARIANTS HeadersAligned
CHECK_DEADLOCK FALSE
