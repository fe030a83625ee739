SPECIFICATION Spec
CONSTANTS
  Streams = {"x"}
  Receivers = {"r"}
  Acceptors = {"v"}
  Users = {"u", "v"}
  Backlog = 1
INVARIANTS NoDeadlock NoDataRace
