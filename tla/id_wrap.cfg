SPECIFICATION Spec
CONSTANTS
  Word = 6
  Openers = {"s1"}
  Acceptors = {"ca"}
  Home <- MCHome
  Calls <- MCCallsWrap
  Backlog = 1
  GoAways = {}
  Failures = {"never"}
INVARIANTS NoAbort
CHECK_DEADLOCK FALSE
