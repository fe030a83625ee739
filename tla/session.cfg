SPECIFICATION FairSpec
CONSTANTS
  Word = 6
  Openers = {"c1", "c2", "s1"}
  Acceptors = {"ca", "sa"}
  Home <- MCHome
  Calls <- MCCalls
  Backlog = 1
  GoAways = {"s"}
  Failures = {"may"}
INVARIANTS TypeOK NoAbort NoDuplicate OneOwner
PROPERTIES ClientIdsAscend ImplementsHandshake OpenReturns OffersAnswered
CHECK_DEADLOCK FALSE
