SPECIFICATION FairSpec
INVARIANTS
  NothingOutlivesTheCall
  AcceptedCallsAreWhole
PROPERTIES
  EveryCallReturns
CHECK_DEADLOCK FALSE
