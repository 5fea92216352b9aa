SPECIFICATION NetworkSpec
CONSTANTS
  Conns = {c1, c2, c3}
  Dests = {d1, d2, d3}
  Valid = {d1, d2, d3}
  AllowedHosts = {d1, d2}
  Literals = {d2}
  MaxRequests = 2
  MaxConnections = 2
  MaxDestinations = 1
  MaxTransferBytes = 2
  MaxWrite = 2
SYMMETRY Symmetry
INVARIANTS
  EgressNeedsConsent
  DestinationsAreBounded
  BudgetIsShared
CHECK_DEADLOCK FALSE
