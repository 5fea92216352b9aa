SPECIFICATION NetworkFairSpec
CONSTANTS
  Conns = {c1, c2}
  Dests = {d1, d2}
  Valid = {d1, d2}
  AllowedHosts = {}
  Literals = {}
  MaxRequests = 2
  MaxConnections = 2
  MaxDestinations = 1
  MaxTransferBytes = 1
  MaxWrite = 1
PROPERTIES
  EveryHandlerEnds
  BrokerDeathEndsThePhase
CHECK_DEADLOCK FALSE
