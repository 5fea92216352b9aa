SPECIFICATION MonitorFairSpec
CONSTANTS
  Dirs = {pkg, src}
  Pkg = pkg
  Limit = 1
  MaxUsed = 2
INVARIANTS
  AccountingIsExact
  NoDirectoryIsForgotten
PROPERTIES
  StopEndsTheMonitor
CHECK_DEADLOCK FALSE
