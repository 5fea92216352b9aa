SPECIFICATION Spec
CONSTANTS
  Declarations <- MCDeclarations
  Names <- MCNames
  MaxDeclared = 3
  Addresses = {pub, lan, own}
  Reserved = {lan}
  Own = {own}
  MaxBody = 3
  MaxHops = 2
  Budget = 3
  Disk = 5
  Reserve = 2
  MaxRuns = 2
INVARIANT OnlyPublicAddresses BudgetAndReserveHold SourcesAreAsFetched
PROPERTY EveryAcquisitionEnds
CHECK_DEADLOCK FALSE
