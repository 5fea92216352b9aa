SPECIFICATION Spec
CONSTANTS
  t1 = t1
  t2 = t2
  sh = sh
  recipe = recipe
  sources = sources
  package = package
  rebuilt = rebuilt
  escaping = escaping
  Txs = {t1}
  Shells = {sh}
  Bindings = {package, rebuilt, escaping}
  PhaseOf <- MCPhaseOf
  Covers <- MCCovers
  Structural = {escaping}
  Clean = {}
  Retention = 2
  MaxReports = 3
  MaxConfs = 2
CHECK_DEADLOCK FALSE
INVARIANTS IInv InlineAnswersDieWithTheirScan
