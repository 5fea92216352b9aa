SPECIFICATION Spec
CONSTANTS
  t1 = t1
  t2 = t2
  sh = sh
  recipe = recipe
  sources = sources
  package = package
  rebuilt = rebuilt
  escaping = escaping
  Txs = {t1, t2}
  Shells = {}
  Bindings = {recipe, sources}
  PhaseOf <- MCPhaseOf
  Covers <- MCCovers
  Structural = {}
  Clean = {}
  Retention = 1
  MaxReports = 3
  MaxConfs = 1
SYMMETRY TxSymmetry
CHECK_DEADLOCK FALSE
INVARIANTS ApprovalsAreExactAndOneTime MarkersAreTransactionLocal DecisionsComeFromTheUser
PROPERTIES PruneKeepsTheNewest
