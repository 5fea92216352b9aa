SPECIFICATION Spec
CONSTANTS
  Contents <- MCContents
  Verdicts <- MCVerdicts
  Configs <- MCConfigs
  MaxBatches = 1
  MaxEdits = 1
  MaxScans = 4
INVARIANT AllowedMeansDecided BlockingVerdictsNeedTheUser SummaryTellsTheDecision
CHECK_DEADLOCK FALSE
