SPECIFICATION Spec
CONSTANTS
  Contents <- MCContents
  Verdicts <- MCVerdicts
  Configs <- MCConfigs
  MaxBatches = 1
  MaxEdits = 0
  MaxScans = 1
INVARIANT EveryScanIsDescribed
CHECK_DEADLOCK FALSE
