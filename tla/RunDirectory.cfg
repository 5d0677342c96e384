SPECIFICATION Spec
CONSTANTS
  Builders = {b1, b2}
  Backend = "Local"
  NumPeers = 1
  MaxRuns = 1
  Attempts = 2
  Serial = TRUE
  PerSecond = 1
  MaxTime = 4
  MaxFaults = 1
SYMMETRY Symmetry
CHECK_DEADLOCK FALSE
INVARIANTS
  RetentionBound
  OwnFilesOnly
  FailureIsMarked
PROPERTIES
  NewestSurvive
