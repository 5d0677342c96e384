SPECIFICATION Spec
CONSTANTS
  Builders = {b1, b2}
  Backend = "DockerNat"
  NumPeers = 1
  MaxRuns = 1
  Attempts = 2
  Serial = FALSE
  PerSecond = 2
  MaxTime = 2
  MaxFaults = 1
SYMMETRY Symmetry
CHECK_DEADLOCK FALSE
INVARIANTS
  RetentionBound
