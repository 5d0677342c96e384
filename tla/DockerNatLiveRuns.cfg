SPECIFICATION Spec
CONSTANTS
  r1 = r1
  r2 = r2
  Runs = {r1, r2}
  Gateways = 1
  Peers = 0
  MaxAge = 1
  MaxTime = 2
  SecondOctets = {17, 18}
  TakenOctets = {17}
  Bases = {1}
  MAX_SUBNET_RETRIES = 2
  CleanupOnDrop = TRUE
  DaemonFaults = FALSE
SYMMETRY Symmetry
CHECK_DEADLOCK FALSE
PROPERTIES
  SweepSparesLiveRuns
