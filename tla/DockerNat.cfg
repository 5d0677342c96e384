SPECIFICATION ConcurrentSpec
CONSTANTS
  r1 = r1
  r2 = r2
  Runs = {r1, r2}
  Gateways = 0
  Peers = 1
  MaxAge = 0
  MaxTime = 1
  SecondOctets = {17, 18}
  TakenOctets = {}
  Bases = {1, 2}
  MAX_SUBNET_RETRIES = 2
  CleanupOnDrop = TRUE
  DaemonFaults = FALSE
SYMMETRY Symmetry
CHECK_DEADLOCK FALSE
INVARIANTS
  TypeOK
  Tracked
  NoLeak
  PublicSubnetAgrees
  SweepRemovesOld
PROPERTIES
  SweptAreStale
  KeepsLedger
