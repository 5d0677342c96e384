SPECIFICATION FairSpec
CONSTANTS
  r1 = r1
  Runs = {r1}
  Gateways = 2
  Peers = 2
  MaxAge = 1
  MaxTime = 0
  SecondOctets = {16, 17, 18}
  TakenOctets = {16, 17}
  Bases = {1}
  MAX_SUBNET_RETRIES = 2
  CleanupOnDrop = TRUE
  DaemonFaults = TRUE
CHECK_DEADLOCK FALSE
INVARIANTS
  AllRegistered
PROPERTIES
  BuildEnds
  DropEnds
  EveryCallCounts
