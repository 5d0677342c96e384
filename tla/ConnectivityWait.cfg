SPECIFICATION FairSpec
CONSTANTS
  Total = 2
  Remote = {}
  MinConnectivity = 100
  Timeout = 5
  ProbeTimeout = 1
  CloseDelay = 0
  Pause = 1
  MaxTime = 16
CHECK_DEADLOCK FALSE
INVARIANTS
  ReadyWasConnected
  EndsBy
  SteadyNetworkIsReady
PROPERTIES
  WaitEnds
