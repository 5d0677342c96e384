SPECIFICATION Spec
CONSTANTS
  NumPeers = 4
  Remote = {2, 4}
CHECK_DEADLOCK FALSE
INVARIANTS
  NothingLeftRunning
