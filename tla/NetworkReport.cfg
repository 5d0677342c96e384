SPECIFICATION MCSpec
CONSTANTS
  Total = 2
  Placements <- SomePlacements
  Lines <- SomeLines
  MaxLines = 2
  MaxTime = 2
  MAX_LOG_LINES = 2
  Polled = 3
  RingGateways = {1}
  LocationsSet <- SomeLocations
  Storing = {1, 2}
  Subscribed = {2}
  MaxChanges = 1
CHECK_DEADLOCK FALSE
INVARIANTS
  NothingLost
  Chronological
  GluedToOwnPeer
  ShownInOrder
  FlowAsLogged
  OneClientAbandoned
  EdgesWereLinks
  MetricsAddUp
