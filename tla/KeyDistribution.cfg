SPECIFICATION Spec
CONSTANTS
  Runs = {r1, r2, r3}
  NumGateways = 2
  NumNodes = 4
  Here = here
  Docker = docker
  Machines = {m1, m2, m3}
  Place <- Mixed
CHECK_DEADLOCK FALSE
INVARIANTS
  IdentitiesDistinct
  OwnGatewaysKnown
