SPECIFICATION Spec
CONSTANTS
  Runs = {r1}
  NumGateways = 2
  NumNodes = 3
  Here = here
  Docker = docker
  Machines = {m1}
  Place <- OneMachine
CHECK_DEADLOCK FALSE
INVARIANTS
  GatewaysKnown
