SPECIFICATION MCSpec
CONSTANTS
  LocalTotal = 3
  Ports = {1, 2, 3}
  MaxOthers = 1
  DockerSizes <- Sizes
  Octet = 17
  Bases = {1, 250}
  Debug = TRUE
  MaxVersion = 2
  MaxNodes = 3
  Hows = {"sync", "current", "multi"}
  MayCancel = TRUE
CHECK_DEADLOCK FALSE
INVARIANTS
  OwnTransportsApart
  RunningAnswersItsUrl
  RefusedBeyondBounds
  NeverStale
  LeavesNothing
  AbortTakesTwo
PROPERTIES
  DropGoesOn
  DropReturns
