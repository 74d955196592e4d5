\* A runtime that fails to come up and tries again
SPECIFICATION RetrySpec
CONSTANTS
  Parts = {"session"}
  Boots = {TRUE}
  Mouse = {"a", "b"}
  Window = 1
  MaxTime = 2
  MaxClaims = 2
  MaxInputs = 3
  MaxFlips = 3
  MaxFrames = 2
  MaxButtons = 2
  Pane = {"p"}
  Place = {1, 2}
  Scale = {1, 2}
  MaxGen = 3
  MaxMoves = 3
  Rotation = {"deg0", "deg90"}
  UsualRotation = "deg0"
  Factor = {1, 2}
  UsualFactor = 1
  MaxBoots = 2
  MaxAsks = 1
  MaxFails = 2
  Card <- MCCard
  MaxFailed = 2
PROPERTIES
  HostComesUp
CHECK_DEADLOCK FALSE
