\* The four parts that share no state, one at a time
SPECIFICATION Spec
CONSTANTS
  Parts = {"measure", "scene", "session", "scanout"}
  Boots = {TRUE}
  Mouse = {"a", "b"}
  Window = 1
  MaxTime = 2
  MaxClaims = 2
  MaxInputs = 3
  MaxFlips = 3
  MaxFrames = 2
  MaxButtons = 2
  Pane = {"p"}
  Place = {1, 2}
  Scale = {1, 2}
  MaxGen = 3
  MaxMoves = 3
  Rotation = {"deg0", "deg90"}
  UsualRotation = "deg0"
  Factor = {1, 2}
  UsualFactor = 1
  MaxBoots = 2
  MaxAsks = 3
  MaxFails = 2
  Card <- MCCard
  MaxFailed = 2
INVARIANTS
  ValidCaptureIsHonest
  CaptureIsOfCommittedGeometry
  PendingStartIsKept
  AnsweredRotationIsKept
  
  OverlayShownOnce
PROPERTIES
  CommitSettlesPanes
CHECK_DEADLOCK FALSE
