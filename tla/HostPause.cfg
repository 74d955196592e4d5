CONSTANTS
  d1 = d1
  d2 = d2
  m1 = m1
  m2 = m2
  s1 = s1
  s2 = s2
  r1 = r1
  r2 = r2
  None = None
  Devices = {d1, d2}
  Modes = {m1, m2}
  Scales = {s1}
  Rotations = {r1, r2}
  Tokens = {1, 2, 3}
  Faults = {"prepare", "transaction", "reclaimable", "claim", "loop", "bind", "events", "open", "owner", "fatal"}
  EmptyReadFails = TRUE
  Budget <- Spending
  CommandCount = 1
  HotplugCount = 1
  PauseCount = 2
  FaultCount = 1
SPECIFICATION Spec
INVARIANTS PipelinesFollowClaims
CHECK_DEADLOCK FALSE
