CONSTANTS
  d1 = d1
  d2 = d2
  m1 = m1
  m2 = m2
  s1 = s1
  s2 = s2
  r1 = r1
  r2 = r2
  None = None
  Devices = {d1}
  Modes = {m1}
  Scales = {s1}
  Rotations = {r1, r2}
  Tokens = {1, 2, 3}
  Faults = {}
  EmptyReadFails = FALSE
  Budget <- Spending
  CommandCount = 1
  HotplugCount = 0
  PauseCount = 1
  FaultCount = 0
SPECIFICATION FairSpec
PROPERTY DisplayComesBack
CHECK_DEADLOCK FALSE
