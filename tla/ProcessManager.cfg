CONSTANTS
  MaxRequests = 2
  Pids = {11, 12}
  MaxSlot = 1
  MainRequests = {1, 2}
  Scenarios <- FaultsTogether
SPECIFICATION FairSpec
INVARIANTS OneCopy UnitsAreWhole
PROPERTIES LostOnlyByStop ImplementsChildControl AllIsReported
CHECK_DEADLOCK FALSE
