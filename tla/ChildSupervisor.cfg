CONSTANTS
  MaxRecord = 1
  Capacity = 2
  MaxBytes <- Volume
  Scenarios <- FaultsTogether
SPECIFICATION FairSpec
INVARIANTS WritersKeepReaders SessionIsWhole
PROPERTIES ExitIsTold NobodyWaitsForEver
CHECK_DEADLOCK FALSE
