SPECIFICATION Spec
CONSTANTS
  Window <- WindowSet
  Proc <- Processes
  RootOf <- Tokens
  Launches <- Hosted
  Scenarios <- OwnedBy
INVARIANTS RolesAreWhole
PROPERTIES TicksSettleRoles CloseOnlyWhenCertain
CHECK_DEADLOCK FALSE
