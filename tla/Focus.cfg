SPECIFICATION Spec
CONSTANTS
  Pane = {"p1", "p2"}
  Ident = {"i1", "i2"}
  Bind = {"b1"}
  Surface = {"s1"}
  Inst = {"n1"}
  MaxRev = 1
  Button = {"left", "right"}
  Unresolved = {"u"}
  Window <- MCWindow
  KindOf <- MCKind
  PaneOf <- MCPane
  ParentOf <- MCParent
  Requests <- MCRequests
  Generations <- MCGenerations
  FocusGens <- MCFocusGens
  Scenarios <- MCScenarios
INVARIANTS RegionsNameTheirPane  ClickedWindowGetsKeys ReleaseMatchesPress 
CHECK_DEADLOCK FALSE
