CONSTANTS
  p1 = p1
  s1 = s1
  s2 = s2
  None = None
  Panes <- OnePane
  Specs <- OneSpec
  Requests = {"switchExternal", "switchSurfAce", "launchHosts", "release", "snapshot", "toggle", "recover", "selectMain", "runtime"}
  Outcomes = {"started", "failed"}
  StopMayFail = TRUE
  Wrappers = TRUE
  MaxOps = 4
  MaxRevision = 0
SPECIFICATION FairSpec
INVARIANTS WantedIsLaunched
PROPERTIES RequestsEnd
