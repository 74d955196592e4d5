CONSTANTS
  p1 = p1
  s1 = s1
  s2 = s2
  None = None
  Panes <- OnePane
  Specs <- OneSpec
  Requests = {"selectMain", "runtime", "host"}
  Outcomes = {"started", "failed"}
  StopMayFail = FALSE
  Wrappers = FALSE
  MaxOps = 4
  MaxRevision = 0
SPECIFICATION Spec
INVARIANTS NoDeadProcessShown
