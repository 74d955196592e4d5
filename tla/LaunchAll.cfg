CONSTANTS
  p1 = p1
  s1 = s1
  s2 = s2
  None = None
  Panes <- OnePane
  Specs <- TwoSpecs
  Requests = {"switchSurfAce", "snapshot", "host", "update", "release", "launchHosts", "selectMain", "runtime", "toggle"}
  Outcomes = {"started", "failed", "unconfirmed"}
  StopMayFail = TRUE
  Wrappers = FALSE
  MaxOps = 3
  MaxRevision = 1
SPECIFICATION Spec
INVARIANTS  TypeOK LaunchIndexExact NothingIsLost RunsWhatIsWanted OneShellLaunch AnswersAreAwaited OnlyOwnersRun
