CONSTANTS
  Encodings = {e, f}
  Identifiers = {1, 2}
  Libraries = {lib}
  Regions = {"r1", "r2"}
  Profiles <- MCProfiles
  Unloaded = Unloaded
SPECIFICATION Spec
INVARIANTS
  ReportIsComplete
  NoCountersNoSkip
  NotCoveredWasNotReached
  StrictReportIsClean
CHECK_DEADLOCK FALSE
