CONSTANTS
  Timeouts = {0, 1, 2}
  StopWait = 2
  MaxOutput = 3
  Capacity = 1
  Horizon = 7
SPECIFICATION Spec
CHECK_DEADLOCK FALSE
INVARIANTS
  VerdictIsTheChilds
  TimedoutOnlyAfterTimeout
  ReturnsWithinTwiceTheTimeout
  NoChildLeftRunning
  OutputOfPassedIsComplete
PROPERTIES
  Returns
  ImplementsTestRun
