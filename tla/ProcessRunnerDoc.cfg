CONSTANTS
  Timeouts = {1, 2}
  StopWait = 1
  MaxOutput = 1
  Capacity = 1
  Horizon = 6
SPECIFICATION Spec
CHECK_DEADLOCK FALSE
INVARIANTS
  PassedWithinTimeout
