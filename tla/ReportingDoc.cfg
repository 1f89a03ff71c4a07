SPECIFICATION Spec
CONSTANTS
  Names = {n1}
  MaxMutants = 2
  MaxReporters = 2
  MaxRuns = 1
INVARIANT PatchForEachMutation
CHECK_DEADLOCK FALSE
