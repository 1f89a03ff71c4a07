SPECIFICATION Spec
CONSTANTS
  Depth = 2
  FileKeys = {"debugEnabled", "includeNotCovered", "timeout", "parallelization", "excludePaths"}
  MaxKeys = 2
  MaxOptions = 2
INVARIANT TestOutputIsNotCaptured
CHECK_DEADLOCK FALSE
