SPECIFICATION Spec
CONSTANTS
  Depth = 2
  FileKeys = {"debugEnabled", "includeNotCovered", "timeout", "parallelization", "excludePaths"}
  MaxKeys = 2
  MaxOptions = 2
INVARIANT GoodKeysApply
CHECK_DEADLOCK FALSE
