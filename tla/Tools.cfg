SPECIFICATION Spec
CONSTANTS
  Depth = 2
  FileKeys = {"debugEnabled", "quiet", "silent", "includeNotCovered", "parallelization", "gitDiffRef", "gitProjectRoot"}
  MaxKeys = 2
  MaxOptions = 2
  Workers = {w1, w2}
  MaxMessages = 2
  NFiles = 2
  MaxHunks = 2
  Starts = {0, 2, 12}
  Counts = {0, 1, 2, 11}
  Lines = {1, 2, 3, 4, 12, 13, 14, 22, 23}
  Lookalikes = {0}
  Names = {n1}
  MaxMutants = 2
  MaxReporters = 2
  MaxRuns = 2
INVARIANTS
  NearestWordCounts
  FatalMessageIsTheLast
  MessagesBeginLines
  AdmitsTheChange
  ReportsAgree
PROPERTIES
  DatabaseIsWhole
CHECK_DEADLOCK FALSE
