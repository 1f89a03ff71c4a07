CONSTANTS
  NFiles = 2
  MaxHunks = 2
  Starts = {2, 12}
  Counts = {0, 1}
  Lines = {1, 2, 3, 4, 12, 13, 14}
  Lookalikes = {0, 1, 2}
SPECIFICATION Spec
INVARIANTS
  OnlyChangedLines
CHECK_DEADLOCK FALSE
