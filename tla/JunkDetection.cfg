CONSTANTS
  N = 3
  Units = {a, b}
  Workers = {1, 2, 3}
  NoWorker = NoWorker
SPECIFICATION Spec
INVARIANTS
  UnitsParsedOnce
PROPERTIES
  AllJudged
CHECK_DEADLOCK FALSE
