CONSTANTS
  Identifiers = {a, b}
  Original = Original
  Durations = {1, 40, 10000}
  Never = 10000
  Timeouts = {0, 50}
  Times = {0, 1, 6, 7, 39, 40, 60, 279, 280, 600, 1000}
  MaxMutants = 2
  WorkerCounts = {0, 2, 7}
  Cores = 1
SPECIFICATION Spec
INVARIANTS
  UndetectedSurvives
  SurvivorsAreUndetected
PROPERTIES
  JudgementEnds
  ImplementsJudgement
CHECK_DEADLOCK FALSE
