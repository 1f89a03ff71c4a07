CONSTANTS
  N = 2
  Units = {a}
  Workers = {1, 2}
  NoWorker = NoWorker
SPECIFICATION Spec
INVARIANTS
  UnitIsProtected
CHECK_DEADLOCK FALSE
