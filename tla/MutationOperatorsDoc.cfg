CONSTANTS
  W = 3
SPECIFICATION Spec
INVARIANTS
  MutantIsAlwaysTheReplacement
CHECK_DEADLOCK FALSE
