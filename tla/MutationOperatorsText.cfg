CONSTANTS
  W = 3
SPECIFICATION Spec
INVARIANTS
  DescriptionIsTrue
CHECK_DEADLOCK FALSE
