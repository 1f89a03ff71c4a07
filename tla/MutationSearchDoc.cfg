CONSTANTS
  NInstructions = 6
  NFunctions = 2
  Located = {1, 2, 3, 4, 6}
  InDiff = {1, 3, 6}
  InPath = {1, 2, 3, 4}
  Junk = {2, 4}
  Logical = {3, 4, 5}
  Trivial = {1, 2, 3, 5, 6}
SPECIFICATION Spec
INVARIANTS
  OnlyMutationsOfTheDiff
CHECK_DEADLOCK FALSE
