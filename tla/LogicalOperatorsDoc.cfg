SPECIFICATION Spec
INVARIANTS
  OperatorIsReplaced
CHECK_DEADLOCK FALSE
