CONSTANTS
  Functions = {f, g}
  Identifiers = {a, b}
  N = 3
  NoFunction = NoFunction
  NoRun = NoRun
SPECIFICATION Spec
INVARIANTS
  RunsSelectedMutation
  RecordsAreSelectable
PROPERTIES
  CallsReturn
