SPECIFICATION Spec
CONSTANTS
  Directories <- MCDirectories
  Files <- MCFiles
  Lines <- MCLines
  Extra <- MCExtra
  UnitWords <- MCUnitWords
  CommandWords <- MCCommandWords
  Names = {"all", "cxx_default", "cxx_arithmetic", "cxx_logical", "cxx_add_to_sub", "cxx_nonsense"}
  MaxNames = 2
  NInstructions = 6
  NFunctions = 2
  Located = {1, 2, 3, 4, 6}
  InDiff = {1, 3, 6}
  InPath = {1, 2, 3, 4}
  Junk = {2, 4}
  Logical = {3, 4, 5}
  Trivial = {1, 2, 3, 5, 6}
  W = 3
INVARIANTS
  FlagsOfTheFile
  OneAnswerPerCompiler
  SelectionIsExact
  PathFilterSeesLocations
  MutationsAreExact
  MutantIsTheReplacement
  OneMutationPerMutator
  SimpleOperatorIsReplaced
CHECK_DEADLOCK FALSE
