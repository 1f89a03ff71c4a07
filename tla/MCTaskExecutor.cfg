CONSTANTS
  MaxItems = 6
  MaxTasks = 4
  Emits <- MCEmits
SPECIFICATION Spec
INVARIANTS
  SlicesPartitionInput
  ReferencesStayValid
  ReporterEndsAfterLastItem
  OutputInInputOrder
PROPERTIES
  Termination
  ImplementsOrderedMap
