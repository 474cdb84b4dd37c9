SPECIFICATION FairSpec
CONSTANTS
  Registry <- MCRegistry
  HasTags = TRUE
  Bound = 3
INVARIANTS
  TypeOK
  InStep
  DeliveredInOrder
PROPERTIES
  Completes
  TasksEnd
CHECK_DEADLOCK FALSE
