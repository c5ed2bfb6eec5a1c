CONSTANTS
  TableSize = 20
  PageSize = 4
  ElementSize = 2
  WordSize = 2
  ClientLimit = 5
  MaxSupply = 2
SPECIFICATION Spec
INVARIANTS
  EveryElementOnce
  PushIsBacked
  ElementsBacked
  ElementsBelowFreeArray
PROPERTIES
  ImplementsPool
