CONSTANTS
  TableSize = 20
  PageSize = 4
  ElementSize = 2
  WordSize = 2
  ClientLimit = 6
  MaxSupply = 6
SPECIFICATION Spec
INVARIANT ElementsBelowFreeArray
