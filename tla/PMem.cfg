CONSTANTS
  MapLength = 4
  BlockBytes = 2
  TopState = 4
  Sizes = {0, 1, 2, 3, 5, 8, 11}
SPECIFICATION FairSpec
INVARIANTS
  MapCountsReferences
  ScanKnows
  NeverHangs
PROPERTIES
  ImplementsPhysicalMemory
  AllocReturns
