CONSTANTS
  PageSize = 2
  NumPages = 4
  NumEntries = 2
  FileSize = 5
  NumHeaders = 2
  MaxBytes = 3
  MaxSupply = 6
  SizeValues = 256
SPECIFICATION Spec
INVARIANTS
  ImageIsLoaded
  BlocksAccounted
  FailsForMemory
  FaultsOnlyUnaligned
