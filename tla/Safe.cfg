CONSTANTS
  PageSize = 2
  NumPages = 5
  KernelPage = 3
  MaxLimit = 4
SPECIFICATION Spec
INVARIANTS
  LengthIsRight
  CopiesAPrefix
  ShortCopyNeverFaults
  ShortCopyStaysOnSide
