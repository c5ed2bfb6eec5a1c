CONSTANTS
  PageSize = 2
  MemoryEnd = 16
  MaxEntries = 4
  KernelStart = 4
  KernelEnd = 7
SPECIFICATION Spec
INVARIANT ReservedEntriesReserved
