CONSTANTS
  NumDirs = 7
  KernelDir = 2
  FirstAlloc = 3
  NumEntries = 2
  NumFrames = 5
SPECIFICATION Spec
INVARIANTS
  TablesAreTheDirectorys
  NoJunkMapped
  FramesAccounted
PROPERTIES
  ImplementsAddressSpace
