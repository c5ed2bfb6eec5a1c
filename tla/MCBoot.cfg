CONSTANTS
  PageSize = 512
  TablePages = 3
  Requests = {300, 980}
  ClientLimit = 1536
  Word = 1024
  Octet = 32
  Nibble = 2
  KernelStart = 786432
  TssAddress = 787000
  TssSize = 104
  IdtBytes = 256
  StubsStart = 820000
  BlockSize = 8
  SizeValues = 4096
  NameSize = 2
  Letters = {1}
  SizeDigits = 2
  Contents <- MCContents
  MaxSupply = 14
  LaterSupply = 2
  MaxFiles = 2
  Mcp <- MCMcp
  StackWords = 48
  EntryPoint = 4096
  ErrorCode = 7
  SoftwareVectors = {3, 13, 64, 128}
SPECIFICATION Spec
INVARIANTS
  BootTypeOK
  GrantsBacked
  TrapsReported
  FirstEntryFits
  ListsEveryFile
  HangsForAReason
PROPERTIES
  BootEnds
