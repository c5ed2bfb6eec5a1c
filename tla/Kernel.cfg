CONSTANTS
  CallsInitialise = {FALSE, TRUE}
  Lines = {0, 1, 8, 14}
  Faults = {0, 14}
  EaxValues = {0, 1, 2, 6, 255, 256}
  TrapDepths = {30, 48}
SPECIFICATION FairSpec
INVARIANTS
  ContextMatchesState
  NothingLeftInService
  OverrunStops
PROPERTIES
  TrapsRestoreRegisters
  HandlerGetsArguments
  TopLineServed
