SPECIFICATION MCSpec
CONSTANTS
  CHAR_BIT = 2
  ShamtBits = 3
  NumRegs = 3
  Assignments <- MCAssignments
  MaxReads = 4
  MemSize = 8
  CtrlStart = 64
  SensorStart = 96
  DeviceSize = 16
  TrapVector = 128
  Instrs <- MCInstrs
  Prefixes <- MCPrefixes
  MaxFree = 2
INVARIANTS
  RegistersAreFaithful
  MemoryIsFaithful
  PathIsDetermined
CHECK_DEADLOCK FALSE
