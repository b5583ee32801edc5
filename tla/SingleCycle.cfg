CONSTANTS
  ByteBits = 2
  Reg = {0, 1, 2, 29, 31}
  CodeWords = 6
  DataWords = 8
  MaxCycles = 12
  Programs <- MCPrograms
SPECIFICATION Spec
CHECK_DEADLOCK FALSE
INVARIANTS
  TypeOK
  ErrorOrder
  FatalIsLast
  OneSnapshotPerCycle
PROPERTIES
  ErrorsExact
  ImplementsISA
