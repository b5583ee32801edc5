CONSTANTS
  ByteBits = 2
  Reg = {0, 1, 2, 29, 31}
  CodeWords = 6
  DataWords = 8
  MaxCycles = 12
  Programs <- FarPrograms
SPECIFICATION Spec
CHECK_DEADLOCK FALSE
PROPERTIES AddressOverflowFirst
