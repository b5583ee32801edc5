CONSTANTS
  ByteBits = 2
  Reg = {0, 1, 2, 29, 31}
  CodeWords = 12
  BHTSize = 4
  Programs <- BackwardPrograms
  Starts <- MCStarts
  DataImage <- MCData
SPECIFICATION FairSpec
CHECK_DEADLOCK FALSE
PROPERTIES ImplementsISA
