CONSTANTS
  ByteBits = 2
  Reg = {0, 1, 2, 29, 31}
  CodeWords = 12
  BHTSize = 2
  Programs <- AllPrograms
  Starts <- MCStarts
  DataImage <- MCData
SPECIFICATION FairSpec
CHECK_DEADLOCK FALSE
INVARIANTS
  TypeOK
  OperandsCurrent
  StallsEnd
PROPERTIES
  CountersFollowBranches
  ImplementsISA
  KeepsExecuting
