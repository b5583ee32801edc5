CONSTANTS
  ByteBits = 2
  Reg = {0, 1, 2, 29, 31}
  CodeWords = 12
  BHTSize = 2
  Programs <- SharedPrograms
  Starts <- MCStarts
  DataImage <- MCData
SPECIFICATION FairSpec
CHECK_DEADLOCK FALSE
PROPERTIES EveryOutcomeCounts
