CONSTANTS
  ByteBits = 2
  Reg = {0, 1, 2, 29, 31}
  DiskWords = 32
  IFrames = 2
  IPageWords = 4
  IBlockWords = 2
  ISets = 1
  IWays = 2
  DFrames = 2
  DPageWords = 4
  DBlockWords = 1
  DSets = 2
  DWays = 1
  IImage <- MCCode
  DImage <- MCData
  Decode <- MCDecode
  Starts <- MCStarts
SPECIFICATION FairSpec
INVARIANTS
  TypeOK
PROPERTIES
  ExecutesImage
  ImplementsISA
  Halts
