CONSTANTS
  DiskPages = 8
  Frames = 3
  PageWords = 1
  BlockWords = 1
  Sets = 1
  Ways = 1
  Byte = {0, 1}
  Image <- MCImage
  Loads <- FourLoads
  Stores <- FourStores
SPECIFICATION Spec
PROPERTIES
  TLBReplacesLRU
