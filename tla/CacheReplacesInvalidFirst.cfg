CONSTANTS
  DiskPages = 8
  Frames = 2
  PageWords = 4
  BlockWords = 2
  Sets = 1
  Ways = 2
  Byte = {0, 1}
  Image <- MCImage
  Loads <- AssocLoads
  Stores <- AssocStores
SPECIFICATION Spec
PROPERTIES CacheReplacesInvalidFirst
