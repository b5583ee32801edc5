CONSTANTS
  DiskPages = 8
  Frames = 2
  PageWords = 2
  BlockWords = 1
  Sets = 2
  Ways = 1
  Byte = {0, 1}
  Image <- MCImage
  Loads <- DirectLoads
  Stores <- DirectStores
SPECIFICATION Spec
INVARIANTS
  TypeOK
  TranslationCoherent
  LinesCurrent
  CleanFrameOnDisk
  FaultMissesCache
  VictimsRotate
  FramesInOrder
PROPERTIES
  DiskWrittenOnEviction
  ImplementsFlatMemory
  ImplementsLRUPaging
