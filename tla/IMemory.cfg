CONSTANTS
  DiskPages = 8
  Frames = 3
  PageWords = 4
  BlockWords = 2
  Sets = 1
  Ways = 2
  Byte = {0, 1}
  Image <- MCImage
  Fetches <- Code
SPECIFICATION Spec
INVARIANTS
  TypeOK
  CopiesOfImage
  FramesInOrder
PROPERTIES
  FetchAgainHits
  FetchesImage
  FetchesPageLRU
