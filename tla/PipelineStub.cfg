SPECIFICATION PSpec
CONSTANTS
  ALIGN = 2
  HDR = 3
  FIRST = 2
  PAGE = 8
  LOCK_TYPES <- MCLocks
  PspWindow = 4
  BlobSize = 5
  BaseFiles = 2
  CapsuleSizes = {6, 7}
  Room = 6
  MaxCrashes = 1
  AuthorDump <- MCAuthorDump
  Blobs <- MCBlobs
  Setups <- FirstRungs
INVARIANT Reproduces
CHECK_DEADLOCK FALSE
