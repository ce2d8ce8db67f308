SPECIFICATION FairSpec
CONSTANTS
  Up = 3
  Down = 2
  Buffer = 2
  Window = 1
INVARIANTS
  UploadIntact
  DownloadInOrder
PROPERTIES
  UploadArrives
  ShutdownEnds
CHECK_DEADLOCK FALSE
