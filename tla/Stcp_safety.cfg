SPECIFICATION Spec
CONSTANTS
  GBN_WINDOW = 2
  SYN_MAX_RETRY = 2
  FIN_MAX_RETRY = 2
  RECEIVE_BUF_SIZE = 2
  SegLens = {1, 2}
  RecvLens = {1, 2}
  MaxSeq = 3
  MaxRuns = 1
  ChanCap = 2
  Overtaking = TRUE
INVARIANTS
  TypeOK
  ReliableStream
  AckedIsTaken
  WindowBookkeeping
  BufferFits
  OpenMeansConnected
  CloseAfterAllData
  DisconnectClosesBoth
PROPERTIES
  ImplementsService
CHECK_DEADLOCK FALSE
