SPECIFICATION FairSpec
CONSTANTS
  GBN_WINDOW = 1
  SYN_MAX_RETRY = 1
  FIN_MAX_RETRY = 1
  RECEIVE_BUF_SIZE = 1
  SegLens = {1}
  RecvLens = {1}
  MaxSeq = 2
  MaxRuns = 1
  ChanCap = 2
  Overtaking = FALSE
PROPERTIES
  SentIsAcked
  RecvReturns
  DisconnectReturns
CHECK_DEADLOCK FALSE
