SPECIFICATION FairSpec
CONSTANTS
  GBN_WINDOW = 2
  SYN_MAX_RETRY = 1
  FIN_MAX_RETRY = 1
  RECEIVE_BUF_SIZE = 2
  SegLens = {1, 2}
  RecvLens = {2}
  MaxSeq = 3
  MaxRuns = 1
  ChanCap = 2
  Overtaking = FALSE
PROPERTIES
  RecvReturns
CHECK_DEADLOCK FALSE
