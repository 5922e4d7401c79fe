SPECIFICATION Spec
CONSTANTS
  GBN_WINDOW = 2
  SYN_MAX_RETRY = 1
  FIN_MAX_RETRY = 1
  RECEIVE_BUF_SIZE = 3
  SegLens = {1, 2}
  RecvLens = {1, 2}
  MaxSeq = 3
  MaxRuns = 2
  ChanCap = 2
  Overtaking = FALSE
INVARIANTS
  IInv
  ConnInv
  PositionsInOrder
  RunsInOrder
PROPERTIES
  DiesAfterClose
  DiesWithoutTcb
CHECK_DEADLOCK FALSE
