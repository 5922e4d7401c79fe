SPECIFICATION FairSpec
CONSTANTS
  Nodes <- Three
  Nbrs <- Star
  NoFd = NoFd
  Free = Free
  Socket = Socket
  Runs <- TwoRuns
  Sips <- SipAtOne
  MaxStops = 2
  MaxFd = 6
INVARIANTS
  TypeOK
  EntriesRight
  DiesOnlyAfterStop
PROPERTIES
  StartsTogether
  Relinks
ACTION_CONSTRAINT TwoFailures
CHECK_DEADLOCK FALSE
