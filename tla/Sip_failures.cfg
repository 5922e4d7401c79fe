SPECIFICATION Spec
CONSTANTS
  Nodes <- Four
  NodeArray <- FourArray
  LinkCost <- LongLineCost
  INFINITE_COST = 999
  Dist <- LongLineShortest
  QueueCap = 1
  MaxUpdates = 3
  Watchers = {3}
  MaxSuspects = 1
  Stoppers = {1}
  MaxStops = 1
  MaxData = 0
INVARIANTS
  OneWriter
  HopIsNeighbour
  HopIffReachable
  OfflineUnused
  CostsAreReal
ACTION_CONSTRAINTS
  PassFirst
  OneFailure
CHECK_DEADLOCK FALSE
