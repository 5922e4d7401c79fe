SPECIFICATION FairSpec
CONSTANTS
  Nodes <- Three
  NodeArray <- ThreeArray
  LinkCost <- LineCost
  INFINITE_COST = 999
  Dist <- LineShortest
  QueueCap = 1
  MaxUpdates = 2
  Watchers = {3}
  MaxSuspects = 1
  Stoppers = {}
  MaxStops = 0
  MaxData = 0
PROPERTIES
  DaemonNotStuck
CHECK_DEADLOCK FALSE
