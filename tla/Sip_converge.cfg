SPECIFICATION FairSpec
CONSTANTS
  Nodes <- Three
  NodeArray <- ThreeArray
  LinkCost <- LineCost
  INFINITE_COST = 999
  Dist <- LineShortest
  QueueCap = 1
  MaxUpdates = 0
  Watchers = {}
  MaxSuspects = 0
  Stoppers = {}
  MaxStops = 0
  MaxData = 1
INVARIANTS
  TypeOK
  Inductive
  HopIsNearer
PROPERTIES
  FindsDistances
  DataSettles
ACTION_CONSTRAINT PassFirst
