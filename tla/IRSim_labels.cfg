SPECIFICATION Spec
CONSTANTS
  Files <- SomeFiles
  MemWords = 12
  ReadValues <- Numbers
  Versions <- BothVersions
INVARIANTS
  LabelsDefined
CHECK_DEADLOCK FALSE
