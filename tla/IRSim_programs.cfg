SPECIFICATION Spec
CONSTANTS
  Files <- SomeFiles
  MemWords = 12
  ReadValues <- Numbers
  Versions <- BothVersions
INVARIANTS
  TypeOK
  IInv
  FramesInv
  FramesDisjoint
  AlwaysHome
  OnlyKnownErrors
PROPERTIES
  ImplementsFrames
CHECK_DEADLOCK FALSE
