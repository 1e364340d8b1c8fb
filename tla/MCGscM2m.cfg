CONSTANTS
  None = None
  Freed = Freed
  Frames <- SixFrames
  NumBuffers = 3
  MaxQueued = 4
  Faults = TRUE
SPECIFICATION FairSpec
INVARIANTS
  TypeOK
  DriverAsked
  ConvertsAsAsked
  BufferFits
  ProtectedWhileSecure
  WaitsForScreen
PROPERTIES
  SetEnds
