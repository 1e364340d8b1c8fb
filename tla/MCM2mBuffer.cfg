CONSTANTS
  A = A
  B = B
  Frame <- TwoFrames
  NumBuffers = 3
  Fence <- FiveFences
  MaxQueued = 2
  Preallocated = FALSE
  MayDrop = FALSE
  MayFail = FALSE
  None = None
SPECIFICATION Spec
INVARIANTS
  TypeOK
  WriteWaitsForReaders
PROPERTY PresentedIsCurrent
