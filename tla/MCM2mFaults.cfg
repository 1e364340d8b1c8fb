CONSTANTS
  A = A
  B = B
  Frame <- TwoFrames
  NumBuffers = 2
  Fence <- ThreeFences
  MaxQueued = 1
  Preallocated = FALSE
  MayDrop = TRUE
  MayFail = TRUE
  None = None
SPECIFICATION Spec
SYMMETRY Interchangeable
INVARIANTS
  NoFenceLeaked
  FenceOwnedOnce
