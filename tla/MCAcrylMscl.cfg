CONSTANTS
  None = None
  Layers <- FiveLayers
  Canvases <- ThreeCanvases
  Dimensions = {1, 2}
  Types = {"RGB", "BT601", "BT709"}
  MaxScale = 2
  Faults <- Recoverable
SPECIFICATION Spec
INVARIANTS
  TypeOK
  ConfiguredAsAsked
  FaultlessJobSucceeds
  NoFenceLeaked
