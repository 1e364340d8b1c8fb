SPECIFICATION Spec
CONSTANTS
  O1 = O1
  O2 = O2
  O3 = O3
  G1 = G1
  G2 = G2
  None = None
  LayerNum = 5
  Kind <- Kinds
  OtfMPPs <- ThreeOtf
  Single = G1
  Blending = G2
  MaxSrcLayerNum = 2
  Capacity = 2
  MaxWindowNum = 2
  TryCount = 100
  useMaxG2DSrc = FALSE
INVARIANTS TypeOK EveryLayerShown BlendedIsContiguous NeverGivesUp NoInversion
