CONSTANTS
  P = P
  E = E
  V = V
  Primary <- MCPrimary
  External <- MCExternal
  Virtual <- MCNone
  SkipExternalFrame = 1
  mDisplays <- TwoDisplays
  HWC_SKIP_VALIDATE = TRUE
SPECIFICATION Hwc3Spec
INVARIANTS
  Hwc3TypeOK
PROPERTIES
  Hwc3Contract
