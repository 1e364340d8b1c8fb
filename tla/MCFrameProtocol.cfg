CONSTANTS
  P = P
  E = E
  V = V
  Primary <- MCPrimary
  External <- MCExternal
  Virtual <- MCNone
  SkipExternalFrame = 1
  mDisplays <- TwoDisplays
SPECIFICATION Spec
INVARIANTS
  TypeOK
  SkippedKeepsGeometry
  RoundKept
PROPERTIES
  ShownOwnsResources
  Contract
