CONSTANTS
  P = P
  E = E
  V = V
  Primary <- MCPrimary
  External <- MCNone
  Virtual <- MCVirtual
  SkipExternalFrame = 1
  mDisplays <- WithVirtual
SPECIFICATION Spec
PROPERTY SkippedValidateOwnsAll
