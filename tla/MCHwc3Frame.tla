---------------------------- MODULE MCHwc3Frame ----------------------------
EXTENDS Hwc3Frame
CONSTANTS P, E, V
MCPrimary == {P}
MCExternal == {E}
MCVirtual == {V}
MCNone == {}
TwoDisplays == <<P, E>>
=============================================================================
