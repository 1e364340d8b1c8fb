-------------------------- MODULE MCFrameProtocol --------------------------
EXTENDS FrameProtocol
CONSTANTS P, E, V
MCPrimary == {P}
MCExternal == {E}
MCVirtual == {V}
MCNone == {}
TwoDisplays == <<P, E>>
WithVirtual == <<P, V>>
ThreeDisplays == <<P, E, V>>
=============================================================================
