-------------------------- MODULE MCDynamicRecomp --------------------------
EXTENDS DynamicRecomp
CONSTANTS Primary, External, Virtual
TwoDisplays == {Primary, External}
ThreeDisplays == {Primary, External, Virtual}
OneDefault == {Primary}
TwoThreads == 1 .. 2
ThreeThreads == 1 .. 3
Zero == {0}
AnyStatus == {0, 1}
Cleared == {FALSE}
Anything == {TRUE, FALSE}
=============================================================================
