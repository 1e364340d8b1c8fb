---------------------------- MODULE MCM2mBuffer ----------------------------
EXTENDS M2mBuffer, TLC
CONSTANTS A, B
TwoFrames == {A, B}
ThreeFences == 1 .. 3
FiveFences == 1 .. 5
Interchangeable == Permutations(TwoFrames)
=============================================================================
