CONSTANTS
  Primary = Primary
  External = External
  Virtual = Virtual
  Display <- ThreeDisplays
  DRDefault <- TwoDisplays
  Thread <- ThreeThreads
  NoThread = 0
  StatusAtStart <- Zero
  LoopAtStart <- Anything
SPECIFICATION FairSpec
INVARIANTS
  TypeOK
  TwoOnlyIfOverlooked
  LoopHasThread
  EndedIsJoined
PROPERTIES
  LastOffDestroys
  PowerModeReturns
