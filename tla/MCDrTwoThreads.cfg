CONSTANTS
  Primary = Primary
  External = External
  Virtual = Virtual
  Display <- TwoDisplays
  DRDefault <- OneDefault
  Thread <- TwoThreads
  NoThread = 0
  StatusAtStart <- Zero
  LoopAtStart <- Cleared
SPECIFICATION Spec
INVARIANT OneThread
