CONSTANTS
  None = None
  Faults = {"S_FMT", "REQBUFS", "QBUF", "DQBUF", "thread", "scaler", "image buffer"}
  Planes <- TwoFormats
  Shots <- SixShots
  MaxThreads = 1
  MaxThumb = 2
  Lengths = {1, 2, 3}
  Quality = 30
  GivenFirst = TRUE
  MaySwitch = FALSE
  MayStrand = FALSE
SPECIFICATION FairSpec
INVARIANTS
  TypeOK
  JobAsAsked
  EmbedsOwnThumb
  FaultlessShotSucceeds
PROPERTIES
  EncodeEnds
