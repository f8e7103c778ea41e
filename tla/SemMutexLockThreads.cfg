SPECIFICATION FairSpec
CONSTANTS
  Threads = {1, 2}
  Process <- TwoInOne
  Handle <- OwnHandle
  NoThread = 0
  MaxLevel = 2
  MayFault = FALSE
INVARIANT MutualExclusion
CHECK_DEADLOCK FALSE
