SPECIFICATION FairSpec
CONSTANTS
  Threads = {1, 2}
  Process <- OneThreadEach
  Handle <- ForkedHandle
  NoThread = 0
  MaxLevel = 2
  MayFault = TRUE
INVARIANTS MutualExclusion SemaphoreCountsLevels NeverWaitsForItself
PROPERTY LockIsAchieved
CHECK_DEADLOCK FALSE
