SPECIFICATION FairSpec
CONSTANTS
  num_doors = 2
  MaxLevel = 2
  Modes = {TRUE, FALSE}
INVARIANTS MutualExclusion OwnerIsHolder FirstComeFirstServed
PROPERTY LockIsAchieved
