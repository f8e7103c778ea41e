SPECIFICATION FairSpec
CONSTANTS
    Motions = {m1, m2}
    Prunable = {m1}
    MAX_MOTIONS = 2
    MaxAdds = 3
INVARIANTS CheckedOutIsAlive UpdatedIsStarted AgreeWhenQuiet
PROPERTY DeadIsFreed
CHECK_DEADLOCK FALSE
