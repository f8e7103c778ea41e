SPECIFICATION ThreadSpec
CONSTANTS
    Listeners = {a, b}
    SIDs = {0}
    Cells = {1, 2}
    Delays = {0, 1}
    Never = 99
    MaxTime = 2
    MaxCalls = 3
INVARIANTS PendingAsRequested SleepsUntilNext
PROPERTIES FiresWhenDue DueTimersFire
CHECK_DEADLOCK FALSE
