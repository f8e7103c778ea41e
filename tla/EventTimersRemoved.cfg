SPECIFICATION Spec
CONSTANTS
    Listeners = {a, b}
    SIDs = {0}
    Cells = {1, 2, 3}
    Delays = {0, 1, 2}
    Never = 99
    MaxTime = 2
    MaxCalls = 4
INVARIANT RemovedIsGone
CHECK_DEADLOCK FALSE
