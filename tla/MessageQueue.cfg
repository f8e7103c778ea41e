SPECIFICATION Spec
CONSTANTS
    Senders = {s}
    Receivers = {r1, r2}
    MayJoinLate = {r2}
    Leaving = {r2}
    Policies = {"DROP_OLDEST", "DROP_NEWEST", "WAIT"}
    MayClose = TRUE
    CAPACITY = 2
    RECEIVER_CAPACITY = 2
    MaxSends = 3
INVARIANTS ReadCounts RefsAccounted CurrentIsQueued InOrder NoLostWakeup SomebodyStillReads
PROPERTIES ImplementsFeed
CHECK_DEADLOCK FALSE
