SPECIFICATION Spec
CONSTANTS
    a = a
    b = b
    t = t
    Every = Every
    numEGIDs = 2
    erouterEGID = 1
    Listeners = {a, b}
    Trappers = {t}
    Events <- SomeEvents
    Scopes <- SomeScopes
    Setups <- SomeSetups
    MaxPosts = 3
INVARIANTS NoDanglingPosting EachSubscriptionServed QuietTrapHolds ObserversKnow
PROPERTY InPostingOrder
CHECK_DEADLOCK FALSE
