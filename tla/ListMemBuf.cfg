SPECIFICATION Spec
CONSTANT MAX = 4
INVARIANT NoSlotLost
PROPERTY ImplementsPool
