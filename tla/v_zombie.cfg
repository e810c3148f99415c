SPECIFICATION Spec
CONSTANTS
    MaxConns = 2
    MaxSpawns = 2
    MaxSaid = 1
    MaxKeys = 1
    MaxMessages = 2
    MenuStackMax = 12
INVARIANT ChildrenReapable
CHECK_DEADLOCK FALSE
