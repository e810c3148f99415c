SPECIFICATION Spec
CONSTANTS
    MaxConns = 2
    MaxSpawns = 1
    MaxSaid = 1
    MaxKeys = 1
    MaxMessages = 2
    MenuStackMax = 12
PROPERTY ClosesOwnServer
CHECK_DEADLOCK FALSE
