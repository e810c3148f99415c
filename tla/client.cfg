SPECIFICATION Spec
CONSTANTS
    MaxConns = 2
    MaxSpawns = 1
    MaxSaid = 2
    MaxKeys = 1
    MaxMessages = 4
    MenuStackMax = 12
INVARIANTS
    TypeOK
    ScreenMatchesMode
    MenusFit
    SocketFdIsNewest
    PausedMeansTold
CHECK_DEADLOCK FALSE
