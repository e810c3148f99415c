SPECIFICATION QuietSpec
CONSTANTS
    MaxConns = 1
    MaxSpawns = 0
    MaxSaid = 1
    MaxKeys = 1
    MaxMessages = 2
    MenuStackMax = 12
PROPERTY KeyboardStops
CHECK_DEADLOCK FALSE
