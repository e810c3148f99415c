SPECIFICATION FairSpec
CONSTANTS
    MaxConns = 2
    MaxSpawns = 1
    MaxSaid = 1
    MaxKeys = 1
    MaxMessages = 1
    MenuStackMax = 12
CHECK_DEADLOCK FALSE
PROPERTIES ExitCompletes SpawnerNotices
