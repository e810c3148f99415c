SPECIFICATION FairSpec
CONSTANTS
    Conn = {c1}
    NoConn = none
    Args <- EveryKind
    Stalling = {c1}
    MaxEvents = 8
    MaxActions = 2
    MaxSent = 3
INVARIANTS TypeOK PausedHasWake NoRequestLost
PROPERTIES EndsWithoutClients TimedGameEnds
