SPECIFICATION Spec
CONSTANTS
    Conn = {c1}
    NoConn = none
    Args <- TimedForMany
    Stalling = {}
    MaxEvents = 8
    MaxActions = 2
    MaxSent = 0
INVARIANTS GameOverHeard
