SPECIFICATION Spec
CONSTANTS
    Conn = {c1, c2}
    NoConn = none
    Args <- Standard
    Stalling = {}
    MaxEvents = 2
    MaxActions = 2
    MaxSent = 1
INVARIANTS NoCircularWait
CHECK_DEADLOCK FALSE
