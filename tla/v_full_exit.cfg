SPECIFICATION Spec
CONSTANTS
    Conn = {c1}
    NoConn = none
    Args <- Standard
    Stalling = {}
    MaxEvents = 2
    MaxActions = 2
    MaxSent = 1
INVARIANTS DestroyUnblocked
CHECK_DEADLOCK FALSE
