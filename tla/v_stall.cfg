SPECIFICATION FairSpec
CONSTANTS
    Conn = {c1}
    NoConn = none
    Args <- Standard
    Stalling = {c1}
    MaxEvents = 8
    MaxActions = 2
    MaxSent = 0
PROPERTY TicksGoOn
