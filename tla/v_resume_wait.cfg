SPECIFICATION Spec
CONSTANTS
    Conn = {c1}
    NoConn = none
    Args <- Standard
    Stalling = {}
    MaxEvents = 10
    MaxActions = 3
    MaxSent = 4
PROPERTIES ResumeWaitFull
