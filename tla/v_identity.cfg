SPECIFICATION Spec
CONSTANTS
    Conn = {c1, c2}
    NoConn = none
    Args <- Standard
    Stalling = {}
    MaxEvents = 8
    MaxActions = 2
    MaxSent = 0
PROPERTIES IdentifiesClient
