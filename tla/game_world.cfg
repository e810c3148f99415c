SPECIFICATION Spec
CONSTANTS
    Ids = {}
    Width = 5
    Height = 5
    MaxObstacles = 5
    Sites <- AllSites
    EasyMode = FALSE
    Pausing = {}
    MaxScore = 1
INVARIANTS WorldPlayable
