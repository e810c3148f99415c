SPECIFICATION Spec
CONSTANTS
    Ids = {p1, p2}
    Width = 5
    Height = 3
    MaxObstacles = 1
    Sites <- OneSite
    EasyMode = FALSE
    Pausing = {}
    MaxScore = 1
PROPERTIES SpawnsAwayFromWalls
