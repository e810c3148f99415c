SPECIFICATION Spec
CONSTANTS
    Ids = {p1}
    Width = 5
    Height = 4
    MaxObstacles = 1
    Sites <- OneSite
    EasyMode = TRUE
    Pausing = {p1}
    MaxScore = 2
INVARIANTS InOnePiece ScoreIsGrowth
PROPERTIES NeverReverses
