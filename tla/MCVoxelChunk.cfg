SPECIFICATION FairSpec
CONSTANTS
    Tsz = 3
    Half = 2
    Base = 4
    Heights = {0, 1, 4}
INVARIANTS
    ReadersStayInCube
    GroundIsTerrain
    DrawnIsExact
PROPERTIES
    LoadVBEnds
CHECK_DEADLOCK FALSE
