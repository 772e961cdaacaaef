SPECIFICATION FairSpec
CONSTANTS
    Locs = {1, 2}
    Root = 0
    Views = {{1}, {1, 2}}
    Objs = {1, 2, 3}
    Above <- MCAbove
    Chunk <- MCPlateau
PROPERTIES
    RestingViewLoads
    ExitJoins
CHECK_DEADLOCK FALSE
