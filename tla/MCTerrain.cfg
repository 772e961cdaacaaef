SPECIFICATION FairSpec
CONSTANTS
    Locs = {1, 2, 3, 4}
    Parent <- Tree
    Objs = {1, 2, 3, 4}
    MaxTiles = 4
    EvictCount = 1
    ReadLatency = 2
    CountMod = 8
INVARIANTS
    OneTilePerLoc
PROPERTIES
    ImplementsService
    RequestsServed
CHECK_DEADLOCK FALSE
