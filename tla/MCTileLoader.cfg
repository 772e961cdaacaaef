SPECIFICATION Spec
CONSTANTS
    Locs = {1, 2}
    Root = 1
    Views = {{2}, {1, 2}}
    Objs = {1, 2, 3}
    Above <- MCAbove
    Chunk <- MCChunk
INVARIANTS
    TypeOK
    TilesTrackActive
    OrphansAreDecommissioned
    OrphansAreTransient
    ThrowsOnlyAtExit
    FinishedTilesAreWhole
    StoredChunksMatch
    RootTerrainIsHeights
    QueueFaultNeedsSwap
PROPERTIES
    ReadyAdvances
