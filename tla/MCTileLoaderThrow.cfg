SPECIFICATION Spec
CONSTANTS
    Locs = {1}
    Root = 0
    Views = {{}, {1}}
    Objs = {1, 2}
    Above <- MCAbove
    Chunk <- MCChunk
INVARIANTS
    TilesDieDecommissioned
