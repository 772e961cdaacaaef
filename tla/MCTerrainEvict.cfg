SPECIFICATION Spec
CONSTANTS
    Locs = {1, 2}
    Parent <- Tree
    Objs = {1, 2, 3, 4}
    MaxTiles = 1
    EvictCount = 1
    ReadLatency = 2
    CountMod = 4
INVARIANTS
    UnreadyIsBuilding
    ParentsFirst
    OneDispatchPerFrame
    ReadyIsStored
PROPERTIES
    LostOnlyByRebuild
