SPECIFICATION Spec
CONSTANTS
    Tiles = {1, 2}
    Limit = 3
INVARIANTS DecodedOnce
PROPERTIES TornIsDropped
