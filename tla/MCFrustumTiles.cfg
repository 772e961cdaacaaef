SPECIFICATION Spec
CONSTANTS
    Locs = {1, 2, 3, 4, 5, 6, 7, 8, 9, 10, 11, 12, 13, 14, 15}
    Root = 1
    Parent <- MCParent
    Above <- MCAbove
    Level <- MCLevel
    MaxTarget = 4
INVARIANTS
    SelectedDisjoint
    NoHoles
    CameraCellSelected
