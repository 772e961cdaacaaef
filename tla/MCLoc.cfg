SPECIFICATION Spec
CONSTANT Depth = 2
INVARIANTS
    OrdersFit
    NavigationFits
    KeysApart
CHECK_DEADLOCK FALSE
