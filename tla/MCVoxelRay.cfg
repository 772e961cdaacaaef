SPECIFICATION Spec
CONSTANTS
    Tsz = 4
    Solids <- MCSolids
    Reach = 1
INVARIANTS
    StaysBetween
    FollowsSegment
    NothingPassed
    MissedOnlyAtEdge
CHECK_DEADLOCK FALSE
