SPECIFICATION Spec
CONSTANTS
    Axes = {}
    Poses = {0, 1, 2}
    Fly0 = 0
    FlyDefault = 1
    Period = 3
    MaxFails = 2
    NoRecord = NoRecord

PROPERTIES RestoredIsRecent
