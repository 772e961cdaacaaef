SPECIFICATION Spec
CONSTANTS
    Axes = {"y"}
    Poses = {0, 1}
    Fly0 = 0
    FlyDefault = 0
    Period = 1
    MaxFails = 0
    NoRecord = NoRecord
INVARIANTS VelocityWithinHeld
PROPERTIES InspectFreezesView ComesToRest
