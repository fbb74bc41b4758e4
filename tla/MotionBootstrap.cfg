SPECIFICATION Spec
CONSTANTS
    Camera = {c1, c2}
    None = None
    MaxQueue = 2
    MayCorrupt = FALSE
INVARIANT StartIsPickedUp
CHECK_DEADLOCK FALSE
