SPECIFICATION Spec
CONSTANTS
    STALLED = 1
    STALE = 3
    SPLIT = 2
    GRACE = 2
    FIRST = 4
    FRESH = 1
    WINDOW = 6
    THRESHOLD = 3
    Backoff <- MCBackoff
    MaxSize = 2
CHECK_DEADLOCK FALSE
INVARIANTS
    StallBounded
    TileHonest
PROPERTIES
    KillJustified
    BreakerCounts
