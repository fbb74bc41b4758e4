SPECIFICATION FairSpec
CONSTANTS
    Camera = {c1, c2}
    None = None
    MaxQueue = 2
    MayCorrupt = TRUE
INVARIANTS FollowsRecorders ShutdownLeavesNone
PROPERTY EventuallyWatched
CHECK_DEADLOCK FALSE
