SPECIFICATION FairSpec
CONSTANTS
    MaxEvents = 2
    Track = {t1, t2}
    NoTrack = NoTrack
    MaxFaults = 1
    MayClear = TRUE
INVARIANTS EndedOnce RowsAgree TrackedOnce
PROPERTIES StartsFirst QuietEnds
CHECK_DEADLOCK FALSE
