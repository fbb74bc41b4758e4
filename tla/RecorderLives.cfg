SPECIFICATION FairSpec
CONSTANTS
    MaxSpawn = 2
    THRESHOLD = 2
    Go2rtc = TRUE
    HasSub = TRUE
    PreferSub = FALSE
    MayFail = TRUE
    MayRaise = TRUE
CHECK_DEADLOCK FALSE
INVARIANTS
    OneRecording
    CleanStop
    FallbackKept
PROPERTIES
    LivesAsPromised
    StopReturns
    Recovers
