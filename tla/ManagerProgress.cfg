SPECIFICATION FairSpec
CONSTANTS
    Camera = {c1}
    Request = {r1}
    Loop = Loop
    Rec = {d1, d2, d3}
    None = None
    Config = {k1}
    Ops = {"retry", "logout", "name"}
    MayFail = FALSE
    MaxQueue = 2
    MaxChanges = 3
PROPERTIES
    EventuallyRecorded
    LockReleased
