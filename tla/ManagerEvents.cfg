SPECIFICATION Spec
CONSTANTS
    Camera = {c1, c2}
    Request = {r1}
    Loop = Loop
    Rec = {d1, d2, d3, d4}
    None = None
    Config = {k1}
    Ops = {"retry", "logout", "name"}
    MayFail = FALSE
    MaxQueue = 2
    MaxChanges = 2
SYMMETRY Symmetry
INVARIANTS
    OneActive
    NoOrphan
    StartLock
    Settled
