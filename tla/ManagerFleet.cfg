SPECIFICATION Spec
CONSTANTS
    Camera = {c1}
    Request = {r1, r2}
    Loop = Loop
    Rec = {d1, d2, d3, d4}
    None = None
    Config = {k1, k2}
    Ops = {"retry", "delete", "settings", "clear", "reset"}
    MayFail = TRUE
    MaxQueue = 1
    MaxChanges = 0
SYMMETRY Symmetry
INVARIANTS
    OneActive
    NoOrphan
