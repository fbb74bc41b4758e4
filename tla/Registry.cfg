SPECIFICATION Spec
CONSTANTS
    IP = {i1, i2}
    Device = {d1}
    None = None
    Pass = {loop}
    Request = {r1}
    MaxId = 2
    MaxObj = 4
    MaxMoves = 1
    MaxRequests = 1
INVARIANTS CacheAgrees Announced LogoutStays
SYMMETRY Symmetry
CONSTRAINTS Telling OneAtFirst
CHECK_DEADLOCK FALSE
