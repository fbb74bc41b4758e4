SPECIFICATION Spec
CONSTANTS
    IP = {i1}
    Device = {d1}
    None = None
    Pass = {loop}
    Request = {r1}
    MaxId = 3
    MaxObj = 5
    MaxMoves = 0
    MaxRequests = 1
INVARIANTS LogoutHolds
CHECK_DEADLOCK FALSE
