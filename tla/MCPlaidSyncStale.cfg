SPECIFICATION MCSpec
CONSTANTS
    None = None
    Ptx = {p1, p2}
    Look = {a, b}
    PageSize = 2
    Worker = {w1, w2}
    MaxLog = 2
    MaxPages = 1
SYMMETRY Interchangeable
INVARIANT CaughtUp
CHECK_DEADLOCK FALSE
