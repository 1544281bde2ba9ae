SPECIFICATION MCSpec
CONSTANTS
    None = None
    Row = {r1, r2}
    Worker = {w1, w2}
    Look = {a}
    Similar <- AllAlike
    AuditCap = 2
SYMMETRY Interchangeable
INVARIANT SettledOnce
CHECK_DEADLOCK FALSE
