SPECIFICATION RecordsSpec
CONSTANTS
    None = None
    Row = {r1, r2, r3}
    Worker = {w1, w2}
    Look = {a}
    Similar <- AllAlike
    AuditCap = 1
    MaxRequests = 3
    Users = {u1}
    Categories = {c1, c2}
    Amounts = {0, 4, 6}
    Limits = {0, 5}
    Budget = Budget
    MaxTroubles = 1
    Ids = {u1, u2}
    Batches = {b1, b2}
    Slots = {s1, s2}
SYMMETRY InterchangeableRecords
INVARIANT RecordsTypeOK
INVARIANT AuditedOnce
INVARIANT MatchedRightAlone
PROPERTY MergeSparesImports
INVARIANT AlertsFollowChecks
PROPERTY SurfacedOnlyWhenWorse
INVARIANT WayInAlone
INVARIANT ResetHoldsAlone
INVARIANT ErasedForGood
CHECK_DEADLOCK FALSE
