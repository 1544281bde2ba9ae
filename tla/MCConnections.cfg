SPECIFICATION ConnectionsSpec
CONSTANTS
    Writer = {w1, w2}
    Input <- Inputs
    Other = {o1, o2}
    DefaultOther = o1
    Today <- AtFirst
    Years = 1
    Fra = Fra
    Session = {s1, s2}
    Acct = {a1, a2}
    Budget = {b1, b2}
    Worker = {w1, w2}
    MaxRow = 2
    None = None
    Assets = {x1, x2, x3}
    MaxSnapshot = 1
    MaxRequests = 4
    BISECTION_ITERATIONS = 5
    Asked <- Requests
    Return <- Returns
SYMMETRY Interchangeable
INVARIANT ConnectionsTypeOK
INVARIANT ProfileKept
INVARIANT HeldHereAlone
PROPERTY DisconnectsHold
INVARIANT CountedIsLinked
INVARIANT OneSnapshotAlone
INVARIANT SolveIsTight
PROPERTY BooksBalance
CHECK_DEADLOCK FALSE
