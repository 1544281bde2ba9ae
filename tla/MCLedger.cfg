SPECIFICATION LedgerSpec
CONSTANTS
    None = None
    Food = Food
    food = food
    Ptx = {p1, p2}
    Look = {a, b}
    PageSize = 2
    Worker = {w1, w2}
    MaxLog = 2
    MaxPages = 1
SYMMETRY Interchangeable
INVARIANT LedgerTypeOK
INVARIANT CaughtUpAlone
INVARIANT NothingSkipped
PROPERTY ChoicesSurvive
INVARIANT ReclaimedAlone
PROPERTY CategoriesSparedAlone
CHECK_DEADLOCK FALSE
