SPECIFICATION CatchUpSpec
CONSTANTS
    None = None
    Accounts = {ann, bob}
    MaxTyped = 3
    QueueCap = 2
    MaxTroubles = 2
    Ptx = {p1, p2}
    Look = {a, b}
    PageSize = 2
    Worker = {w1, w2}
    MaxLog = 3
    MaxPages = 2
    Rems = {r1, r2}
    MaxDay = 2
    Week = 2
    Rows = {r1, r2, r3}
    LastDay = 3
    ReadDays = 1
    UnreadDays = 2
    BatchSize = 2
INVARIANT CatchUpTypeOK
INVARIANT ThreadsReadAsTypedAlone
PROPERTY SentInOrder
PROPERTY TitleKeptAlone
PROPERTY TicksThoroughAlone
PROPERTY BacklogsClear
CHECK_DEADLOCK FALSE
