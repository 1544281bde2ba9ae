SPECIFICATION JobsSpec
CONSTANTS
    Ticks = {t1, t2}
    Edits = {e1}
    Chats = {c1}
    MaxMonth = 3
    MaxIterations = 2
    None = None
INVARIANT JobsTypeOK
INVARIANT OncePerPeriodAlone
PROPERTY NoneSkippedOrForced
PROPERTY DueIsDone
CHECK_DEADLOCK FALSE
