SPECIFICATION Spec
CONSTANTS
    Requests = {r1}
    MaxSubs = 2
    MaxEvents = 4
    MaxSecond = 2
    MaxSessions = 1
    MaxOwned = 1
    None = None
INVARIANT NoPaidOrphan
CHECK_DEADLOCK FALSE
