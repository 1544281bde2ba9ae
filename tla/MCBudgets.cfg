SPECIFICATION BudgetsSpec
CONSTANTS
    Workers = {w1, w2}
    MaxBudgets = 3
    None = None
    MaxRequests = 3
    Users = {ann, bob}
    Houses = {house, roof}
    Projects = {roof}
    MaxTurns = 2
    MaxChanges = 1
    MaxSubs = 2
    MaxEvents = 3
    MaxSecond = 2
    MaxSessions = 1
    MaxOwned = 1
SYMMETRY Interchangeable
INVARIANT BudgetsTypeOK
INVARIANT TreeSoundAlone
PROPERTY NeverStolen
PROPERTY SharingHolds
INVARIANT RowFollowsStripe
PROPERTY NoSecondTrial
INVARIANT DeletionCancelsAlone
CHECK_DEADLOCK FALSE
