SPECIFICATION MCSpec
CONSTANTS
    Session = {s1, s2}
    Acct = {a1}
    Budget = {b1}
    Worker = {w1}
    MaxRow = 1
    None = None
INVARIANT GoCardlessHeld
CHECK_DEADLOCK FALSE
