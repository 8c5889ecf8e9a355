\* A row that fails in one call is tried twice by an overlapping one.
CONSTANTS
    Records     = {r1, r2}
    Sweeper     = sweeper
    Tasks       = {t1}
    Limit       = 2
    MaxAttempts = 3
    Outcomes    = {"ok", "error"}
    MaxRestarts = 0
SPECIFICATION Spec
PROPERTY NotRetriedInCall
