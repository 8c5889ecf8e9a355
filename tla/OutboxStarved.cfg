\* The window of failed rows is full of rows that used up their attempts.
CONSTANTS
    Records     = {r1, r2}
    Sweeper     = sweeper
    Tasks       = {}
    Limit       = 1
    MaxAttempts = 2
    Outcomes    = {"ok", "error"}
    MaxRestarts = 0
SPECIFICATION FairSpec
PROPERTY HealsByItself
