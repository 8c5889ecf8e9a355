\* The worker and a background task on one row, timeouts and two restarts.  The
\* properties speak of one row at a time, and other rows only delay its turn.
CONSTANTS
    Records     = {r1}
    Sweeper     = sweeper
    Tasks       = {t1}
    Limit       = 1
    MaxAttempts = 3
    Outcomes    = {"ok", "error", "timeout"}
    MaxRestarts = 2
SPECIFICATION FairSpec
INVARIANTS
    TypeOK
    SentWasDelivered
    HistoryCoversCount
    AttemptsBounded
    RepeatedForAReason
PROPERTIES
    SentIsFinal
    HealsByItself
