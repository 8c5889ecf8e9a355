SPECIFICATION CompactionSpec
CONSTANTS
    Threshold = 4
    KeepRecent = 2
    RecentLimit = 3
    Summarizers = {"deterministic"}
    MaxTurns = 12
INVARIANTS
    NothingForgotten
CHECK_DEADLOCK FALSE
