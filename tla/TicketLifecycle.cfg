\* One ticket that may be resolved twice; two operators race for it, two
\* approvals race with the requester and with a REST close, by either route.
CONSTANTS
    Tickets        = {t1}
    Operators      = {o1, o2}
    Approvals      = {a1, a2}
    RestCalls      = {r1}
    Routes         = {"channel", "rest"}
    Reachable      = {"public", "operators"}
    MaxResolutions = 2
SPECIFICATION Spec
SYMMETRY Symmetry
CHECK_DEADLOCK FALSE
INVARIANTS
    TypeOK
    LogExplainsStatus
    ClosureHasMandate
    OneClaim
    ExecutedForceCloseMeansClosed
    MemoryProvenance
    ConfirmationAsked
PROPERTY
    ClosesOnlyByDecision
