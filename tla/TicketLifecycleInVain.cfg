\* An approval decided by channel, and one ticket.
CONSTANTS
    Tickets        = {t1}
    Operators      = {o1}
    Approvals      = {a1}
    RestCalls      = {}
    Routes         = {"channel"}
    Reachable      = {"public", "operators"}
    MaxResolutions = 1
SPECIFICATION Spec
CHECK_DEADLOCK FALSE
INVARIANT ExecutedActionHasEffect
