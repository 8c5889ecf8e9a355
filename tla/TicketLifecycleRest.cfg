\* Two tickets and two approvals, and every call by REST: what fails rolls back.
CONSTANTS
    Tickets        = {t1, t2}
    Operators      = {o1}
    Approvals      = {a1, a2}
    RestCalls      = {r1}
    Routes         = {"rest"}
    Reachable      = {"public", "operators"}
    MaxResolutions = 1
SPECIFICATION Spec
SYMMETRY Symmetry
CHECK_DEADLOCK FALSE
INVARIANTS
    ApprovalsActOnce
    NotesTellTheTruth
    ExecutedActionHasEffect
PROPERTY
    ImplementsCasework
