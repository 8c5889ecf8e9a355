\* One thread and every kind of fault, or three and every one but a failing apply().
CONSTANTS
    Messages   = {m1, m2}
    Workers    = {w1, w2, w3}
    FaultKinds = {"prepare", "agent", "apply", "mark", "dispatch", "crash"}
    MaxFaults  = 3
SPECIFICATION IngressSpec
INVARIANTS
    TypeOK
    CompletedOnce
    AckMeansCompleted
    PhaseAOnce
PROPERTIES
    ClaimedIsCompleted
    ImplementsDelivery
