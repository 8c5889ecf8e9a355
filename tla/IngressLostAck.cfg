\* Two threads hold the same message, and apply() fails in one: what the other is told.
CONSTANTS
    Messages   = {m1}
    Workers    = {w1, w2}
    FaultKinds = {"apply"}
    MaxFaults  = 1
SPECIFICATION Spec
INVARIANT AckMeansCompleted
