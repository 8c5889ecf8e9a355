\* Two threads hold the same message, and apply() fails in one of them.
CONSTANTS
    Messages   = {m1}
    Workers    = {w1, w2}
    FaultKinds = {"apply"}
    MaxFaults  = 1
SPECIFICATION Spec
INVARIANT CompletedOnce
