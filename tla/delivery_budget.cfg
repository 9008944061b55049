\* README: dead-lettering after max_attempts.
\* All tasks may be done and all bounds reached, so the system may stop.
SPECIFICATION Spec
CONSTANTS
    e1 = e1
    w1 = w1
    w2 = w2
    NoEvent = NoEvent
    Events = {e1}
    Workers = {w1, w2}
    MaxAttempts = 2
    Disturbances = {}
    MaxDisturbances = 0
    MaxAttemptRows = 3
    MaxReplays = 0
    MaxMessages = 1
SYMMETRY WorkerSymmetry
INVARIANTS
    AttemptBudget
CHECK_DEADLOCK FALSE
