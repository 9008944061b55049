\* Two workers on one event, a replay, and a worker that is lost.
\* All tasks may be done and all bounds reached, so the system may stop.
SPECIFICATION Spec
CONSTANTS
    e1 = e1
    w1 = w1
    w2 = w2
    NoEvent = NoEvent
    Events = {e1}
    Workers = {w1, w2}
    MaxAttempts = 2
    Disturbances = {"worker_crash"}
    MaxDisturbances = 1
    MaxAttemptRows = 3
    MaxReplays = 1
    MaxMessages = 1
SYMMETRY WorkerSymmetry
INVARIANTS
    TypeOK
    DeliveredMeansAccepted
    DeadLetterIsEarned
    ReplayVerdictIsEarned
    SucceededMeansAccepted
    NoStrandedDelivery
PROPERTIES
    KeepsPromise
    AttemptsAreHistory
CHECK_DEADLOCK FALSE
