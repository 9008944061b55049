\* README: every event is forwarded; a task that hits the time limit.
\* All tasks may be done and all bounds reached, so the system may stop.
SPECIFICATION FairSpec
CONSTANTS
    e1 = e1
    w1 = w1
    NoEvent = NoEvent
    Events = {e1}
    Workers = {w1}
    MaxAttempts = 2
    Disturbances = {"time_limit"}
    MaxDisturbances = 1
    MaxAttemptRows = 3
    MaxReplays = 0
    MaxMessages = 1
PROPERTIES
    EachEventSettles
CHECK_DEADLOCK FALSE
