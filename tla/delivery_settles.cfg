\* Liveness of events and replays with one worker, unless a task is cut off.
\* All tasks may be done and all bounds reached, so the system may stop.
SPECIFICATION FairSpec
CONSTANTS
    e1 = e1
    w1 = w1
    NoEvent = NoEvent
    Events = {e1}
    Workers = {w1}
    MaxAttempts = 2
    Disturbances = {"time_limit", "web_crash", "destination"}
    MaxDisturbances = 1
    MaxAttemptRows = 6
    MaxReplays = 1
    MaxMessages = 1
PROPERTIES
    EventuallySettles
    ReplaysSettle
    DeliveredIsFinal
CHECK_DEADLOCK FALSE
