\* Two clients at once, and one descriptor for their targets; nothing breaks.
\* All clients may be served, so the system may stop.
SPECIFICATION FairSpec
CONSTANTS
    r1 = r1
    r2 = r2
    NoRequest = NoRequest
    Requests = {r1, r2}
    Tunnelled = {r1}
    Asking = {}
    Answering = {r2}
    MaxClients = 2
    MaxTargets = 1
    IdSpace = 2
    Capacity = 1
    MaxSessions = 1
    Disturbances = {}
    MaxDisturbances = 0
INVARIANTS
    Isolation
PROPERTIES
    RequestsEnd
    TargetsReleased
CHECK_DEADLOCK FALSE
