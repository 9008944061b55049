\* One descriptor for both clients, and one disturbance of any kind.
\* All clients may be served and all sessions used up, so the system may stop.
SPECIFICATION Spec
CONSTANTS
    r1 = r1
    r2 = r2
    NoRequest = NoRequest
    Requests = {r1, r2}
    Tunnelled = {r1}
    Asking = {r1}
    Answering = {r1}
    MaxClients = 1
    MaxTargets = 2
    IdSpace = 2
    Capacity = 1
    MaxSessions = 2
    Disturbances = {"link", "stop", "pipe"}
    MaxDisturbances = 1
INVARIANTS
    TypeOK
    OwnDescriptors
    Isolation
    AnswersArrive
CHECK_DEADLOCK FALSE
