\* An agent that reconnects before its old session has ended.
\* Every connection may be used up, so the system may stop.
SPECIFICATION Spec
CONSTANTS
    a1 = a1
    NoAgent = NoAgent
    Agents = {a1}
    InitialSelected = NoAgent
    StatusReports = FALSE
    Disturbances = {"link"}
    MaxDisturbances = 1
    MaxSessions = 2
    MaxOpens = 0
INVARIANTS
    ConnectedIsServed
CHECK_DEADLOCK FALSE
