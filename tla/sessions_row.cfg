\* An overtaken report about an agent that is gone.
\* Every connection may be used up, so the system may stop.
SPECIFICATION Spec
CONSTANTS
    a1 = a1
    NoAgent = NoAgent
    Agents = {a1}
    InitialSelected = NoAgent
    StatusReports = TRUE
    Disturbances = {"link"}
    MaxDisturbances = 1
    MaxSessions = 1
    MaxOpens = 0
INVARIANTS
    RowInSync
CHECK_DEADLOCK FALSE
