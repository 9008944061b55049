\* One agent and the reports about it.
\* Every connection may be used up, so the system may stop.
SPECIFICATION FairSpec
CONSTANTS
    a1 = a1
    NoAgent = NoAgent
    Agents = {a1}
    InitialSelected = NoAgent
    StatusReports = TRUE
    Disturbances = {"link", "post"}
    MaxDisturbances = 2
    MaxSessions = 2
    MaxOpens = 0
INVARIANTS
    TypeOK
PROPERTIES
    HeartbeatsRepair
CHECK_DEADLOCK FALSE
