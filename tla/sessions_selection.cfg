\* Two agents, a broken connection, a restart or an operator, one Open frame.
\* All connections and Open frames may be used up, so the system may stop.
SPECIFICATION FairSpec
CONSTANTS
    a1 = a1
    a2 = a2
    NoAgent = NoAgent
    Agents = {a1, a2}
    InitialSelected = NoAgent
    StatusReports = FALSE
    Disturbances = {"link", "restart", "operator"}
    MaxDisturbances = 1
    MaxSessions = 5
    MaxOpens = 1
INVARIANTS
    Inductive
    NewestSession
    DroppedByOlder
    SelectionIsHeld
PROPERTIES
    BrokenSessionsLeave
    AgentsConnect
CHECK_DEADLOCK FALSE
