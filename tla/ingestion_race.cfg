\* One notification, two threads, everything that may go wrong.
\* All is acknowledged in the end, so the system may stop.
SPECIFICATION FairSpec
CONSTANTS
    t1 = t1
    t2 = t2
    n1 = n1
    b1 = b1
    NoNotification = NoNotification
    Threads = {t1, t2}
    Notifications = {n1}
    Bodies = {b1}
    Disturbances = {"web_crash", "broker", "late", "operator", "provider"}
    MaxDisturbances = 3
INVARIANTS
    TypeOK
    AcknowledgedIsStored
    EnqueuedOnce
    ReceivedOnce
    RedeliveriesAreOne
PROPERTIES
    StoredInTheEnd
CHECK_DEADLOCK FALSE
