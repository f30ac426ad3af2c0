CONSTANTS
    Calls = {c1, c2, c3}
    NoCall = NoCall
    Watchers = {w1}
    MaxSessions = 1
    MaxQMITransports = 2
    MaxTouches = 0
    Requests <- TransportRequests
SPECIFICATION FairSpec
CHECK_DEADLOCK FALSE
INVARIANTS
    NoMissedWakeup
PROPERTIES
    QueueDrains
