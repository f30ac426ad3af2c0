\* every kind of request, three calls
CONSTANTS
    Calls = {c1, c2, c3}
    NoCall = NoCall
    Watchers = {}
    MaxSessions = 2
    MaxQMITransports = 2
    MaxTouches = 1
    Requests <- AllRequests
SYMMETRY CallSymmetry
SPECIFICATION Spec
\* every call ends and none is made again
CHECK_DEADLOCK FALSE
INVARIANTS
    TypeOK
    Exclusion
    BarrierExcludes
    QueueHoldsWaiters
    WatchdogAlive
    OverlapOnlyAfterTimeout
PROPERTIES
    ImplementsLock
    BarrierNotOvertaken
    ExclusiveNotOvertaken
