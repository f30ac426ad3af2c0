\* an eUICC and an AKA transport behind one holder
CONSTANTS
    Calls = {c1, c2, c3}
    NoCall = NoCall
    Watchers = {}
    MaxSessions = 1
    MaxQMITransports = 1
    MaxTouches = 0
    Requests <- MixedRequests
SPECIFICATION FairSpec
CHECK_DEADLOCK FALSE
PROPERTIES
    AgingPreventsStarvation
