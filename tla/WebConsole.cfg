CONSTANTS
    None = None
    Closed = Closed
    Off = Off
    Devices = {d1, d2}
    Proxies = {d1, d2}
    Sheets = {w1, w2}
    Sessions = {w1, w2}
    Plmns = {o1, o2}
    SmsDevices = {d1}
    Threads = {t1, t2}
    Cards = {c1, c2}
    Upstreams = {u1}
    Countries = {k1}
    Headers = {"h", "p"}
    Protected = {"p"}
    Pages = {"/", "/settings"}
    Ranges = {r1, r2}
    EventChannels = {"message", "broadcast"}
    MaxLogs = 2
    History = 1
    Interval = 1
    MaxInterval = 4
    MaxCalls = 2
    MaxChanges = 3
    MaxRequests = 2
    MaxAnalyses = 3
    MaxQueries = 3
    MaxReads = 2
    MaxDying = 2
    MaxTokens = 2
    MaxHandlers = 1
    MaxRounds = 2
SPECIFICATION Spec
\* a page that was left does nothing more
CHECK_DEADLOCK FALSE
INVARIANTS
    SpinnersEnd
    ShownIsSelected
    StreamsLive
    SessionHolds
    FinishedOnce
PROPERTIES
    RepliesLand
    SelectionKept
