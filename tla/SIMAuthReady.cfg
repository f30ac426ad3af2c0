CONSTANTS
    Calls = {c1, c2, c3, c4}
    NoCall = NoCall
    MaxInvalidations = 2
SPECIFICATION FairSpec
\* every call ends and none is made again
CHECK_DEADLOCK FALSE
INVARIANTS
    ReadyIsFresh
    SleeperHasProbe
PROPERTIES
    OkMeansReady
    CallsReturn
