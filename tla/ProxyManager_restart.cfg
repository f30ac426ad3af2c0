CONSTANTS
    Calls = {start, restart}
    a = a
    b = b
    one = one
    two = two
    start = start
    stop = stop
    restart = restart
    apply = apply
    apply2 = apply2
    quit = quit
    None = None
    Ids = {a}
    Settings = {one, two}
    KindOf <- MCKindOf
    IdOf <- OnlyId
    PortOf <- TwoPorts
    ModeOf <- BothModes
    Plans = {}
    FirstPlan <- Configured
SPECIFICATION Spec
\* every call returns and none is made again
CHECK_DEADLOCK FALSE
INVARIANTS
    RestartRunsAgain
