CONSTANTS
    Calls = {start, stop, restart, apply, apply2, quit}
    a = a
    b = b
    one = one
    two = two
    start = start
    stop = stop
    restart = restart
    apply = apply
    apply2 = apply2
    quit = quit
    None = None
    Ids = {a, b}
    Settings = {one, two}
    KindOf <- MCKindOf
    IdOf <- OnlyId
    PortOf <- TwoPorts
    ModeOf <- BothModes
    Plans <- SomePlans
    FirstPlan <- Configured
SYMMETRY Applies
SPECIFICATION Spec
ACTION_CONSTRAINT OneWorkload
\* every call returns and none is made again
CHECK_DEADLOCK FALSE
INVARIANTS
    NoOrphan
    DisabledIsDown
    ExitIsWatched
PROPERTIES
    RunningStaysListed
