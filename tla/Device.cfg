CONSTANTS
    None = None
    Off = Off
    MaxSwitches = 2
    Recovers = {r1}
    RadioCycle = TRUE
    RadioFails = FALSE
    Reconciles = {r1, r2}
    Scans = {n1, n2, n3}
    MaxFaults = 2
    MaxDying = 1
    Ticks = {check}
    Rescans = {udev}
    Users = {user}
    Recoveries = {r1, r2}
    Groups = {{check, user}, {check, udev}, {check, r1}, {user, r1}, {r1, r2}}
    Tokens = {1, 2}
    MaxRounds = 2
SPECIFICATION FairSpec
INVARIANTS
    MarksAreOwned
    RunningIsFollowed
    ResultIsOwn
    WorkersAreOwned
PROPERTIES
    VoWiFiReturns
    ScanIsConcluded
    WorkerComesBack
