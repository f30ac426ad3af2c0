CONSTANTS
    Recovers = {r1}
    Absent = Absent
    MaxSwitches = 1
    NoSwitch = NoSwitch
    RadioCycle = FALSE
    RadioFails = FALSE
SPECIFICATION Spec
CHECK_DEADLOCK FALSE
INVARIANTS
    PolicyFollowed
