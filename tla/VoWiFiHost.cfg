CONSTANTS
    Commands = {enable, enable2, disable, recover, switchBegin, switchEnd, reconnect}
    None = None
    KindOf <- MCKindOf
    enable = enable
    enable2 = enable2
    disable = disable
    recover = recover
    restart = restart
    switchBegin = switchBegin
    switchEnd = switchEnd
    reconnect = reconnect
SPECIFICATION Spec
ACTION_CONSTRAINT OneWorkload
\* every command is submitted once
CHECK_DEADLOCK FALSE
INVARIANTS
    StartingNotStuck
    SwitchKeepsDown
    SmsModeFollowsSerial
PROPERTIES
    ClaimIsFreshNoRestart
