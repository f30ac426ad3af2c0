CONSTANTS
    Commands = {enable, restart, switchBegin}
    None = None
    KindOf <- MCKindOf
    enable = enable
    enable2 = enable2
    disable = disable
    recover = recover
    restart = restart
    switchBegin = switchBegin
    switchEnd = switchEnd
    reconnect = reconnect
SPECIFICATION Spec
\* every command is submitted once
CHECK_DEADLOCK FALSE
PROPERTIES
    ClaimIsFresh
