CONSTANTS
    Commands = {enable, disable, restart}
    None = None
    KindOf <- MCKindOf
    enable = enable
    enable2 = enable2
    disable = disable
    recover = recover
    restart = restart
    switchBegin = switchBegin
    switchEnd = switchEnd
    reconnect = reconnect
SPECIFICATION FairSpec
\* every command is submitted once
CHECK_DEADLOCK FALSE
INVARIANTS
    TypeOK
    LiveIsOwned
PROPERTIES
    CommandsReturn
