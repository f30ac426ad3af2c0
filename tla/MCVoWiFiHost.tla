---------------------------- MODULE MCVoWiFiHost ----------------------------
(* Instances of VoWiFiHost for TLC.                                        *)
EXTENDS VoWiFiHost

CONSTANTS enable, enable2, disable, recover, restart, switchBegin, switchEnd, reconnect

(* The kind of each command is in its name; an instance takes some of them.*)
MCKindOf ==
    [c \in Commands |->
        CASE c \in {enable, enable2} -> "enable"
          [] c = disable -> "disable"
          [] c = recover -> "recover"
          [] c = restart -> "restart"
          [] c = switchBegin -> "switchBegin"
          [] c = switchEnd -> "switchEnd"
          [] c = reconnect -> "reconnect"]

(* The sets of commands that a behaviour of the run draws from.            *)
Workloads == {{enable, enable2, disable, recover},
              {enable, recover, switchBegin, switchEnd, reconnect}}

OneWorkload == \E w \in Workloads : Submitted' \subseteq w
=============================================================================
