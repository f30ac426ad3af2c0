----------------------------- MODULE OperatorMode -----------------------------
(* How a device chooses its operator: the mode the dialog shows and sets    *)
(* (OperatorSelectionDialog.vue), and the server, which sets it in the      *)
(* modem and then in the configuration (operator_selection.go).  Two equal  *)
(* requests in flight count as one.                                         *)
EXTENDS FiniteSets, Naturals

CONSTANTS
    Devices,
    Plmns,          \* the operators a device can be locked to
    None,
    MaxCalls        \* bound: requests in flight

VARIABLES
    device,         \* props.deviceId
    open,           \* props.modelValue
    loading,
    current,        \* the mode of currentSelection
    calls,          \* requests in flight
    modem,          \* the mode of each modem
    config          \* the mode in each worker's configuration

vars == <<device, open, loading, current, calls, modem, config>>
dialog == <<device, open, loading, current>>
server == <<modem, config>>

Modes == Plmns \cup {"automatic"}
Calls == [op : {"load", "set"}, device : Devices, mode : Modes \cup {None},
          state : {"asked", "set", "answered"}]
Request(op, m) == [op |-> op, device |-> device, mode |-> m, state |-> "asked"]
Room == Cardinality(calls) < MaxCalls

Init ==
    /\ device \in Devices /\ open = FALSE /\ loading = FALSE /\ current = None
    /\ calls = {}
    /\ modem \in [Devices -> Modes] /\ config = modem

(* loadCurrent(), up to its request.                                        *)
LoadCurrent(others) == loading' = TRUE /\ calls' = others \cup {Request("load", None)}

Open ==
    /\ Room /\ ~ open /\ open' = TRUE
    /\ LoadCurrent(calls)
    /\ UNCHANGED <<device, current>> /\ UNCHANGED server

Close ==
    /\ open /\ open' = FALSE
    /\ UNCHANGED <<device, loading, current, calls>> /\ UNCHANGED server

(* The page turns to another device; what was shown stays.                  *)
DeviceChanges(d) ==
    /\ d # device /\ device' = d
    /\ UNCHANGED <<open, loading, current, calls>> /\ UNCHANGED server

(* setModeAuto(), whose button is dead while something loads, and           *)
(* setModeManual(), a click on an operator, which never is.                 *)
Set(m) ==
    /\ Room /\ open
    /\ m = "automatic" => ~ loading /\ current # m
    /\ loading' = TRUE /\ calls' = calls \cup {Request("set", m)}
    /\ UNCHANGED <<device, open, current>> /\ UNCHANGED server

(* GetOperatorSelection(): a lock in the configuration is believed, else    *)
(* the modem is asked.                                                      *)
ServerReads(c) ==
    /\ c.op = "load" /\ c.state = "asked"
    /\ LET m == IF config[c.device] \in Plmns THEN config[c.device] ELSE modem[c.device]
       IN calls' = (calls \ {c}) \cup {[c EXCEPT !.mode = m, !.state = "answered"]}
    /\ UNCHANGED dialog /\ UNCHANGED server

(* SetOperatorSelection(): the modem first, then the configuration; nothing *)
(* keeps two of them apart.                                                 *)
ModemSet(c) ==
    /\ c.op = "set" /\ c.state = "asked"
    /\ modem' = [modem EXCEPT ![c.device] = c.mode]
    /\ calls' = (calls \ {c}) \cup {[c EXCEPT !.state = "set"]}
    /\ UNCHANGED dialog /\ UNCHANGED config

ConfigSet(c) ==
    /\ c.state = "set"
    /\ config' = [config EXCEPT ![c.device] = c.mode]
    /\ calls' = (calls \ {c}) \cup {[c EXCEPT !.state = "answered"]}
    /\ UNCHANGED dialog /\ UNCHANGED modem

(* The mode has come, or could not be read.                                 *)
LoadReply(c) ==
    /\ c.op = "load" /\ loading' = FALSE
    /\ current' \in {current} \cup (IF c.state = "answered" THEN {c.mode} ELSE {})
    /\ calls' = calls \ {c}
    /\ UNCHANGED <<device, open>> /\ UNCHANGED server

(* It was set, and is read again, of the device shown by then; or it was    *)
(* refused, or the answer was lost.                                         *)
SetReply(c) ==
    /\ c.op = "set" /\ c.state # "set"
    /\ \/ c.state = "answered" /\ LoadCurrent(calls \ {c})
       \/ loading' = FALSE /\ calls' = calls \ {c}
    /\ UNCHANGED <<device, open, current>> /\ UNCHANGED server

Next ==
    \/ Open \/ Close
    \/ \E d \in Devices : DeviceChanges(d)
    \/ \E m \in Modes : Set(m)
    \/ \E c \in calls :
          ServerReads(c) \/ ModemSet(c) \/ ConfigSet(c) \/ LoadReply(c) \/ SetReply(c)

Spec == Init /\ [][Next]_vars
-----------------------------------------------------------------------------
TypeOK ==
    /\ device \in Devices /\ open \in BOOLEAN /\ loading \in BOOLEAN
    /\ current \in Modes \cup {None} /\ calls \subseteq Calls
    /\ {modem, config} \subseteq [Devices -> Modes]

(* The dialog is busy only while something is asked that will end it.       *)
FlagsEnd == loading => calls # {}

(* The mode of the modem is the one the configuration will restore.  It     *)
(* does not hold: two locks set at a time may pass between the two.         *)
ConfigIsModem ==
    \A d \in Devices : (\A c \in calls : c.device # d) => config[d] = modem[d]

(* What is shown, once all is read, is the mode of the device shown.  It    *)
(* does not hold: answers come out of order, and the device changes.        *)
ShownIsOwn == calls = {} /\ open => current \in {None, modem[device]}
=============================================================================
