------------------------------ MODULE AddDevice ------------------------------
(* The dialog that adds a discovered device: openAddDialog() to addDevice() *)
(* of Devices.vue, and DeviceAddDialog.vue.                                 *)
(*                                                                          *)
(* A device is what its mode and control path make of it: in mbim mode, in  *)
(* qmi mode, on a wwan qmi path, in another mode, or degraded.  The fields  *)
(* it fills in (interface, ports, IMEI, path) are one value, the device;    *)
(* the backend is apart, as the form offers it.  Two equal requests in      *)
(* flight count as one.                                                     *)
EXTENDS FiniteSets, Naturals

CONSTANTS
    None,
    MaxCalls        \* bound: requests in flight

VARIABLES
    discovered,     \* those of the list that are not configured yet
    open,           \* addDialogOpen
    chosen,         \* addSelected
    fields,         \* the device the fields of addConfig are of
    backend,        \* addConfig.device_backend
    discovering,
    saving,         \* addSaving
    calls           \* requests in flight

vars == <<discovered, open, chosen, fields, backend, discovering, saving, calls>>
form == <<chosen, fields, backend>>

Found == {"mbim", "qmi", "wwan", "other", "degraded"}
Backends == {"at", "qmi", "mbim"}
Adds == [op : {"add"}, device : Found, backend : Backends]
Plain(op) == [op |-> op, device |-> None, backend |-> "at"]
Ask(c) == Cardinality(calls) < MaxCalls /\ calls' = calls \cup {c}

Init ==
    /\ discovered = {} /\ open = FALSE
    /\ chosen = None /\ fields = None /\ backend = "at"
    /\ discovering = FALSE /\ saving = FALSE /\ calls = {}

(* applyDiscoveredToAddConfig(): the backend its mode and path ask for.     *)
BackendOf(d) ==
    CASE d = "mbim" -> "mbim"
      [] d \in {"qmi", "wwan"} -> "qmi"
      [] OTHER -> "at"

(* openAddDialog(): an empty form, and a list that is asked for.            *)
OpenAddDialog ==
    /\ ~ open /\ open' = TRUE
    /\ chosen' = None /\ fields' = None /\ backend' = "at"
    /\ discovering' = TRUE /\ Ask(Plain("discover"))
    /\ UNCHANGED <<discovered, saving>>

(* refreshDiscoveredForAdd(), answered: a list that fails is kept, and a    *)
(* second answer may still be on its way.                                   *)
DiscoveredReply ==
    /\ Plain("discover") \in calls
    /\ calls' \in {calls, calls \ {Plain("discover")}}
    /\ discovered' \in {discovered} \cup SUBSET Found
    /\ discovering' = FALSE
    /\ UNCHANGED <<open, form, saving>>

(* selectDiscoveredForAdd(): one whose IMEI cannot be read is not taken.    *)
SelectDiscovered(d) ==
    /\ open /\ ~ discovering /\ d # "degraded"
    /\ chosen' = d /\ fields' = d /\ backend' = BackendOf(d)
    /\ UNCHANGED <<discovered, open, discovering, saving, calls>>

(* The select of the backend: locked for mbim devices and wwan qmi paths,   *)
(* mbim never offered, qmi for a device with a control path only.           *)
ChooseBackend(b) ==
    /\ open /\ chosen \notin {"mbim", "wwan"}
    /\ b = "at" \/ (b = "qmi" /\ fields # None)
    /\ backend' = b
    /\ UNCHANGED <<discovered, open, chosen, fields, discovering, saving, calls>>

Close ==
    /\ open /\ open' = FALSE
    /\ UNCHANGED <<discovered, form, discovering, saving, calls>>

(* addDevice(): the fields are filled in again, the backend with them.      *)
AddDevice ==
    /\ open /\ ~ saving /\ chosen # None
    /\ fields' = chosen /\ backend' = BackendOf(chosen)
    /\ saving' = TRUE
    /\ Ask([op |-> "add", device |-> chosen, backend |-> BackendOf(chosen)])
    /\ UNCHANGED <<discovered, open, chosen, discovering>>

(* It is added: the dialog closes, and fetchAll() reads all again.          *)
Added(c) ==
    /\ c \in Adds /\ open' = FALSE
    /\ calls' = (calls \ {c}) \cup {Plain("list")}
    /\ UNCHANGED <<discovered, form, discovering, saving>>

(* The list has been read, or the device was refused: saving is over.       *)
Over(c) ==
    /\ c \in Adds \cup {Plain("list")}
    /\ calls' = calls \ {c} /\ saving' = FALSE
    /\ UNCHANGED <<discovered, open, form, discovering>>

Next ==
    \/ OpenAddDialog \/ DiscoveredReply \/ Close \/ AddDevice
    \/ \E d \in discovered : SelectDiscovered(d)
    \/ \E b \in Backends : ChooseBackend(b)
    \/ \E c \in calls : Added(c) \/ Over(c)

Spec == Init /\ [][Next]_vars
-----------------------------------------------------------------------------
TypeOK ==
    /\ discovered \subseteq Found /\ open \in BOOLEAN
    /\ {chosen, fields} \subseteq Found \cup {None} /\ backend \in Backends
    /\ discovering \in BOOLEAN /\ saving \in BOOLEAN
    /\ calls \subseteq {Plain("discover"), Plain("list")} \cup Adds

(* The marks of the dialog stand for a request that takes them back, also   *)
(* when it was closed and opened again meanwhile.                           *)
FlagsEnd ==
    /\ discovering => Plain("discover") \in calls
    /\ saving => calls \cap (Adds \cup {Plain("list")}) # {}

(* A device is added with the backend the user has chosen for it.  It does  *)
(* not hold: addDevice() fills in the discovered one over it.               *)
ChoiceIsKept ==
    [][\A c \in (calls' \ calls) \cap Adds : c.backend = backend]_vars
=============================================================================
