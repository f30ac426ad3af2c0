----------------------------- MODULE DevicesView -----------------------------
(* The device page, Devices.vue: the list of devices, the one selected by   *)
(* the user, the route or the page itself, its details and the editor of    *)
(* its configuration.  Requests overlap; an action runs to the next await.  *)
EXTENDS Naturals, FiniteSets

CONSTANTS
    Devices,
    NoDevice,     \* '' and null
    MaxRequests   \* bound: requests in flight

VARIABLES
    list,         \* ids of devices.value
    selectedId,
    hasAutoSelected,
    queryDevice,  \* route.query.device
    detail,       \* the device selectedDetail describes
    editConfig,   \* the device whose configuration is in the editor
    editDirty,
    pageLoading,  \* loading.value
    requests      \* suspended calls

vars == <<list, selectedId, hasAutoSelected, queryDevice, detail, editConfig, editDirty,
          pageLoading, requests>>
Ids == Devices \cup {NoDevice}

(* A suspended call awaits op for the device of; then names what goes on    *)
(* after it: the chain of fetchAll, of refreshListOnly alone (poll) or in   *)
(* saveConfig (saved), or nothing.  An aborted call can only fail.          *)
Request(op, of, then) == [op |-> op, of |-> of, then |-> then, aborted |-> FALSE]
Requests == [op : {"list", "detail", "config", "save", "saveEnd", "delete", "command"},
             of : Ids, then : {"all", "poll", "saved", "save", "end"}, aborted : BOOLEAN]
Abort(rs, op) == {IF r.op = op THEN [r EXCEPT !.aborted = TRUE] ELSE r : r \in rs}
Free == Cardinality(requests) < MaxRequests

(* fetchAll() finishes in its finally block.                                *)
Leave(then) == pageLoading' = (pageLoading /\ then # "all")

(* The request for the list; it remembers the selection it was made under.  *)
FetchList(then, rs) == Abort(rs, "list") \cup {Request("list", selectedId, then)}

(* fetchSelectedDetail(id), which aborts the one before.                    *)
FetchDetail(id, then, rs) == Abort(rs, "detail") \cup {Request("detail", id, then)}

(* syncEditConfigFromSelected(force) with id selected.                      *)
SyncConfig(id, force, then, rs) ==
    \/ /\ editDirty /\ ~ force
       /\ requests' = rs /\ Leave(then)
       /\ UNCHANGED <<editConfig, editDirty>>
    \/ /\ force \/ ~ editDirty
       /\ id = NoDevice
       /\ editConfig' = NoDevice /\ editDirty' = FALSE
       /\ requests' = rs /\ Leave(then)
    \/ /\ force \/ ~ editDirty
       /\ id # NoDevice
       /\ requests' = rs \cup {Request("config", id, then)}
       /\ UNCHANGED <<editConfig, editDirty, pageLoading>>

(* The details and the configuration of a newly selected device.            *)
ShowDevice(id) ==
    /\ selectedId' = id /\ hasAutoSelected' = TRUE
    /\ SyncConfig(id, FALSE, "end", FetchDetail(id, "end", requests))
    /\ UNCHANGED <<list, detail>>

Init ==
    /\ list = {} /\ selectedId = NoDevice /\ hasAutoSelected = FALSE
    /\ queryDevice \in Ids
    /\ detail = NoDevice /\ editConfig = NoDevice /\ editDirty = FALSE
    /\ pageLoading = TRUE /\ requests = {Request("list", NoDevice, "all")}
-----------------------------------------------------------------------------
(* The user selects a device; the route follows.                            *)
SelectDevice(id) ==
    /\ Free /\ id \in list
    /\ ~ (selectedId = id /\ detail # NoDevice)
    /\ queryDevice' = id
    /\ ShowDevice(id)

(* The route changes, by a link or the browser's history.                   *)
RouteChanges(id) ==
    /\ Free /\ id # queryDevice
    /\ queryDevice' = id
    /\ IF id \in {NoDevice, selectedId}
       THEN UNCHANGED <<list, selectedId, hasAutoSelected, detail, editConfig, editDirty,
                        pageLoading, requests>>
       ELSE ShowDevice(id)

(* fetchAll(), after adding a device or a rescan.                           *)
FetchAll ==
    /\ Free
    /\ pageLoading' = TRUE /\ requests' = FetchList("all", requests)
    /\ UNCHANGED <<list, selectedId, hasAutoSelected, queryDevice, detail, editConfig, editDirty>>

(* refreshListOnly(), by the polling scheduler.                             *)
PollList ==
    /\ Free /\ ~ pageLoading
    /\ requests' = FetchList("poll", requests)
    /\ UNCHANGED <<list, selectedId, hasAutoSelected, queryDevice, detail, editConfig,
                   editDirty, pageLoading>>

(* The user edits the configuration, saves it, deletes the device, or       *)
(* rotates, reconnects, reboots: requests about the selected device.        *)
Edit ==
    /\ editConfig # NoDevice /\ editDirty' = TRUE
    /\ UNCHANGED <<list, selectedId, hasAutoSelected, queryDevice, detail, editConfig,
                   pageLoading, requests>>

Submit(op) ==
    /\ Free /\ selectedId # NoDevice
    /\ op = "save" => editConfig # NoDevice
    /\ \A r \in requests : r.op # op
    /\ requests' = requests \cup {Request(op, selectedId, "end")}
    /\ UNCHANGED <<list, selectedId, hasAutoSelected, queryDevice, detail, editConfig,
                   editDirty, pageLoading>>
-----------------------------------------------------------------------------
(* applyRouteSelection(), in fetchAll only.                                 *)
Routed(then) == IF then = "all" /\ queryDevice # NoDevice THEN queryDevice ELSE selectedId

(* Mutant: a selection that is not in the list falls back to the first.     *)
SelectionsMutant(l, then) ==
    IF l = {} THEN {NoDevice}
    ELSE IF Routed(then) \in l THEN {Routed(then)} ELSE l

(* The selection once list l has come: the route's, the old one, the first  *)
(* of the list when nothing was ever selected, none when the list is empty. *)
Selections(l, then) ==
    IF l = {} THEN {NoDevice}
    ELSE IF Routed(then) = NoDevice /\ ~ hasAutoSelected THEN l
    ELSE {Routed(then)}

(* The list has come: details and configuration follow a change.            *)
ListComes(r) ==
    /\ r.op = "list" /\ ~ r.aborted
    /\ \E l \in SUBSET Devices : \E id \in Selections(l, r.then) :
          LET left    == requests \ {r}
              changed == r.of # id \/ detail # id
          IN  /\ list' = l /\ selectedId' = id
              /\ hasAutoSelected' = (hasAutoSelected \/ id # NoDevice
                                     \/ Routed(r.then) # selectedId)
              /\ \/ /\ changed /\ id # NoDevice
                    /\ requests' = FetchDetail(id, r.then, left)
                    /\ UNCHANGED <<detail, editConfig, editDirty, pageLoading>>
                 \/ /\ changed /\ id = NoDevice
                    /\ detail' = NoDevice
                    /\ SyncConfig(id, FALSE, r.then, left)
                 \/ /\ ~ changed /\ r.then = "all" /\ editConfig = NoDevice
                    /\ SyncConfig(id, FALSE, r.then, left) /\ UNCHANGED detail
                 \/ /\ ~ changed /\ ~ (r.then = "all" /\ editConfig = NoDevice)
                    /\ requests' = left /\ Leave(r.then)
                    /\ UNCHANGED <<detail, editConfig, editDirty>>
    /\ UNCHANGED queryDevice

(* The list fails, or was aborted; saveConfig() then gives up its refresh.  *)
ListFails(r) ==
    /\ r.op = "list"
    /\ requests' = {x \in requests \ {r} : ~ (r.then = "saved" /\ x.op = "saveEnd")}
    /\ Leave(r.then)
    /\ UNCHANGED <<list, selectedId, hasAutoSelected, queryDevice, detail, editConfig, editDirty>>

(* The details have come or not; the chain they belong to goes on.          *)
DetailReply(r) ==
    /\ r.op = "detail"
    /\ \E ok \in BOOLEAN : (ok => ~ r.aborted) /\ detail' = IF ok THEN r.of ELSE detail
    /\ IF r.then \in {"all", "poll", "saved"}
       THEN SyncConfig(selectedId, FALSE, r.then, requests \ {r})
       ELSE requests' = requests \ {r} /\ UNCHANGED <<editConfig, editDirty, pageLoading>>
    /\ UNCHANGED <<list, selectedId, hasAutoSelected, queryDevice>>

(* The configuration has come: it replaces the one in the editor.           *)
ConfigReply(r) ==
    /\ r.op = "config"
    /\ editConfig' \in {r.of, NoDevice} /\ editDirty' = FALSE
    /\ requests' = requests \ {r} /\ Leave(r.then)
    /\ UNCHANGED <<list, selectedId, hasAutoSelected, queryDevice, detail>>

(* A configuration is saved: list and details are read, then it is synced.  *)
SaveReply(r) ==
    /\ r.op = "save"
    /\ LET left == requests \ {r}
           show == IF selectedId = NoDevice THEN left ELSE FetchDetail(selectedId, "save", left)
       IN  \/ requests' = left /\ UNCHANGED editDirty
           \/ /\ requests' = FetchList("saved", show) \cup {Request("saveEnd", r.of, "end")}
              /\ editDirty' = FALSE
    /\ UNCHANGED <<list, selectedId, hasAutoSelected, queryDevice, detail, editConfig, pageLoading>>

SaveEnds(r) ==
    /\ r.op = "saveEnd" /\ \A x \in requests : x.then \notin {"save", "saved"}
    /\ SyncConfig(selectedId, TRUE, "end", requests \ {r})
    /\ UNCHANGED <<list, selectedId, hasAutoSelected, queryDevice, detail>>

(* A command was sent: details and list are read again, now and later.      *)
CommandReply(r) ==
    /\ r.op = "command"
    /\ LET left == requests \ {r}
       IN  \/ requests' = left
           \/ requests' = FetchList("poll", IF selectedId = NoDevice THEN left
                                            ELSE FetchDetail(selectedId, "end", left))
    /\ UNCHANGED <<list, selectedId, hasAutoSelected, queryDevice, detail, editConfig,
                   editDirty, pageLoading>>

(* The device is deleted: nothing is selected until fetchAll() selects.     *)
DeleteReply(r) ==
    /\ r.op = "delete"
    /\ \/ /\ requests' = requests \ {r}
          /\ UNCHANGED <<selectedId, hasAutoSelected, detail, editConfig, editDirty, pageLoading>>
       \/ /\ selectedId' = NoDevice /\ hasAutoSelected' = FALSE /\ detail' = NoDevice
          /\ editConfig' = NoDevice /\ editDirty' = FALSE /\ pageLoading' = TRUE
          /\ requests' = Abort(requests \ {r}, "list") \cup {Request("list", NoDevice, "all")}
    /\ UNCHANGED <<list, queryDevice>>

(* An overview event of the stream, which is that of the selected device.   *)
OverviewEvent ==
    /\ selectedId # NoDevice
    /\ detail' = selectedId /\ pageLoading' = FALSE
    /\ UNCHANGED <<list, selectedId, hasAutoSelected, queryDevice, editConfig, editDirty, requests>>

Next ==
    \/ \E id \in Ids : SelectDevice(id) \/ RouteChanges(id)
    \/ FetchAll \/ PollList \/ Edit \/ OverviewEvent
    \/ \E op \in {"save", "delete", "command"} : Submit(op)
    \/ \E r \in requests :
          \/ ListComes(r) \/ ListFails(r) \/ DetailReply(r) \/ ConfigReply(r)
          \/ SaveReply(r) \/ SaveEnds(r) \/ CommandReply(r) \/ DeleteReply(r)

Spec == Init /\ [][Next]_vars
-----------------------------------------------------------------------------
TypeOK ==
    /\ list \subseteq Devices /\ {selectedId, queryDevice, detail, editConfig} \subseteq Ids
    /\ hasAutoSelected \in BOOLEAN /\ editDirty \in BOOLEAN /\ pageLoading \in BOOLEAN
    /\ requests \subseteq Requests

(* Details that arrive are those of the device selected by then: whatever   *)
(* changed the selection has aborted the request for another one.           *)
DetailIsSelectedStep ==
    \A r \in requests : DetailReply(r) =>
        detail' \in {detail, selectedId} \/ selectedId = NoDevice

DetailIsSelected == [][DetailIsSelectedStep]_vars

(* A refresh never moves the selection: a device that is missing from a     *)
(* list for a moment stays selected, unless the list is empty.              *)
SelectionStaysStep ==
    \A r \in requests : ListComes(r) /\ selectedId # NoDevice =>
        selectedId' \in {selectedId, Routed(r.then)} \/ list' = {}

SelectionStays == [][SelectionStaysStep]_vars

(* The editor holds the selected device's configuration, or the user's      *)
(* edits.  It does not hold: configurations are not dropped when stale.     *)
EditorIsSelected ==
    requests = {} => editConfig \in {NoDevice, selectedId} \/ editDirty
=============================================================================
