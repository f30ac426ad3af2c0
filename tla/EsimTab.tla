------------------------------- MODULE EsimTab -------------------------------
(* The eSIM tab of a device, DeviceEsimTab.vue: the overview of the card,   *)
(* its profiles, its pending notifications and the operations on them,      *)
(* while the user goes to another device or another tab.                    *)
EXTENDS Naturals, FiniteSets

CONSTANTS
    Devices,
    NoDevice,
    MaxQueries     \* bound: requests in flight

VARIABLES
    device, active,        \* the properties deviceId and isActive
    chip,                  \* the device chipInfo is about
    profiles,              \* the device the profiles are of
    overviewLoading,       \* loading.value
    profilesRefreshing,
    notifications,         \* the device the notifications are of
    notificationsLoading,
    retrying,              \* retryingNotificationSequence # null
    queries                \* suspended calls

vars == <<device, active, chip, profiles, overviewLoading, profilesRefreshing,
          notifications, notificationsLoading, retrying, queries>>
shown == <<chip, profiles, overviewLoading, profilesRefreshing>>
notes == <<notifications, notificationsLoading, retrying>>
Ids == Devices \cup {NoDevice}

(* A call about device of.  The overview is asked for once, or again to     *)
(* refresh it; only its last request counts, and that may be aborted.       *)
Query(op, of) == [op |-> op, of |-> of, state |-> "current"]
Overviews == {"load", "refresh"}
Operations == {"switch", "rename", "delete", "download"}
Queries == [op : Overviews \cup Operations \cup {"profiles", "notifications", "retry", "reread"},
            of : Devices, state : {"current", "aborted", "superseded"}]
Mark(qs, from, to) ==
    {IF q.op \in Overviews /\ q.state \in from THEN [q EXCEPT !.state = to] ELSE q : q \in qs}
Room == Cardinality(queries) < MaxQueries

Init ==
    /\ device \in Devices /\ active \in BOOLEAN
    /\ chip = NoDevice /\ profiles = NoDevice /\ profilesRefreshing = FALSE
    /\ notifications = NoDevice /\ notificationsLoading = FALSE /\ retrying = FALSE
    /\ overviewLoading = active
    /\ queries = IF active THEN {Query("load", device)} ELSE {}

(* fetchOverview() for device d: the request before is superseded.          *)
FetchOverview(op, d, qs) ==
    /\ queries' = Mark(qs, {"current", "aborted"}, "superseded") \cup {Query(op, d)}
    /\ overviewLoading' = (overviewLoading \/ op = "load")
    /\ profilesRefreshing' = (profilesRefreshing \/ op = "refresh")

(* The user goes to another device or tab: the request in flight is         *)
(* aborted, and an active tab starts anew.                                  *)
Change(d, a) ==
    /\ Room
    /\ <<d, a>> # <<device, active>>
    /\ device' = d /\ active' = a
    /\ IF ~ a THEN queries' = Mark(queries, {"current"}, "aborted") /\ UNCHANGED shown
       ELSE chip' = NoDevice /\ profiles' = NoDevice /\ FetchOverview("load", d, queries)
    /\ UNCHANGED notes

(* The refresh button, which is hidden while the overview loads.            *)
Refresh ==
    /\ Room /\ ~ overviewLoading
    /\ FetchOverview("refresh", device, queries)
    /\ UNCHANGED <<device, active, chip, profiles>> /\ UNCHANGED notes

(* Switch, rename or delete a profile of the list, or download one.         *)
Operate(op) ==
    /\ Room /\ active /\ ~ overviewLoading
    /\ op # "download" => profiles # NoDevice
    /\ \A q \in queries : q.op # op
    /\ queries' = queries \cup {Query(op, device)}
    /\ UNCHANGED <<device, active>> /\ UNCHANGED shown /\ UNCHANGED notes

OpenNotifications ==
    /\ Room /\ chip # NoDevice
    /\ notificationsLoading' = TRUE
    /\ queries' = queries \cup {Query("notifications", device)}
    /\ UNCHANGED <<device, active, notifications, retrying>> /\ UNCHANGED shown

(* retryNotification(), one at a time.                                      *)
RetryNotification ==
    /\ Room /\ notifications # NoDevice /\ ~ retrying
    /\ retrying' = TRUE
    /\ queries' = queries \cup {Query("retry", device)}
    /\ UNCHANGED <<device, active, notifications, notificationsLoading>> /\ UNCHANGED shown

(* The overview has come, or failed; a superseded one changes nothing.      *)
OverviewReply(q) ==
    /\ q.op \in Overviews
    /\ queries' = queries \ {q}
    /\ \/ /\ q.state = "superseded" /\ UNCHANGED shown
       \/ /\ q.state # "superseded"
          /\ overviewLoading' = (overviewLoading /\ q.op # "load")
          /\ profilesRefreshing' = (profilesRefreshing /\ q.op # "refresh")
          /\ \/ q.state = "current" /\ chip' = q.of /\ profiles' = q.of
             \/ UNCHANGED <<chip, profiles>>
    /\ UNCHANGED <<device, active>> /\ UNCHANGED notes

(* fetchProfiles() has come: nothing tells whether the tab has moved on.    *)
ProfilesReply(q) ==
    /\ q.op = "profiles"
    /\ queries' = queries \ {q}
    /\ profilesRefreshing' = FALSE /\ profiles' \in {q.of, profiles}
    /\ UNCHANGED <<device, active, chip, overviewLoading>> /\ UNCHANGED notes

(* The end of an operation.  A switch marks the profile in what is shown;   *)
(* the others read the device shown by now again.                           *)
OperationReply(q) ==
    /\ q.op \in Operations
    /\ \/ queries' = queries \ {q} /\ UNCHANGED shown
       \/ /\ q.op = "rename"
          /\ queries' = (queries \ {q}) \cup {Query("profiles", device)}
          /\ profilesRefreshing' = TRUE
          /\ UNCHANGED <<chip, profiles, overviewLoading>>
       \/ /\ q.op \in {"delete", "download"}
          /\ FetchOverview("refresh", device, queries \ {q})
          /\ UNCHANGED <<chip, profiles>>
    /\ UNCHANGED <<device, active>> /\ UNCHANGED notes

NotificationsReply(q) ==
    /\ q.op = "notifications"
    /\ queries' = queries \ {q}
    /\ notificationsLoading' = FALSE /\ notifications' \in {q.of, notifications}
    /\ UNCHANGED <<device, active, retrying>> /\ UNCHANGED shown

(* A notification is sent again, and the list read again.                   *)
RetryReply(q) ==
    /\ \/ /\ q.op = "retry"
          /\ \E ok \in BOOLEAN :
                queries' = (queries \ {q}) \cup (IF ok THEN {Query("reread", device)} ELSE {})
          /\ retrying' = FALSE /\ UNCHANGED notifications
       \/ /\ q.op = "reread"
          /\ queries' = queries \ {q}
          /\ \/ notifications' = q.of /\ retrying' = FALSE
             \/ UNCHANGED <<notifications, retrying>>
    /\ UNCHANGED <<device, active, notificationsLoading>> /\ UNCHANGED shown

Next ==
    \/ \E d \in Devices, a \in BOOLEAN : Change(d, a)
    \/ Refresh \/ OpenNotifications \/ RetryNotification
    \/ \E op \in Operations : Operate(op)
    \/ \E q \in queries :
          \/ OverviewReply(q) \/ ProfilesReply(q) \/ OperationReply(q)
          \/ NotificationsReply(q) \/ RetryReply(q)

Spec == Init /\ [][Next]_vars
-----------------------------------------------------------------------------
TypeOK ==
    /\ device \in Devices /\ {chip, profiles, notifications} \subseteq Ids
    /\ {active, overviewLoading, profilesRefreshing, notificationsLoading, retrying} \subseteq BOOLEAN
    /\ queries \subseteq Queries

(* The chip shown in an active tab is the selected device's, whatever late  *)
(* replies, downloads and deletions of other devices do.                    *)
ChipIsSelected == active => chip \in {NoDevice, device}

(* The same of the profiles.  It does not hold: the reply of the list that  *)
(* follows a rename is not dropped when it is stale.                        *)
ProfilesAreSelected == active => profiles \in {NoDevice, device}

(* The mark that hides the tab while it loads has its request in flight.    *)
(* It does not hold: the refresh after a deletion or a download supersedes  *)
(* the load of the next device and takes only its own mark back.            *)
LoadEnds == overviewLoading => \E q \in queries : q.op = "load" /\ q.state # "superseded"
=============================================================================
