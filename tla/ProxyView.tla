------------------------------ MODULE ProxyView ------------------------------
(* The instances tab of the proxy page, Proxy.vue: the list shown, the      *)
(* drawer in which an instance is edited, and the requests in flight.  An   *)
(* instance is its id.                                                      *)
EXTENDS Sequences, FiniteSets, Naturals

CONSTANTS
    Ids,
    NoId,
    MaxCalls       \* bound: requests in flight

VARIABLES
    config,        \* external: the list the server keeps
    instances,     \* instances.value
    drawerOpen,
    editing,       \* the id of editingInstance; NoId for a new instance
    form,          \* the id of instanceForm
    initialLoading, refreshing, saving,
    calls          \* suspended calls

vars == <<config, instances, drawerOpen, editing, form, initialLoading,
          refreshing, saving, calls>>
flags == <<initialLoading, refreshing, saving>>
drawer == <<drawerOpen, editing, form>>

MaxList == Cardinality(Ids)    \* bound: rows of the list
Lists == UNION {[1..n -> Ids] : n \in 0..MaxList}
Has(list, id) == \E i \in DOMAIN list : list[i] = id

(* A call is asked, then answered with the list the server has, then lands; *)
(* fetchOverview() has a kind that says which flags it holds.               *)
Kinds == {"initial", "silent", "user", "save"}
Overview(kind) == [op |-> "overview", arg |-> kind, list |-> <<>>, state |-> "asked"]
Save(list) == [op |-> "save", arg |-> NoId, list |-> list, state |-> "asked"]
Instance(id) == [op |-> "instance", arg |-> id, list |-> <<>>, state |-> "asked"]
Action == [op |-> "action", arg |-> NoId, list |-> <<>>, state |-> "asked"]
Room == Cardinality(calls) < MaxCalls

(* onMounted().                                                             *)
Init ==
    /\ config \in {l \in Lists : \A i, j \in DOMAIN l : l[i] = l[j] => i = j}
    /\ instances = <<>>
    /\ drawerOpen = FALSE /\ editing = NoId /\ form = NoId
    /\ initialLoading = TRUE /\ refreshing = FALSE /\ saving = FALSE
    /\ calls = {Overview("initial")}

(* fetchOverview(), by the refresh button or by the poll, which waits for   *)
(* the first load and stops when the list is empty.                         *)
FetchOverview(kind, cs) ==
    /\ calls' = cs \cup {Overview(kind)}
    /\ refreshing' = (refreshing \/ kind # "silent")

Refresh ==
    /\ Room
    /\ FetchOverview("user", calls)
    /\ UNCHANGED <<config, instances, initialLoading, saving>> /\ UNCHANGED drawer

Poll ==
    /\ Room /\ ~ initialLoading /\ instances # <<>>
    /\ \A c \in calls : c.arg # "silent"
    /\ FetchOverview("silent", calls)
    /\ UNCHANGED <<config, instances, initialLoading, saving>> /\ UNCHANGED drawer

(* The server reads the list.                                               *)
ServerReads(c) ==
    /\ c.op = "overview" /\ c.state = "asked"
    /\ calls' = (calls \ {c}) \cup {[c EXCEPT !.state = "answered", !.list = config]}
    /\ UNCHANGED <<config, instances>> /\ UNCHANGED drawer /\ UNCHANGED flags

(* The list lands, or the request fails; the flags are taken back.          *)
OverviewReply(c) ==
    /\ c.op = "overview"
    /\ \/ c.state = "answered" /\ instances' = c.list
       \/ UNCHANGED instances
    /\ calls' = calls \ {c}
    /\ initialLoading' = (initialLoading /\ c.arg # "initial")
    /\ refreshing' = (refreshing /\ c.arg \in {"initial", "silent"})
    /\ saving' = (saving /\ c.arg # "save")
    /\ UNCHANGED config /\ UNCHANGED drawer

(* openDrawer(): for a new instance, or for one whose full configuration is *)
(* then read into the form.                                                 *)
OpenNew(id) ==
    /\ ~ drawerOpen
    /\ drawerOpen' = TRUE /\ editing' = NoId /\ form' = id
    /\ UNCHANGED <<config, instances, calls>> /\ UNCHANGED flags

OpenEdit(id) ==
    /\ Room /\ ~ drawerOpen /\ Has(instances, id)
    /\ drawerOpen' = TRUE /\ editing' = id /\ form' = id
    /\ calls' = calls \cup {Instance(id)}
    /\ UNCHANGED <<config, instances>> /\ UNCHANGED flags

CloseDrawer ==
    /\ drawerOpen /\ drawerOpen' = FALSE
    /\ UNCHANGED <<config, instances, editing, form, calls>> /\ UNCHANGED flags

(* Whatever the drawer shows by now, the form becomes the instance read.    *)
InstanceReply(c) ==
    /\ c.op = "instance"
    /\ form' \in {c.arg, form}
    /\ calls' = calls \ {c}
    /\ UNCHANGED <<config, instances, drawerOpen, editing>> /\ UNCHANGED flags

(* saveConfig(): the whole list is sent.                                    *)
SaveConfig(list) ==
    /\ instances' = list
    /\ saving' = TRUE
    /\ calls' = calls \cup {Save(list)}

(* saveForm(): the row of the instance is replaced, or a row is added, and  *)
(* the drawer is closed; a new id that is taken is refused.                 *)
SaveForm ==
    /\ Room /\ drawerOpen
    /\ drawerOpen' = FALSE
    /\ IF editing # NoId
       THEN SaveConfig([i \in DOMAIN instances |->
               IF instances[i] = editing /\ \A j \in 1..(i - 1) : instances[j] # editing
               THEN form ELSE instances[i]])
       ELSE /\ ~ Has(instances, form) /\ Len(instances) < MaxList
            /\ SaveConfig(Append(instances, form))
    /\ UNCHANGED <<config, editing, form, initialLoading, refreshing>>

DeleteInstance(id) ==
    /\ Room /\ ~ drawerOpen /\ Has(instances, id)
    /\ SaveConfig(SelectSeq(instances, LAMBDA x : x # id))
    /\ UNCHANGED <<config, initialLoading, refreshing>> /\ UNCHANGED drawer

(* The server takes the list.                                               *)
ServerSaves(c) ==
    /\ c.op = "save" /\ c.state = "asked"
    /\ config' = c.list
    /\ calls' = (calls \ {c}) \cup {[c EXCEPT !.state = "answered"]}
    /\ UNCHANGED instances /\ UNCHANGED drawer /\ UNCHANGED flags

(* Mutant: a save that fails does not take its mark back.                   *)
SaveReplyMutant(c) ==
    /\ c.op = "save"
    /\ \/ /\ c.state = "answered"
          /\ FetchOverview("save", calls \ {c}) /\ UNCHANGED saving
       \/ calls' = calls \ {c} /\ UNCHANGED <<saving, refreshing>>
    /\ UNCHANGED <<config, instances, initialLoading>> /\ UNCHANGED drawer

(* A save succeeds, and the list is read again under the same mark; or it   *)
(* fails, and the list stays as edited.                                     *)
SaveReply(c) ==
    /\ c.op = "save"
    /\ \/ /\ c.state = "answered"
          /\ FetchOverview("save", calls \ {c}) /\ UNCHANGED saving
       \/ calls' = calls \ {c} /\ saving' = FALSE /\ UNCHANGED refreshing
    /\ UNCHANGED <<config, instances, initialLoading>> /\ UNCHANGED drawer

(* startInstance(), stopInstance() and restartInstance().                   *)
ActOn(id) ==
    /\ Room /\ ~ drawerOpen /\ Has(instances, id)
    /\ calls' = calls \cup {Action}
    /\ UNCHANGED <<config, instances>> /\ UNCHANGED drawer /\ UNCHANGED flags

ActionReply(c) ==
    /\ c.op = "action"
    /\ \/ FetchOverview("user", calls \ {c})
       \/ calls' = calls \ {c} /\ UNCHANGED refreshing
    /\ UNCHANGED <<config, instances, initialLoading, saving>> /\ UNCHANGED drawer

Next ==
    \/ Refresh \/ Poll \/ CloseDrawer \/ SaveForm
    \/ \E id \in Ids : OpenNew(id) \/ OpenEdit(id) \/ DeleteInstance(id) \/ ActOn(id)
    \/ \E c \in calls :
          \/ ServerReads(c) \/ OverviewReply(c) \/ InstanceReply(c)
          \/ ServerSaves(c) \/ SaveReply(c) \/ ActionReply(c)

Spec == Init /\ [][Next]_vars
-----------------------------------------------------------------------------
TypeOK ==
    /\ config \in Lists /\ instances \in Lists
    /\ {drawerOpen, initialLoading, refreshing, saving} \subseteq BOOLEAN
    /\ {editing, form} \subseteq Ids \cup {NoId}
    /\ calls \subseteq [op : {"overview", "save", "instance", "action"},
                        arg : Kinds \cup Ids \cup {NoId}, list : Lists, state : {"asked", "answered"}]

(* Every mark of the page has a request in flight that will take it back.   *)
SpinnersEnd ==
    /\ initialLoading => \E c \in calls : c.arg = "initial"
    /\ refreshing => \E c \in calls : c.arg \in {"user", "save"}
    /\ saving => \E c \in calls : c.op = "save" \/ c.arg = "save"

(* The drawer edits the instance it was opened for.  It does not hold: the  *)
(* late reply for another instance overwrites the form, which then replaces *)
(* the row of this one.                                                     *)
FormIsEdited == drawerOpen /\ editing # NoId => form = editing
=============================================================================
