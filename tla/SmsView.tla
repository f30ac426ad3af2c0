------------------------------- MODULE SmsView -------------------------------
(* The message centre, Sms.vue: a list of threads, the messages of the      *)
(* selected one, a poll that refreshes both, and the replies of all of them *)
(* in any order.  An action runs to the next request it awaits.             *)
EXTENDS Naturals, FiniteSets

CONSTANTS
    SmsDevices,    \* devices of the sidebar
    Threads,       \* keys of threads, <<imsi, peer>>
    NoThread,      \* ''
    MaxCalls       \* bound: requests in flight

VARIABLES
    selectedDevice, selectedKey,
    threads,         \* keys of threads.value
    shown,           \* the threads whose messages are in threadMessages
    loading, threadLoading, loadingHistoryMore,
    calls            \* suspended calls: what they await and what they do then

vars == <<selectedDevice, selectedKey, threads, shown, loading, threadLoading,
          loadingHistoryMore, calls>>
flags == <<loading, threadLoading, loadingHistoryMore>>

(* A call awaits op, asked about what; then names its continuation; cur     *)
(* tells whether its sequence number is still the last one of its kind.     *)
Call(op, what, then) == [op |-> op, what |-> what, then |-> then, cur |-> TRUE]
Calls == [op : {"devices", "contacts", "thread", "history", "send", "deleteMessage",
                "deleteThread", "resume"},
          what : SmsDevices \cup Threads \cup {"all", NoThread},
          then : {"end", "select", "reload", "poll", "mount", "remount", "failed", "empty"},
          cur : BOOLEAN]
Silent(then) == then = "poll"

(* cs with a new call of kind op, which supersedes the earlier ones.        *)
With(cs, op, what, then) ==
    {IF c.op = op THEN [c EXCEPT !.cur = FALSE] ELSE c : c \in cs} \cup {Call(op, what, then)}
Room == Cardinality(calls) < MaxCalls

(* fetchThreadLatest(silent), with the calls cs left in flight.             *)
FetchThread(key, then, cs) ==
    /\ calls' = With(cs, "thread", key, then)
    /\ threadLoading' = (threadLoading \/ ~ Silent(then))

(* fetchMessages(silent) for device d.                                      *)
FetchMessages(d, then, cs) ==
    /\ calls' = With(cs, "contacts", d, then)
    /\ loading' = (loading \/ ~ Silent(then))

(* clearSelectedThread(): the thread request in flight is superseded.       *)
ClearSelected(cs) ==
    /\ selectedKey' = NoThread /\ shown' = {} /\ threadLoading' = FALSE
    /\ calls' = {IF c.op = "thread" THEN [c EXCEPT !.cur = FALSE] ELSE c : c \in cs}

(* The end of a chain of calls: one that deleted the last message of a      *)
(* thread clears the selection.                                             *)
Finish(then, cs) ==
    IF then = "empty" THEN ClearSelected(cs)
    ELSE calls' = cs /\ UNCHANGED <<selectedKey, shown, threadLoading>>

(* selectThread(key) of a thread in the list.                               *)
ShowThread(key, then, cs) == selectedKey' = key /\ FetchThread(key, then, cs)

(* ensureThreadSelection() over a list of threads.  In the narrow layout,   *)
(* or when the search hides the list, nothing is selected.                  *)
EnsureThread(list, then, cs) ==
    IF selectedKey \in list
    THEN FetchThread(selectedKey, then, cs) /\ UNCHANGED <<selectedKey, shown>>
    ELSE \/ IF then = "empty" THEN ClearSelected(cs)
            ELSE /\ selectedKey' = NoThread /\ shown' = {} /\ calls' = cs
                 /\ UNCHANGED threadLoading
         \/ \E key \in list : shown' = {} /\ ShowThread(key, then, cs)

(* On mount the devices and the threads are asked for together; device and  *)
(* thread come from the route.                                              *)
Init ==
    /\ selectedDevice \in SmsDevices \cup {"all"} /\ selectedKey \in Threads \cup {NoThread}
    /\ threads = {} /\ shown = {}
    /\ loading = TRUE /\ threadLoading = FALSE /\ loadingHistoryMore = FALSE
    /\ calls = {Call("devices", "all", "mount"), Call("contacts", selectedDevice, "mount")}
-----------------------------------------------------------------------------
(* The user.                                                                *)
SelectThread(key) ==
    /\ Room /\ key \in threads
    /\ ~ (selectedKey = key /\ shown # {})
    /\ ShowThread(key, "end", calls)
    /\ UNCHANGED <<selectedDevice, threads, shown, loading, loadingHistoryMore>>

(* handleSelectDevice(): the selection is cleared, the list is fetched.     *)
SelectDevice(d) ==
    /\ Room
    /\ selectedDevice' = d /\ selectedKey' = NoThread /\ shown' = {} /\ threadLoading' = FALSE
    /\ FetchMessages(d, "select",
                     {IF c.op = "thread" THEN [c EXCEPT !.cur = FALSE] ELSE c : c \in calls})
    /\ UNCHANGED <<threads, loadingHistoryMore>>

BackToList ==
    /\ selectedKey # NoThread
    /\ ClearSelected(calls)
    /\ UNCHANGED <<selectedDevice, threads, loading, loadingHistoryMore>>

(* The layout becomes wide with nothing selected.                           *)
Widen == selectedKey = NoThread /\ \E key \in threads : SelectThread(key)

(* refreshAll().                                                            *)
Refresh ==
    /\ Room
    /\ calls' = With(calls, "devices", "all", "reload")
    /\ UNCHANGED <<selectedDevice, selectedKey, threads, shown, flags>>

(* loadMoreHistory() of a thread with older messages.                       *)
LoadMoreHistory ==
    /\ Room /\ selectedKey \in threads /\ ~ loadingHistoryMore /\ shown # {}
    /\ loadingHistoryMore' = TRUE
    /\ calls' = calls \cup {Call("history", selectedKey, "end")}
    /\ UNCHANGED <<selectedDevice, selectedKey, threads, shown, loading, threadLoading>>

(* A message is sent, one of the selected thread or a whole thread deleted. *)
Submit(op, what, then) ==
    /\ Room /\ \A c \in calls : c.op # op
    /\ calls' = calls \cup {Call(op, what, then)}
    /\ UNCHANGED <<selectedDevice, selectedKey, threads, shown, flags>>
Send == Submit("send", NoThread, "reload")
DeleteMessage == \E then \in {"reload", "empty"} : shown # {} /\ Submit("deleteMessage", NoThread, then)
DeleteThread(key) == key \in threads /\ Submit("deleteThread", key, "end")
-----------------------------------------------------------------------------
(* pollRefresh(), one at a time.                                            *)
Poll ==
    /\ Room /\ \A c \in calls : c.then # "poll"
    /\ ~ loading /\ ~ threadLoading /\ ~ loadingHistoryMore
    /\ FetchMessages(selectedDevice, "poll", calls)
    /\ UNCHANGED <<selectedDevice, selectedKey, threads, shown, threadLoading, loadingHistoryMore>>

(* The devices have come.  A selected device that is gone is left for all.  *)
DevicesReply(c) ==
    LET left == (calls \ {c}) \cup
                (IF c.then = "reload" THEN {Call("resume", "all", "reload")} ELSE {})
    IN  /\ c.op = "devices"
        /\ \/ calls' = left /\ UNCHANGED <<selectedDevice, selectedKey, shown, threadLoading>>
           \/ /\ c.cur /\ selectedDevice # "all"
              /\ selectedDevice' = "all" /\ ClearSelected(left)
        /\ UNCHANGED <<threads, loading, loadingHistoryMore>>

(* What runs when fetchMessages() has returned ok.                          *)
AfterContacts(c, ok, list, cs) ==
    CASE c.then \in {"mount", "remount"} ->
           /\ calls' = cs \cup {Call("resume", c.what, IF c.then = "mount" /\ ~ ok THEN "failed" ELSE "mount")}
           /\ UNCHANGED <<selectedKey, shown, threadLoading>>
      [] ok /\ (c.then \in {"reload", "poll", "empty"} \/ (c.then = "select" /\ selectedDevice = c.what)) ->
           EnsureThread(list, c.then, cs)
      [] OTHER -> Finish(c.then, cs)

(* The threads have come; those of a superseded request are dropped.        *)
ContactsReply(c) ==
    /\ c.op = "contacts"
    /\ IF c.cur
       THEN /\ loading' = (loading /\ Silent(c.then))
            /\ \/ \E list \in SUBSET Threads :
                     threads' = list /\ AfterContacts(c, TRUE, list, calls \ {c})
               \/ UNCHANGED threads /\ AfterContacts(c, FALSE, threads, calls \ {c})
       ELSE UNCHANGED <<threads, loading>> /\ AfterContacts(c, FALSE, threads, calls \ {c})
    /\ UNCHANGED <<selectedDevice, loadingHistoryMore>>

(* The rest of refreshAll() and of onMounted(), once both its requests have *)
(* come: a mount whose list failed loads the list of the device left for.   *)
Resume(c) ==
    /\ c.op = "resume"
    /\ c.then = "reload" \/ \A x \in calls : ~ (x.op = "devices" /\ x.then = "mount")
    /\ \/ /\ c.then = "reload" \/ (c.then = "failed" /\ selectedDevice # c.what)
          /\ FetchMessages(selectedDevice, IF c.then = "reload" THEN "reload" ELSE "remount", calls \ {c})
          /\ UNCHANGED <<selectedKey, shown, threadLoading>>
       \/ /\ c.then = "mount" \/ (c.then = "failed" /\ selectedDevice = c.what)
          /\ EnsureThread(threads, "end", calls \ {c})
          /\ UNCHANGED loading
    /\ UNCHANGED <<selectedDevice, threads, loadingHistoryMore>>

(* Mutant: the messages that have come are shown whoever asked for them.    *)
ThreadReplyMutant(c) ==
    /\ c.op = "thread"
    /\ IF c.then = "empty" THEN ClearSelected(calls \ {c})
       ELSE /\ \E ok \in BOOLEAN : shown' = IF ok THEN {c.what} ELSE shown
            /\ threadLoading' = (threadLoading /\ Silent(c.then))
            /\ calls' = calls \ {c} /\ UNCHANGED selectedKey
    /\ UNCHANGED <<selectedDevice, threads, loading, loadingHistoryMore>>

(* The messages have come.                                                  *)
ThreadReply(c) ==
    /\ c.op = "thread"
    /\ IF c.then = "empty" THEN ClearSelected(calls \ {c})
       ELSE /\ IF c.cur
               THEN /\ \E ok \in BOOLEAN : shown' = IF ok THEN {c.what} ELSE shown
                    /\ threadLoading' = (threadLoading /\ Silent(c.then))
               ELSE UNCHANGED <<shown, threadLoading>>
            /\ calls' = calls \ {c} /\ UNCHANGED selectedKey
    /\ UNCHANGED <<selectedDevice, threads, loading, loadingHistoryMore>>

(* Older messages have come: they go before whatever is shown by now.       *)
HistoryReply(c) ==
    /\ c.op = "history"
    /\ loadingHistoryMore' = FALSE /\ calls' = calls \ {c}
    /\ \E ok \in BOOLEAN : shown' = IF ok THEN shown \cup {c.what} ELSE shown
    /\ UNCHANGED <<selectedDevice, selectedKey, threads, loading, threadLoading>>

(* A message is sent: the lists are loaded a moment later.                  *)
SendReply(c) ==
    /\ c.op = "send"
    /\ \E ok \in BOOLEAN : calls' = (calls \ {c}) \cup (IF ok THEN {Call("resume", "all", "reload")} ELSE {})
    /\ UNCHANGED <<selectedDevice, selectedKey, threads, shown, flags>>

(* A message or a thread is deleted: the list is loaded again.              *)
DeleteReply(c) ==
    /\ c.op \in {"deleteMessage", "deleteThread"}
    /\ \/ /\ calls' = calls \ {c}
          /\ UNCHANGED <<selectedKey, shown, loading, threadLoading>>
       \/ /\ c.op = "deleteThread" /\ selectedKey = c.what
          /\ selectedKey' = NoThread /\ shown' = {} /\ threadLoading' = FALSE
          /\ FetchMessages(selectedDevice, "end",
                {IF x.op = "thread" THEN [x EXCEPT !.cur = FALSE] ELSE x : x \in calls \ {c}})
       \/ /\ ~ (c.op = "deleteThread" /\ selectedKey = c.what)
          /\ FetchMessages(selectedDevice, c.then, calls \ {c})
          /\ UNCHANGED <<selectedKey, shown, threadLoading>>
    /\ UNCHANGED <<selectedDevice, threads, loadingHistoryMore>>

Reply(c) ==
    \/ DevicesReply(c) \/ ContactsReply(c) \/ ThreadReply(c) \/ HistoryReply(c)
    \/ SendReply(c) \/ DeleteReply(c) \/ Resume(c)

Next ==
    \/ \E key \in Threads : SelectThread(key) \/ DeleteThread(key)
    \/ \E d \in SmsDevices \cup {"all"} : SelectDevice(d)
    \/ BackToList \/ Widen \/ Refresh \/ LoadMoreHistory \/ Send \/ DeleteMessage \/ Poll
    \/ \E c \in calls : Reply(c)

Spec == Init /\ [][Next]_vars
-----------------------------------------------------------------------------
TypeOK ==
    /\ selectedDevice \in SmsDevices \cup {"all"} /\ selectedKey \in Threads \cup {NoThread}
    /\ threads \subseteq Threads /\ shown \subseteq Threads
    /\ loading \in BOOLEAN /\ threadLoading \in BOOLEAN /\ loadingHistoryMore \in BOOLEAN
    /\ calls \subseteq Calls

(* The answer with the latest messages of a thread (fetchThreadLatest)      *)
(* leaves what is shown alone, or shows the selected thread. With nothing   *)
(* selected the messages are not displayed.                                 *)
LatestLandsStep ==
    \A c \in calls : c.then # "empty" /\ ThreadReply(c) =>
        shown' \in {shown, {selectedKey}} \/ selectedKey = NoThread

LatestLands == [][LatestLandsStep]_vars

(* The same of older messages (loadMoreHistory). It does not hold: nothing  *)
(* drops the answer for a thread that was left, and it goes before the      *)
(* messages of the one selected since.                                      *)
HistoryLandsStep ==
    \A c \in calls : HistoryReply(c) =>
        shown' \in {shown, shown \cup {selectedKey}} \/ selectedKey = NoThread

(* A spinner ends: what is marked as loading has a request in flight whose  *)
(* reply takes the mark back, and no poll may supersede that request.       *)
LoadingEnds ==
    /\ loading => \E c \in calls : c.op = "contacts" /\ c.cur /\ ~ Silent(c.then)
    /\ loadingHistoryMore => \E c \in calls : c.op = "history"

(* The same of a thread's messages.  It does not hold: a poll whose list    *)
(* was asked for before a thread was selected supersedes its request.       *)
ThreadLoadingEnds ==
    threadLoading => \E c \in calls : c.op = "thread" /\ c.cur /\ ~ Silent(c.then)

(* A reply never takes the selection from the user while the selected       *)
(* thread is still listed; the end of a deletion and a device that is gone  *)
(* are the exceptions.                                                      *)
SelectionKeptStep ==
    \A c \in calls :
        /\ ContactsReply(c) \/ ThreadReply(c) \/ HistoryReply(c) \/ Resume(c)
        /\ c.then # "empty" /\ selectedKey # NoThread
        => selectedKey' = selectedKey \/ selectedKey \notin threads'

SelectionKept == [][SelectionKeptStep]_vars
=============================================================================
