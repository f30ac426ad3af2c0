----------------------------- MODULE SettingsView -----------------------------
(* The settings page, Settings.vue, over the settings store: the            *)
(* notification forms and what is saved of them, the tests of channels, the *)
(* password, and the updater.  The store outlives the page: a call begun by *)
(* a page that has gone still writes into it.                               *)
EXTENDS FiniteSets, Naturals

CONSTANTS
    Headers,       \* names of custom webhook headers
    Protected,     \* of those, the names only the server sets
    MaxCalls       \* bound: calls in flight

VARIABLES
    server,        \* external: the configuration the server keeps
    form,          \* the notification forms of the store
    rows,          \* webhookHeaderRows of the page, by name
    mounted,
    loading, saving, changing,     \* flags of the store
    testing,       \* the channels whose test flag is set
    info,          \* loadingSystemInfo
    checking, update, applying,    \* updater refs of the page
    calls          \* suspended calls

vars == <<server, form, rows, mounted, loading, saving, changing, testing,
          info, checking, update, applying, calls>>
notify == <<server, form, rows, loading, saving>>
rest == <<changing, testing, info>>
updater == <<checking, update, applying>>

(* Of the forms: the retries and headers of the webhook, and whether        *)
(* anything else is filled in.                                              *)
Retries == {0, 3}
Forms == [retry : Retries, headers : SUBSET Headers, filled : BOOLEAN]
DefaultForm == [retry |-> 3, headers |-> {}, filled |-> FALSE]

(* sanitizeWebhookHeaders() and the watch of the rows.                      *)
Sanitize(hs) == hs \ Protected

(* buildNotificationsPayload(): a number that is zero becomes the default.  *)
Payload(f) ==
    [f EXCEPT !.headers = Sanitize(@), !.retry = IF @ = 0 THEN 3 ELSE @]

Channels == {"webhook", "bark", "email"}
Call(op) == [op |-> op, data |-> DefaultForm, here |-> TRUE, state |-> "asked"]
Loads == {c \in calls : c.op = "load"}
Asked(op) == \E c \in calls : c.op = op
Room == Cardinality(calls) < MaxCalls

(* The call of op that this page makes; a page makes one of each at a time. *)
Ask(op) == calls' = calls \cup {Call(op)}
Done(c) == calls' = calls \ {c}

(* The page is opened for the first time: onMounted().                      *)
Init ==
    /\ server \in {[DefaultForm EXCEPT !.retry = r, !.headers = Headers, !.filled = TRUE] : r \in Retries}
    /\ form = DefaultForm /\ rows = {} /\ mounted = TRUE
    /\ loading = TRUE /\ info = TRUE
    /\ saving = FALSE /\ changing = FALSE /\ testing = {}
    /\ checking = FALSE /\ update = FALSE /\ applying = FALSE
    /\ calls = {Call("load"), Call("info")}

(* The page goes, with its own refs; its calls go on.                       *)
Unmount ==
    /\ mounted /\ mounted' = FALSE
    /\ rows' = {} /\ checking' = FALSE /\ update' = FALSE /\ applying' = FALSE
    /\ calls' = {[c EXCEPT !.here = FALSE] : c \in calls}
    /\ UNCHANGED <<server, form, loading, saving>> /\ UNCHANGED rest

Mount ==
    /\ ~ mounted /\ Cardinality(calls) + 2 <= MaxCalls
    /\ mounted' = TRUE /\ loading' = TRUE /\ info' = TRUE
    /\ calls' = calls \cup {Call("load"), Call("info")}
    /\ UNCHANGED <<server, form, rows, saving, changing, testing>> /\ UNCHANGED updater

(* The server reads its configuration, or takes one.                        *)
ServerReads(c) ==
    /\ c.op = "load" /\ c.state = "asked"
    /\ calls' = (calls \ {c}) \cup {[c EXCEPT !.state = "answered", !.data = server]}
    /\ UNCHANGED notify /\ UNCHANGED <<mounted, rest, updater>>

ServerSaves(c) ==
    /\ c.op = "save" /\ c.state = "asked"
    /\ server' = c.data
    /\ calls' = (calls \ {c}) \cup {[c EXCEPT !.state = "answered"]}
    /\ UNCHANGED <<form, rows, loading, saving, mounted>> /\ UNCHANGED <<rest, updater>>

(* fetchNotifications() and loadNotifications(): the forms are replaced,    *)
(* and the rows of the page that asked; its watch then drops the protected  *)
(* headers from the form.  A load that fails leaves all as it is.           *)
LoadReply(c) ==
    /\ c.op = "load" /\ loading' = FALSE
    /\ \/ /\ c.state = "answered"
          /\ IF c.here THEN /\ rows' = c.data.headers
                            /\ form' = [c.data EXCEPT !.headers = Sanitize(@)]
                       ELSE form' = c.data /\ UNCHANGED rows
       \/ UNCHANGED <<form, rows>>
    /\ Done(c)
    /\ UNCHANGED <<server, saving, mounted>> /\ UNCHANGED <<rest, updater>>

(* Edits; the form is hidden while it loads.  A row that is added, renamed  *)
(* or removed writes all rows back.                                         *)
EditRows(hs) ==
    /\ mounted /\ ~ loading
    /\ rows' = hs
    /\ form' = [form EXCEPT !.headers = Sanitize(hs)]
    /\ UNCHANGED <<server, loading, saving, mounted, calls>> /\ UNCHANGED <<rest, updater>>

Edit(f) ==
    /\ mounted /\ ~ loading
    /\ f.headers = form.headers
    /\ form' = f
    /\ UNCHANGED <<server, rows, loading, saving, mounted, calls>> /\ UNCHANGED <<rest, updater>>

(* saveNotifications(); its button is dead while a load or save runs.       *)
Save ==
    /\ Room /\ mounted /\ ~ loading /\ ~ saving
    /\ saving' = TRUE
    /\ calls' = calls \cup {[Call("save") EXCEPT !.data = Payload(form)]}
    /\ UNCHANGED <<server, form, rows, loading, mounted>> /\ UNCHANGED <<rest, updater>>

SaveReply(c) ==
    /\ c.op = "save" /\ saving' = FALSE /\ Done(c)
    /\ UNCHANGED <<server, form, rows, loading, mounted>> /\ UNCHANGED <<rest, updater>>

(* test...Notification(): the form is sent, nothing of it changes.          *)
Test(ch) ==
    /\ Room /\ mounted /\ ~ loading /\ ch \notin testing
    /\ testing' = testing \cup {ch} /\ Ask(ch)
    /\ UNCHANGED notify /\ UNCHANGED <<changing, info, mounted>> /\ UNCHANGED updater

TestReply(c) ==
    /\ c.op \in Channels
    /\ testing' = testing \ {c.op} /\ Done(c)
    /\ UNCHANGED notify /\ UNCHANGED <<changing, info, mounted>> /\ UNCHANGED updater

(* changePassword() and loadSystemInfo().                                   *)
ChangePassword ==
    /\ Room /\ mounted /\ ~ changing
    /\ changing' = TRUE /\ Ask("password")
    /\ UNCHANGED notify /\ UNCHANGED <<testing, info, mounted>> /\ UNCHANGED updater

PasswordReply(c) ==
    /\ c.op = "password" /\ changing' = FALSE /\ Done(c)
    /\ UNCHANGED notify /\ UNCHANGED <<testing, info, mounted>> /\ UNCHANGED updater

InfoReply(c) ==
    /\ c.op = "info" /\ info' = FALSE /\ Done(c)
    /\ UNCHANGED notify /\ UNCHANGED <<testing, changing, mounted>> /\ UNCHANGED updater

(* doCheckUpdate(): whether there is a version to apply.                    *)
CheckUpdate ==
    /\ Room /\ mounted /\ ~ checking
    /\ checking' = TRUE /\ Ask("check")
    /\ UNCHANGED notify /\ UNCHANGED <<rest, mounted, update, applying>>

CheckReply(c) ==
    /\ c.op = "check" /\ Done(c)
    /\ IF c.here THEN checking' = FALSE /\ update' \in BOOLEAN ELSE UNCHANGED <<checking, update>>
    /\ UNCHANGED notify /\ UNCHANGED <<rest, mounted, applying>>

(* doApplyUpdate(), once confirmed.                                         *)
ApplyUpdate ==
    /\ Room /\ mounted /\ update /\ ~ applying
    /\ applying' = TRUE /\ Ask("apply")
    /\ UNCHANGED notify /\ UNCHANGED <<rest, mounted, checking, update>>

ApplyReply(c) ==
    /\ c.op = "apply" /\ Done(c)
    /\ applying' = (applying /\ ~ c.here)
    /\ UNCHANGED notify /\ UNCHANGED <<rest, mounted, checking, update>>

(* The browser loads everything anew: asked to, or once an update is        *)
(* applied.  Answers to what was asked before are not heard.                *)
Reload ==
    /\ form' = DefaultForm /\ rows' = {} /\ mounted' = TRUE
    /\ loading' = TRUE /\ info' = TRUE
    /\ saving' = FALSE /\ changing' = FALSE /\ testing' = {}
    /\ checking' = FALSE /\ update' = FALSE /\ applying' = FALSE
    /\ calls' = {Call("load"), Call("info")}
    /\ UNCHANGED server

Next ==
    \/ Unmount \/ Mount \/ Save \/ ChangePassword \/ CheckUpdate \/ ApplyUpdate \/ Reload
    \/ \E hs \in SUBSET Headers : EditRows(hs)
    \/ \E f \in Forms : Edit(f)
    \/ \E ch \in Channels : Test(ch)
    \/ \E c \in calls :
          \/ ServerReads(c) \/ ServerSaves(c) \/ LoadReply(c) \/ SaveReply(c)
          \/ TestReply(c) \/ PasswordReply(c) \/ InfoReply(c) \/ CheckReply(c) \/ ApplyReply(c)

Spec == Init /\ [][Next]_vars
-----------------------------------------------------------------------------
TypeOK ==
    /\ server \in Forms /\ form \in Forms /\ rows \subseteq Headers
    /\ {mounted, loading, saving, changing, info, checking, update, applying} \subseteq BOOLEAN
    /\ testing \subseteq Channels
    /\ calls \subseteq [op : Channels \cup {"load", "save", "password", "info", "check", "apply"},
                        data : Forms, here : BOOLEAN, state : {"asked", "answered"}]

(* Every flag has a call that takes it back, also one of a page that has    *)
(* gone: no button stays busy.                                              *)
FlagsEnd ==
    /\ loading => Asked("load")
    /\ saving => Asked("save")
    /\ changing => Asked("password")
    /\ \A ch \in testing : Asked(ch)
    /\ info => Asked("info")
    /\ checking => \E c \in calls : c.op = "check" /\ c.here
    /\ applying => \E c \in calls : c.op = "apply" /\ c.here

(* A save sends the retries the page shows.  It does not hold: none at all  *)
(* is sent as three.                                                        *)
SavedIsShown ==
    [][\A c \in calls' \ calls : c.op = "save" => c.data.retry = form.retry]_vars

(* The rows are the one source of the headers that are saved.  It does not  *)
(* hold on a page opened again whose load fails.                            *)
RowsAreSource == mounted /\ ~ loading => form.headers = Sanitize(rows)
=============================================================================
