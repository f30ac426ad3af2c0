------------------------------- MODULE Websheet -------------------------------
(* The E911 address websheet: the carrier's page in its frame (bridge.js),  *)
(* the dialog around it (CarrierWebsheetDialog.vue), and the session the    *)
(* broker keeps for it.  The page tells the shell each event over several   *)
(* channels and the broker directly; none of them waits for the others.  A  *)
(* flow that is sent back to the broker itself (Proxy(), websheet.go) tells *)
(* the shell so with a page of its own.                                     *)
EXTENDS Naturals, FiniteSets

CONSTANTS
    Sheets,        \* the websheets a behaviour may open
    None,
    Channels,      \* by which an event reaches the shell
    MaxHandlers    \* bound: requests for callbacks that run at a time

VARIABLES
    starting,      \* e911Starting
    open,          \* e911WebsheetOpen
    current,       \* e911Websheet
    completing,    \* suspended calls of completeWebsheet(), by the sheet posted
    posted,        \* what each page has told, once each (bound)
    messages,      \* copies of it on their way to the dialog
    session,       \* the broker's sessions
    done,          \* the sessions with a closed doneCh
    handlers,      \* requests for the callback of a session that run
    finishes,      \* ghost: how many times each sheet was posted as done
    strays         \* ghost: those that were by a message without a token

vars == <<starting, open, current, completing, posted, messages, session, done,
          handlers, finishes, strays>>
dialog == <<starting, open, current, completing, finishes, strays>>
broker == <<session, done, handlers>>

(* A terminal callback ends the flow, a progress does not: the status of    *)
(* the account has changed, but phone services are not on.  callbackHTML()  *)
(* posts no callback at all, and no token.                                  *)
Callbacks == {"progress", "terminal"}
Posts == Callbacks \cup {"none"}

Room == Cardinality(handlers) < MaxHandlers
Handler(s, k) == [sheet |-> s, callback |-> k, pc |-> "get"]

Init ==
    /\ starting = FALSE /\ open = FALSE /\ current = None /\ completing = {}
    /\ posted = [s \in Sheets |-> {}] /\ messages = {}
    /\ session = [s \in Sheets |-> "none"] /\ done = {} /\ handlers = {}
    /\ finishes = [s \in Sheets |-> 0] /\ strays = {}

(* openE911Websheet().                                                      *)
Start ==
    /\ ~ starting /\ ~ open
    /\ starting' = TRUE
    /\ UNCHANGED <<open, current, completing, finishes, strays, posted, messages>>
    /\ UNCHANGED broker

(* Create(), and the answer: the dialog shows the websheet.                 *)
Started(s) ==
    /\ starting /\ session[s] = "none"
    /\ starting' = FALSE
    /\ session' = [session EXCEPT ![s] = "live"]
    /\ open' = TRUE /\ current' = s
    /\ UNCHANGED <<completing, finishes, strays, posted, messages, done, handlers>>

StartFails ==
    /\ starting /\ starting' = FALSE
    /\ UNCHANGED <<open, current, completing, finishes, strays, posted, messages>>
    /\ UNCHANGED broker

(* The user closes the dialog, and the frame with it.                       *)
Close ==
    /\ open /\ open' = FALSE
    /\ UNCHANGED <<starting, current, completing, finishes, strays, posted, messages>>
    /\ UNCHANGED broker

(* post(): a copy for the shell over every channel, and a request.          *)
Post(s, k) ==
    /\ Room /\ open /\ current = s /\ k \notin posted[s]
    /\ posted' = [posted EXCEPT ![s] = @ \cup {k}]
    /\ messages' = messages \cup
          {[sheet |-> s, token |-> s, callback |-> k, by |-> ch] : ch \in Channels}
    /\ handlers' = handlers \cup {Handler(s, k)}
    /\ UNCHANGED dialog /\ UNCHANGED <<session, done>>

(* Proxy() of a target under /_callback, for which a session must be found: *)
(* whatever the carrier reports with it, the frame posts to its parent that *)
(* the flow has returned.                                                   *)
Returned(s) ==
    /\ open /\ current = s /\ session[s] = "live" /\ "none" \notin posted[s]
    /\ posted' = [posted EXCEPT ![s] = @ \cup {"none"}]
    /\ messages' = messages \cup
          {[sheet |-> s, token |-> None, callback |-> "none", by |-> None]}
    /\ UNCHANGED dialog /\ UNCHANGED broker

(* Mutant: a websheet that is being completed is completed again.           *)
MayCompleteMutant == TRUE

(* isCurrentWebsheetMessage(), for which a message without a token is of    *)
(* whatever websheet is shown, and the guard of completeWebsheet().         *)
IsCurrent(m) == m.token \in {None, current}
MayComplete == completing = {}

(* completeWebsheet(), up to its request.                                   *)
CompleteWebsheet(m) ==
    /\ strays' = IF m.token = None THEN strays \cup {current} ELSE strays
    /\ completing' = completing \cup {[sheet |-> current, call |-> finishes[current]]}
    /\ finishes' = [finishes EXCEPT ![current] = @ + 1]

(* handleShellMessage(): a progress is relayed to the broker, and anything  *)
(* else, no callback included, completes the websheet (isTerminalCallback()). *)
Message(m) ==
    /\ m \in messages /\ messages' = messages \ {m}
    /\ IF ~ open \/ ~ IsCurrent(m) THEN UNCHANGED <<completing, finishes, strays, handlers>>
       ELSE IF m.callback = "progress"
       THEN /\ Room
            /\ handlers' = handlers \cup {Handler(current, m.callback)}
            /\ UNCHANGED <<completing, finishes, strays>>
       ELSE /\ IF MayComplete THEN CompleteWebsheet(m)
               ELSE UNCHANGED <<completing, finishes, strays>>
            /\ UNCHANGED handlers
    /\ UNCHANGED <<starting, open, current, posted, session, done>>

(* handleWebsheetDone().                                                    *)
ServerDone(c) ==
    /\ c \in completing /\ session[c.sheet] = "live"
    /\ done' = done \cup {c.sheet}
    /\ session' = [session EXCEPT ![c.sheet] = "gone"]
    /\ UNCHANGED dialog /\ UNCHANGED <<posted, messages, handlers>>

(* The request has ended somehow: whatever the dialog shows is closed.      *)
Completed(c) ==
    /\ c \in completing /\ completing' = completing \ {c}
    /\ open' = FALSE /\ current' = None
    /\ UNCHANGED <<starting, finishes, strays, posted, messages>> /\ UNCHANGED broker

(* The time of a session is up: it is no longer found.                      *)
Expire(s) ==
    /\ session[s] = "live"
    /\ session' = [session EXCEPT ![s] = "gone"]
    /\ UNCHANGED dialog /\ UNCHANGED <<posted, messages, done, handlers>>

(* handleWebsheetCallback(): the session is found, or the request refused.  *)
Get(h) ==
    /\ h.pc = "get"
    /\ handlers' = (handlers \ {h}) \cup
          (IF session[h.sheet] = "live" THEN {[h EXCEPT !.pc = "found"]} ELSE {})
    /\ UNCHANGED dialog /\ UNCHANGED <<posted, messages, session, done>>

(* The callback is kept in the channel of the session, which nothing reads: *)
(* one that finds it full may wait there for good.  A terminal one closes   *)
(* doneCh.                                                                  *)
Answer(h) ==
    /\ h.pc = "found" /\ handlers' = handlers \ {h}
    /\ done' = IF h.callback = "terminal" THEN done \cup {h.sheet} ELSE done
    /\ UNCHANGED dialog /\ UNCHANGED <<posted, messages, session>>

Next ==
    \/ Start \/ StartFails \/ Close
    \/ \E s \in Sheets : Started(s) \/ Expire(s) \/ Returned(s)
    \/ \E s \in Sheets, k \in Callbacks : Post(s, k)
    \/ \E m \in messages : Message(m)
    \/ \E c \in completing : ServerDone(c) \/ Completed(c)
    \/ \E h \in handlers : Get(h) \/ Answer(h)

Spec == Init /\ [][Next]_vars
-----------------------------------------------------------------------------
TypeOK ==
    /\ starting \in BOOLEAN /\ open \in BOOLEAN /\ current \in Sheets \cup {None}
    /\ \A c \in completing : c.sheet \in Sheets
    /\ posted \in [Sheets -> SUBSET Posts] /\ strays \subseteq Sheets
    /\ messages \subseteq [sheet : Sheets, token : Sheets \cup {None}, callback : Posts,
                            by : Channels \cup {None}]
    /\ session \in [Sheets -> {"none", "live", "gone"}]
    /\ done \subseteq Sheets
    /\ handlers \subseteq [sheet : Sheets, callback : Callbacks, pc : {"get", "found"}]

(* A websheet is finished, in the dialog or at the broker, only once its    *)
(* own page has said so: neither late copies of what another page said nor  *)
(* callbacks that report progress do it.  The exception is a flow that      *)
(* returned: its message has no token and finishes whatever is shown.       *)
FinishedByPage ==
    /\ \A s \in Sheets \ strays :
          s \in done \/ finishes[s] > 0 => "terminal" \in posted[s]
    /\ strays # {} => \E s \in Sheets : "none" \in posted[s]

(* However many copies of it arrive, over whichever channels, a terminal    *)
(* callback completes its websheet once, and beside a flow that returned.   *)
CompletedOnce == \A s \in Sheets : finishes[s] <= 1

(* The dialog is closed by the websheet it shows.  It does not hold: the    *)
(* answer for one that was closed closes the next.                          *)
ClosesOwn == \A c \in completing : open => c.sheet = current

(* A websheet finished by a flow that returned is the one whose flow it     *)
(* was.  It does not hold: the message comes when another one is shown.     *)
ReturnsToOwn == \A s \in strays : "none" \in posted[s]
=============================================================================
