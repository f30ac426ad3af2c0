------------------------------- MODULE UssdTab -------------------------------
(* The USSD terminal of a device, DeviceUssdTab.vue: a dialogue of rounds   *)
(* with the network, held open by a session id.  The tab stays when the     *)
(* page turns to another device.  Sessions are those of VoWiFi; the id of a *)
(* circuit-switched one is always the same, and the server ignores it.      *)
EXTENDS FiniteSets, Naturals

CONSTANTS
    Devices,
    Sessions,      \* ids of sessions: bounds those that are open at once
    None,
    MaxRounds      \* bound: rounds in flight

VARIABLES
    device,        \* props.deviceId
    sessionId,
    sending,
    rounds,        \* suspended calls of sendUSSD()
    cancels,       \* suspended calls of cancelSession()
    open           \* external: the device of each session the server holds

vars == <<device, sessionId, sending, rounds, cancels, open>>

Fresh == {s \in Sessions : open[s] = None /\ s # sessionId}
Round(s) == [device |-> device, session |-> s, opened |-> None, state |-> "asked"]

Init ==
    /\ device \in Devices
    /\ sessionId = None /\ sending = FALSE /\ rounds = {} /\ cancels = {}
    /\ open = [s \in Sessions |-> None]

(* sendUSSD(): a first round, or the next of the session; the input is dead *)
(* while one is sent.                                                       *)
SendUSSD ==
    /\ ~ sending /\ Cardinality(rounds) < MaxRounds
    /\ sending' = TRUE /\ rounds' = rounds \cup {Round(sessionId)}
    /\ UNCHANGED <<device, sessionId, cancels, open>>

(* The server runs a round: it ends the session, or keeps it open, or       *)
(* opens one; a session of another device is refused.                       *)
Ran(r, state, s) == rounds' = (rounds \ {r}) \cup {[r EXCEPT !.state = state, !.opened = s]}

ServerRuns(r) ==
    /\ r.state = "asked"
    /\ IF r.session = None
       THEN \/ \E s \in Fresh : open' = [open EXCEPT ![s] = r.device] /\ Ran(r, "more", s)
            \/ Ran(r, "over", None) /\ UNCHANGED open
       ELSE /\ open[r.session] = r.device
            /\ \/ Ran(r, "more", r.session) /\ UNCHANGED open
               \/ Ran(r, "over", None) /\ open' = [open EXCEPT ![r.session] = None]
    /\ UNCHANGED <<device, sessionId, sending, cancels>>

(* endSession(), or the session that goes on.                               *)
EndSession(s) == sessionId' = s /\ UNCHANGED sending

(* The answer, or an error, whatever the tab has done since.                *)
RoundReply(r) ==
    /\ sessionId' \in {r.opened, None}
    /\ sending' = FALSE /\ rounds' = rounds \ {r}
    /\ UNCHANGED <<device, cancels, open>>

(* cancelSession(), which is dead while one is sent; its answer ends        *)
(* whichever session is shown by then.                                      *)
CancelSession ==
    /\ sessionId # None /\ ~ sending
    /\ cancels' = cancels \cup {[device |-> device, session |-> sessionId]}
    /\ UNCHANGED <<device, sessionId, sending, rounds, open>>

ServerCancels(c) ==
    /\ open[c.session] = c.device
    /\ open' = [open EXCEPT ![c.session] = None]
    /\ UNCHANGED <<device, sessionId, sending, rounds, cancels>>

CancelReply(c) ==
    /\ cancels' = cancels \ {c}
    /\ EndSession(None)
    /\ UNCHANGED <<device, rounds, open>>

(* clearHistory().                                                          *)
ClearHistory == EndSession(None) /\ UNCHANGED <<device, rounds, cancels, open>>

(* The page turns to another device; the network gives up a session.        *)
DeviceChanges(d) ==
    /\ device' = d /\ d # device
    /\ UNCHANGED <<sessionId, sending, rounds, cancels, open>>

SessionLapses(s) ==
    /\ open[s] # None /\ open' = [open EXCEPT ![s] = None]
    /\ UNCHANGED <<device, sessionId, sending, rounds, cancels>>

Next ==
    \/ SendUSSD \/ CancelSession \/ ClearHistory
    \/ \E r \in rounds : ServerRuns(r) \/ RoundReply(r)
    \/ \E c \in cancels : ServerCancels(c) \/ CancelReply(c)
    \/ \E d \in Devices : DeviceChanges(d)
    \/ \E s \in Sessions : SessionLapses(s)

Spec == Init /\ [][Next]_vars
-----------------------------------------------------------------------------
TypeOK ==
    /\ device \in Devices /\ sessionId \in Sessions \cup {None} /\ sending \in BOOLEAN
    /\ rounds \subseteq [device : Devices, session : Sessions \cup {None},
                         opened : Sessions \cup {None}, state : {"asked", "more", "over"}]
    /\ cancels \subseteq [device : Devices, session : Sessions]
    /\ open \in [Sessions -> Devices \cup {None}]

(* While a round is in flight the tab says so, whichever sessions were      *)
(* cancelled or cleared meanwhile: no second round overtakes it.            *)
OneRound == Cardinality(rounds) = IF sending THEN 1 ELSE 0

(* A round goes to the device of its session.  It does not hold: the tab    *)
(* keeps the session of the device before.                                  *)
OwnDevice ==
    \A r \in rounds : r.session # None => open[r.session] \in {None, r.device}
=============================================================================
