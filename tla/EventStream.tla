----------------------------- MODULE EventStream -----------------------------
(* useEventStream: a server-sent event stream over fetch, with a timer that *)
(* connects again.  The browser runs one callback at a time; a connection   *)
(* is the suspended call of connect().                                      *)
EXTENDS Naturals

CONSTANT MaxDying    \* bound: aborted connections that have not noticed yet

VARIABLES
    paused,      \* paused.value
    connection,  \* the connection of abortCtrl: none, fetching, reading, or
                 \* broken: its reader was left open by an exception
    dying,       \* how many aborted connections have yet to see the AbortError
    timer,       \* reconnectTimer.value # null
    connected,   \* connected.value
    wanted       \* ghost: connect() has run since the last disconnect()

vars == <<paused, connection, dying, timer, connected, wanted>>

Init ==
    /\ paused = FALSE /\ connection = "none" /\ dying = 0
    /\ timer = FALSE /\ connected = FALSE /\ wanted = FALSE

Unsettled == {"fetching", "reading"}

(* The effect of abort(): a suspended connection will see the AbortError.   *)
Abort == dying' = IF connection \in Unsettled THEN dying + 1 ELSE dying

(* disconnect(): no timer, nothing connected.                               *)
Disconnect ==
    /\ dying < MaxDying
    /\ Abort
    /\ connection' = "none" /\ timer' = FALSE /\ connected' = FALSE /\ wanted' = FALSE
    /\ UNCHANGED paused

(* connect() when paused is p: it disconnects first.                        *)
ConnectWith(p) ==
    /\ dying < MaxDying
    /\ Abort
    /\ connected' = FALSE /\ timer' = FALSE
    /\ connection' = IF p THEN "none" ELSE "fetching"
    /\ wanted' = ~p
    /\ paused' = p

Connect == ConnectWith(paused)
SetPaused(p) == ConnectWith(p)

(* The response has arrived.                                                *)
Open ==
    /\ connection = "fetching"
    /\ connection' = "reading" /\ connected' = TRUE
    /\ UNCHANGED <<paused, dying, timer, wanted>>

(* reconnectLater() after the connection has gone.                          *)
Lost(left) ==
    /\ connection' = left
    /\ connected' = FALSE /\ timer' = TRUE
    /\ UNCHANGED <<paused, dying, wanted>>

(* The request fails, the response is an error, or the stream breaks.       *)
Fail == connection \in Unsettled /\ Lost("none")

(* An event that cannot be parsed ends the loop and leaves the reader open. *)
Malformed == connection = "reading" /\ Lost("broken")

(* The server closes the stream.                                            *)
End == connection = "reading" /\ ~paused /\ Lost("none")

(* Mutant: an aborted connection is taken for one that has failed.          *)
SeeAbortMutant ==
    /\ dying > 0
    /\ dying' = dying - 1
    /\ connected' = FALSE /\ timer' = TRUE
    /\ UNCHANGED <<paused, connection, wanted>>

(* An aborted connection returns without a trace.                           *)
SeeAbort ==
    /\ dying > 0
    /\ dying' = dying - 1
    /\ UNCHANGED <<paused, connection, timer, connected, wanted>>

TimerFires ==
    /\ timer
    /\ IF paused
       THEN timer' = FALSE /\ UNCHANGED <<paused, connection, dying, connected, wanted>>
       ELSE ConnectWith(FALSE)

Next ==
    \/ Connect \/ Disconnect \/ \E p \in BOOLEAN : SetPaused(p)
    \/ Open \/ Fail \/ Malformed \/ End \/ SeeAbort \/ TimerFires

Spec == Init /\ [][Next]_vars
-----------------------------------------------------------------------------
TypeOK ==
    /\ paused \in BOOLEAN /\ timer \in BOOLEAN /\ connected \in BOOLEAN /\ wanted \in BOOLEAN
    /\ connection \in {"none", "broken"} \cup Unsettled
    /\ dying \in 0..MaxDying

(* A stream that was disconnected or paused stays quiet: no timer is left   *)
(* that connects again, whatever its aborted connections do.                *)
QuietWhenUnwanted == ~ wanted => ~ timer /\ connection = "none" /\ ~ connected

(* A stream that is wanted never dies silently: it has a connection that    *)
(* may still deliver, or a timer that will make one; and while a connection *)
(* may deliver no timer is set that would tear it down.                     *)
StreamLives == wanted => (timer <=> connection \notin Unsettled)
=============================================================================
