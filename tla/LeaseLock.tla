----------------------------- MODULE LeaseLock -----------------------------
(* What the APDU arbiter of a device promises to the callers that use the   *)
(* SIM card: leases that exclude each other, barriers that keep classes of  *)
(* calls away, and leases that are lost only by those who outstay them.  It *)
(* has no queue, no priorities, no timers and no wake-ups: those are how    *)
(* ApduArbiter keeps the promise.                                           *)
EXTENDS Naturals, FiniteSets

CONSTANTS Calls, Tickets, MaxSessions, MaxQMITransports

VARIABLES
    ticket,    \* what each call asks for
    holds,     \* the calls that were told they hold it, and have not given it back
    granted,   \* the calls that do hold it
    late       \* the calls that hold it for too long

vars == <<ticket, holds, granted, late>>

Init ==
    /\ ticket \in [Calls -> Tickets]
    /\ holds = {} /\ granted = {} /\ late = {}

Kind(c) == ticket[c].leaseType
Leases == {c \in granted : Kind(c) # "barrier"}
Barriers == {c \in granted : Kind(c) = "barrier"}
Sessions == {c \in granted : Kind(c) = "session"}
OnChannel(c) == Kind(c) = "transport" /\ ticket[c].scope = "qmi_channel"
Channels == {c \in granted : OnChannel(c)}

(* Two leases that may be held at the same time.                            *)
Compatible(c, d) ==
    \/ Kind(c) = "session" /\ Kind(d) = "session"
    \/ OnChannel(c) /\ OnChannel(d) /\ ticket[c].channel # ticket[d].channel

Room(c) ==
    /\ Kind(c) = "session" => Cardinality(Sessions) < MaxSessions
    /\ OnChannel(c) => Cardinality(Channels) < MaxQMITransports

MayHold(c) ==
    IF Kind(c) = "barrier" THEN Leases = {}
    ELSE /\ \A d \in Leases : Compatible(c, d)
         /\ Room(c)
         /\ \A b \in Barriers : ticket[c].class \notin ticket[b].blocked

Grant(c) ==
    /\ c \notin holds /\ MayHold(c)
    /\ holds' = holds \cup {c} /\ granted' = granted \cup {c}
    /\ UNCHANGED <<ticket, late>>

GiveBack(c) ==
    /\ c \in holds
    /\ holds' = holds \ {c} /\ granted' = granted \ {c} /\ late' = late \ {c}
    /\ UNCHANGED ticket

Outstay(c) ==
    /\ c \in Leases /\ late' = late \cup {c}
    /\ UNCHANGED <<ticket, holds, granted>>

Prolong(c) ==
    /\ c \in Leases /\ late' = late \ {c}
    /\ UNCHANGED <<ticket, holds, granted>>

(* Its holder is not told.                                                  *)
TakeAway(c) ==
    /\ c \in Leases \cap late
    /\ granted' = granted \ {c}
    /\ UNCHANGED <<ticket, holds, late>>

Next == \E c \in Calls : Grant(c) \/ GiveBack(c) \/ Outstay(c) \/ Prolong(c) \/ TakeAway(c)

Spec == Init /\ [][Next]_vars
=============================================================================
