---------------------------- MODULE ApduArbiter ----------------------------
(***************************************************************************)
(* The per-device APDU arbiter, internal/apduarbiter/arbiter.go.  Every    *)
(* goroutine that talks to the SIM card first gets a lease (a legacy       *)
(* session, a legacy one-shot, or a transport) or a barrier.  Callers that *)
(* cannot be served wait in one queue; every change of the arbiter closes  *)
(* and replaces notifyC, which wakes all of them to look again.            *)
(*                                                                         *)
(* A call of AcquireSession, AcquireOneShot, AcquireTransport or           *)
(* BeginBarrier is an element of Calls: it takes a fresh ticket id from    *)
(* a.seq, and lives until its lease or barrier is released, or its context *)
(* ends.  Building the ticket is one action, without a.mu, and everything  *)
(* between two Lock/Unlock of a.mu is one action.                          *)
(***************************************************************************)
EXTENDS Integers, Sequences, FiniteSets, SequencesExt

CONSTANTS
    Calls,              \* the calls of the interface, one ticket id each
    NoCall,             \* no call: a nil *activeLease, and no enclosing call
    Requests,           \* the requests the callers may make
    Watchers,           \* goroutines that call WaitIdle
    MaxSessions,        \* opts.MaxSessions
    MaxQMITransports,   \* opts.MaxQMITransports
    MaxTouches          \* bound: how often one lease is touched

LeaseTypes == {"session", "oneshot", "transport", "barrier"}
APDUClasses == {"EUICCWrite", "EUICCRead", "USIMAKA", "SMSC", "SwitchBarrier", "Recovery"}
Scopes == {"exclusive", "qmi_channel"}
NoValue == ""   \* an empty Go string in a request

RawRequests ==
    [leaseType : LeaseTypes, class : APDUClasses \cup {NoValue}, mode : {"QMI", "AT"},
     channel : Int, scope : Scopes \cup {NoValue}, blocked : SUBSET APDUClasses]

TicketType ==
    [leaseType : LeaseTypes, class : APDUClasses, channel : Int, scope : Scopes,
     blocked : SUBSET APDUClasses]

ASSUME CallsAssumption == NoCall \notin Calls
ASSUME RequestsAssumption == Requests \subseteq RawRequests
ASSUME LimitsAssumption == /\ MaxSessions \in Nat \ {0}
                           /\ MaxQMITransports \in Nat \ {0}
                           /\ MaxTouches \in Nat

-----------------------------------------------------------------------------
(* How a request becomes a ticket.                                         *)

NormalizeClass(class, leaseType) ==
    IF class # NoValue THEN class
    ELSE CASE leaseType = "oneshot" -> "USIMAKA"
           [] leaseType = "barrier" -> "SwitchBarrier"
           [] OTHER -> "EUICCWrite"

(* Mutant: an empty scope is kept.                                         *)
NormalizeScopeMutant(r) ==
    IF r.leaseType = "transport" /\ r.mode = "QMI" /\ r.channel > 0 THEN "qmi_channel" ELSE r.scope

NormalizeScope(r) ==
    IF r.leaseType = "transport" /\ r.scope = "qmi_channel" /\ r.mode = "QMI" /\ r.channel > 0
    THEN "qmi_channel" ELSE "exclusive"

NormalizeBlocked(r) ==
    IF r.leaseType # "barrier" THEN {}
    ELSE IF r.blocked = {} THEN {"USIMAKA", "SMSC"} ELSE r.blocked

Normalize(r) ==
    [leaseType |-> r.leaseType, class |-> NormalizeClass(r.class, r.leaseType),
     channel |-> r.channel, scope |-> NormalizeScope(r), blocked |-> NormalizeBlocked(r)]

-----------------------------------------------------------------------------
VARIABLES
    queue,              \* a.queue, by ticket id
    ticket,             \* the waitTicket each call builds from its request, fixed
    pc,                 \* where each call is, see CallStates
    outer,              \* the barrier call under which a call is made, or NoCall
    aged,               \* waiting tickets at least transportPriorityAging old
    older,              \* the waiting tickets whose enqueued time is before that of c
    activeSessions, activeOneshot, activeTransports, activeBarriers,
    armed,              \* leases whose watchdog timer is running
    firing,             \* releaseExpired goroutines started and not yet run, per lease
    due,                \* leases not released yet whose expiresAt has passed
    touches,            \* successful Touch calls, per lease (bounded)
    watch,              \* where each WaitIdle call is
    stats               \* the four counters of Stats

vars == <<queue, ticket, pc, outer, aged, older, activeSessions, activeOneshot,
          activeTransports, activeBarriers, armed, firing, due, touches, watch, stats>>

activeVars == <<activeSessions, activeOneshot, activeTransports, activeBarriers>>
timerVars == <<armed, firing, due, touches>>

(* "built": the ticket has its id and its enqueued time, a.mu is not taken.*)
(* "wait": in the select on the notifyC it read before it unlocked a.mu.   *)
(* "woken": that notifyC is closed.  "leaving": the select chose ctx.Done, *)
(* a.mu is not taken yet.  "held": the Lease or Barrier was returned.      *)
CallStates == {"idle", "built", "wait", "woken", "leaving", "held", "done"}

ActiveOneshots == {activeOneshot} \ {NoCall}
ActiveLeases == activeSessions \cup ActiveOneshots \cup activeTransports
IsBarrier(c) == ticket[c].leaseType = "barrier"
OnQMIChannel(c) == ticket[c].scope = "qmi_channel"

(* The calls with a ticket, queued or not yet, and the tickets whose age   *)
(* counts in selectedTransportLocked.                                      *)
Ticketed == {c \in Calls : pc[c] \in {"built", "wait", "woken", "leaving"}}
IsAKATransport(c) == ticket[c].leaseType = "transport" /\ ticket[c].class = "USIMAKA"
Ages(c) == ticket[c].leaseType = "transport" /\ ticket[c].class # "USIMAKA"

Init ==
    /\ queue = <<>>
    /\ ticket \in [Calls -> {Normalize(r) : r \in Requests}]
    /\ pc = [c \in Calls |-> "idle"]
    /\ outer = [c \in Calls |-> NoCall]
    /\ aged = {}
    /\ older = [c \in Calls |-> {}]
    /\ activeSessions = {} /\ activeOneshot = NoCall
    /\ activeTransports = {} /\ activeBarriers = {}
    /\ armed = {} /\ due = {}
    /\ firing = [c \in Calls |-> 0]
    /\ touches = [c \in Calls |-> 0]
    /\ watch = [w \in Watchers |-> "idle"]
    /\ stats = [waitRequests |-> 0, acquires |-> 0, waitTimeouts |-> 0, forcedReleases |-> 0]

-----------------------------------------------------------------------------
(* The tests made with a.mu held, on the queue q.                          *)

IsBlockedByActiveBarrier(class) == \E b \in activeBarriers : class \in ticket[b].blocked

HasPendingBarrierAhead(c, q) ==
    \E i \in DOMAIN q :
        /\ \A j \in 1..i : q[j] # c
        /\ IsBarrier(q[i]) /\ ticket[c].class \in ticket[q[i]].blocked

QueueHeadIs(c, q) == q # <<>> /\ q[1] = c

ActiveExclusive == {t \in activeTransports : ~ OnQMIChannel(t)}
ActiveQMI == {t \in activeTransports : OnQMIChannel(t)}
QMIWindowFull == Cardinality(ActiveQMI) >= MaxQMITransports

(* Mutant: an exclusive transport looks only for exclusive ones.           *)
CanAcquireTransportNowMutant(c) ==
    IF OnQMIChannel(c)
    THEN ActiveExclusive = {} /\ \A t \in ActiveQMI : ticket[t].channel # ticket[c].channel
    ELSE ActiveExclusive = {}

CanAcquireTransportNow(c) ==
    IF OnQMIChannel(c)
    THEN /\ ActiveExclusive = {}
         /\ ~ QMIWindowFull
         /\ \A t \in ActiveQMI : ticket[t].channel # ticket[c].channel
    ELSE activeTransports = {}

(* Mutant: only the full QMI window gates the queue.                       *)
TransportWaitGatesQueueMutant(c) == OnQMIChannel(c) /\ QMIWindowFull

TransportWaitGatesQueue(c) == OnQMIChannel(c) => (ActiveExclusive # {} \/ QMIWindowFull)

(* Mutant: the scan passes over a barrier instead of ending there.         *)
StopsMutant(c) ==
    \/ ticket[c].leaseType \in {"session", "oneshot"}
    \/ ~ CanAcquireTransportNow(c) /\ TransportWaitGatesQueue(c)

(* The scan of selectedTransportLocked ends at the first ticket that Stops *)
(* it; the tickets before that one which can be served now compete.        *)
Stops(c) ==
    \/ ticket[c].leaseType # "transport"
    \/ /\ ~ IsBlockedByActiveBarrier(ticket[c].class)
       /\ ~ CanAcquireTransportNow(c)
       /\ TransportWaitGatesQueue(c)

Eligible(q) ==
    {i \in DOMAIN q :
        /\ \A j \in 1..i : ~ Stops(q[j])
        /\ ~ IsBlockedByActiveBarrier(ticket[q[i]].class)
        /\ CanAcquireTransportNow(q[i])}
EligibleAKA(q) == {i \in Eligible(q) : ticket[q[i]].class = "USIMAKA"}
EligibleAgedNonAKA(q) == {i \in Eligible(q) \ EligibleAKA(q) : q[i] \in aged}

Preferred(q) ==
    IF EligibleAgedNonAKA(q) # {} THEN EligibleAgedNonAKA(q)
    ELSE IF EligibleAKA(q) # {} THEN EligibleAKA(q) ELSE Eligible(q)

SelectedTransportIs(c, q) == \E i \in Preferred(q) : q[i] = c /\ \A j \in Preferred(q) : i <= j

(* Mutant: one session too many.                                           *)
RoomForSessionMutant ==
    activeOneshot = NoCall /\ activeTransports = {} /\ Cardinality(activeSessions) <= MaxSessions

RoomForSession ==
    activeOneshot = NoCall /\ activeTransports = {} /\ Cardinality(activeSessions) < MaxSessions

CanAcquireLease(c, q) ==
    /\ ~ IsBlockedByActiveBarrier(ticket[c].class)
    /\ ~ HasPendingBarrierAhead(c, q)
    /\ \/ /\ ticket[c].leaseType = "session"
          /\ QueueHeadIs(c, q) /\ RoomForSession
       \/ /\ ticket[c].leaseType = "oneshot"
          /\ QueueHeadIs(c, q) /\ ActiveLeases = {}
       \/ /\ ticket[c].leaseType = "transport"
          /\ activeSessions = {} /\ activeOneshot = NoCall
          /\ SelectedTransportIs(c, q)

(* Mutant: a barrier waits for transports only.                            *)
CanAcquireBarrierMutant(c, q) ==
    /\ activeTransports = {}
    /\ \E i \in DOMAIN q : q[i] = c /\ \A j \in 1..(i - 1) : ~ IsBarrier(q[j])

CanAcquireBarrier(c, q) ==
    /\ ActiveLeases = {}
    /\ \E i \in DOMAIN q : q[i] = c /\ \A j \in 1..(i - 1) : ~ IsBarrier(q[j])

CanAcquire(c, q) == IF IsBarrier(c) THEN CanAcquireBarrier(c, q) ELSE CanAcquireLease(c, q)

IsIdle == ActiveLeases \cup activeBarriers = {} /\ queue = <<>>

-----------------------------------------------------------------------------
(* The pieces the operations share.                                        *)

(* Mutant: only the head of the queue is woken, as sync.Cond.Signal would. *)
SignalMutant(c, s) ==
    /\ pc' = [d \in Calls |-> IF d = c THEN s
                              ELSE IF pc[d] = "wait" /\ QueueHeadIs(d, queue) THEN "woken" ELSE pc[d]]
    /\ watch' = [w \in Watchers |-> IF watch[w] = "wait" THEN "woken" ELSE watch[w]]

(* signalLocked: everyone asleep on the current notifyC wakes up.  c is    *)
(* the caller that signals; its own next state is s.                       *)
Signal(c, s) ==
    /\ pc' = [d \in Calls |-> IF d = c THEN s ELSE IF pc[d] = "wait" THEN "woken" ELSE pc[d]]
    /\ watch' = [w \in Watchers |-> IF watch[w] = "wait" THEN "woken" ELSE watch[w]]

(* Mutant: the head of the queue is removed, whoever it is.                *)
WithoutMutant(q, c) == Tail(q)

Without(q, c) == RemoveAt(q, CHOOSE i \in DOMAIN q : q[i] = c)

(* Mutant: only a transport gets a watchdog.                               *)
AddActiveMutant(c) ==
    /\ activeSessions' = activeSessions \cup {d \in {c} : ticket[d].leaseType = "session"}
    /\ activeOneshot' = IF ticket[c].leaseType = "oneshot" THEN c ELSE activeOneshot
    /\ activeTransports' = activeTransports \cup {d \in {c} : ticket[d].leaseType = "transport"}
    /\ activeBarriers' = activeBarriers \cup {d \in {c} : IsBarrier(d)}
    /\ armed' = armed \cup (activeTransports' \cap {c})

(* addActiveLocked, with the watchdog timer of acquire.                    *)
AddActive(c) ==
    /\ activeSessions' = activeSessions \cup {d \in {c} : ticket[d].leaseType = "session"}
    /\ activeOneshot' = IF ticket[c].leaseType = "oneshot" THEN c ELSE activeOneshot
    /\ activeTransports' = activeTransports \cup {d \in {c} : ticket[d].leaseType = "transport"}
    /\ activeBarriers' = activeBarriers \cup {d \in {c} : IsBarrier(d)}
    /\ armed' = armed \cup {d \in {c} : ~ IsBarrier(d)}

RemoveActive(c) ==
    /\ activeSessions' = activeSessions \ {c}
    /\ activeOneshot' = IF activeOneshot = c THEN NoCall ELSE activeOneshot
    /\ activeTransports' = activeTransports \ {c}
    /\ armed' = armed \ {c}

(* The ticket of c is gone.                                                *)
Forget(c) ==
    /\ aged' = aged \ {c}
    /\ older' = [d \in Calls |-> IF d = c THEN {} ELSE older[d] \ {c}]

(* One turn of the loop in acquire and BeginBarrier, for call c whose      *)
(* ticket is in q, with a.mu held; signalled says whether c has signalled  *)
(* already in the same critical section.                                   *)
TryAcquire(c, q, requests, signalled) ==
    IF CanAcquire(c, q)
    THEN /\ queue' = Without(q, c)
         /\ AddActive(c)
         /\ stats' = [stats EXCEPT !.waitRequests = @ + requests, !.acquires = @ + 1]
         /\ Signal(c, "held")
         /\ Forget(c)
         /\ UNCHANGED <<firing, due, touches>>
    ELSE /\ queue' = q
         /\ stats' = [stats EXCEPT !.waitRequests = @ + requests]
         /\ IF signalled THEN Signal(c, "wait")
            ELSE pc' = [pc EXCEPT ![c] = "wait"] /\ UNCHANGED watch
         /\ UNCHANGED <<aged, older, activeVars, timerVars>>

-----------------------------------------------------------------------------
(* The calls.                                                              *)

InnerCalls(b) == {c \in Calls : outer[c] = b /\ pc[c] # "done"}

(* The barrier a call is made under: none, or one whose holder, the        *)
(* profile switch, now sends an eUICC APDU.                                *)
MayRunUnder(c, b) ==
    \/ b = NoCall
    \/ /\ b \in activeBarriers /\ InnerCalls(b) = {}
       /\ ticket[c].leaseType = "transport" /\ ticket[c].class \notin ticket[b].blocked

(* acquire and BeginBarrier before they take a.mu: the ticket gets its id  *)
(* and, from time.Now, its enqueued time.                                  *)
BuildTicket(c, b) ==
    /\ pc[c] = "idle" /\ MayRunUnder(c, b)
    /\ pc' = [pc EXCEPT ![c] = "built"]
    /\ outer' = [outer EXCEPT ![c] = b]
    /\ older' = [older EXCEPT ![c] = {d \in Ticketed : Ages(c) /\ Ages(d)}]
    /\ UNCHANGED <<queue, ticket, aged, activeVars, timerVars, watch, stats>>

(* ... and with a.mu, up to the first select or the return.                *)
Enqueue(c) ==
    /\ pc[c] = "built"
    /\ TryAcquire(c, Append(queue, c), 1, TRUE)
    /\ UNCHANGED <<ticket, outer>>

(* case <-waitC, and the next turn of the loop.                            *)
Retry(c) ==
    /\ pc[c] = "woken"
    /\ TryAcquire(c, queue, 0, FALSE)
    /\ UNCHANGED <<ticket, outer>>

(* case <-ctx.Done(), taken even when waitC is closed as well.             *)
ContextDone(c) ==
    /\ pc[c] \in {"wait", "woken"}
    /\ pc' = [pc EXCEPT ![c] = "leaving"]
    /\ UNCHANGED <<queue, ticket, outer, aged, older, activeVars, timerVars, watch, stats>>

(* ... and what it does once it has a.mu.                                  *)
Leave(c) ==
    /\ pc[c] = "leaving"
    /\ IF Contains(queue, c)
       THEN /\ queue' = Without(queue, c)
            /\ stats' = [stats EXCEPT !.waitTimeouts = @ + 1]
            /\ Signal(c, "done")
       ELSE /\ pc' = [pc EXCEPT ![c] = "done"]
            /\ UNCHANGED <<queue, stats, watch>>
    /\ Forget(c)
    /\ UNCHANGED <<ticket, outer, activeVars, timerVars>>

(* Lease.Touch while the lease is active; otherwise it changes nothing.    *)
Touch(c) ==
    /\ pc[c] = "held" /\ c \in ActiveLeases
    /\ touches[c] < MaxTouches
    /\ touches' = [touches EXCEPT ![c] = @ + 1]
    /\ due' = due \ {c}
    /\ armed' = armed \cup {c}
    /\ UNCHANGED <<queue, ticket, pc, outer, aged, older, activeVars, firing, watch, stats>>

(* Lease.Release, once.  A lease the watchdog already took is not found.   *)
Release(c) ==
    /\ pc[c] = "held" /\ ~ IsBarrier(c)
    /\ IF c \in ActiveLeases
       THEN RemoveActive(c) /\ Signal(c, "done")
       ELSE /\ pc' = [pc EXCEPT ![c] = "done"]
            /\ UNCHANGED <<activeSessions, activeOneshot, activeTransports, armed, watch>>
    /\ due' = due \ {c}
    /\ UNCHANGED <<queue, ticket, outer, aged, older, activeBarriers, firing, touches, stats>>

(* Mutant: nobody is told of the release.                                  *)
ReleaseBarrierMutant(b) ==
    /\ pc[b] = "held" /\ IsBarrier(b) /\ InnerCalls(b) = {}
    /\ activeBarriers' = activeBarriers \ {b}
    /\ pc' = [pc EXCEPT ![b] = "done"]
    /\ UNCHANGED <<queue, ticket, outer, aged, older, activeSessions, activeOneshot,
                   activeTransports, timerVars, watch, stats>>

(* Barrier.Release, once, after the calls made under the barrier.          *)
ReleaseBarrier(b) ==
    /\ pc[b] = "held" /\ IsBarrier(b) /\ InnerCalls(b) = {}
    /\ activeBarriers' = activeBarriers \ {b}
    /\ Signal(b, "done")
    /\ UNCHANGED <<queue, ticket, outer, aged, older, activeSessions, activeOneshot,
                   activeTransports, timerVars, stats>>

-----------------------------------------------------------------------------
(* Time and the watchdog.                                                  *)

(* transportPriorityAging has passed since the enqueued time of c.  Tickets*)
(* age in the order of these times, which need not be that of the queue,   *)
(* and may do so before they are queued.                                   *)
Age(c) ==
    /\ Ages(c) /\ c \in Ticketed \ aged /\ older[c] \subseteq aged
    /\ aged' = aged \cup {c}
    /\ UNCHANGED <<queue, ticket, pc, outer, older, activeVars, timerVars, watch, stats>>

(* MaxLeaseHold has passed since c was granted or last touched.            *)
Expire(c) ==
    /\ c \in ActiveLeases \ due
    /\ due' = due \cup {c}
    /\ UNCHANGED <<queue, ticket, pc, outer, aged, older, activeVars, armed, firing, touches, watch, stats>>

(* The timer goes off and starts a goroutine that still has to get a.mu.   *)
TimerFires(c) ==
    /\ c \in armed \cap due
    /\ armed' = armed \ {c}
    /\ firing' = [firing EXCEPT ![c] = @ + 1]
    /\ UNCHANGED <<queue, ticket, pc, outer, aged, older, activeVars, due, touches, watch, stats>>

(* Mutant: releaseExpired trusts the timer that started it.                *)
OverdueMutant(c) == c \in Calls

(* time.Until(active.expiresAt) is not positive any more.                  *)
Overdue(c) == c \in due

(* releaseExpired: the lease may be gone, or have been touched meanwhile.  *)
ReleaseExpired(c) ==
    /\ firing[c] > 0
    /\ firing' = [firing EXCEPT ![c] = @ - 1]
    /\ IF c \in ActiveLeases /\ Overdue(c)
       THEN /\ RemoveActive(c)
            /\ stats' = [stats EXCEPT !.forcedReleases = @ + 1]
            /\ Signal(c, pc[c])
       ELSE /\ armed' = armed \cup ({c} \cap ActiveLeases)
            /\ UNCHANGED <<activeSessions, activeOneshot, activeTransports, pc, watch, stats>>
    /\ UNCHANGED <<queue, ticket, outer, aged, older, activeBarriers, due, touches>>

-----------------------------------------------------------------------------
(* WaitIdle: one look at the arbiter, and a sleep when it is not idle.     *)
LookIdle(w) ==
    /\ watch[w] \in {"idle", "woken"}
    /\ watch' = [watch EXCEPT ![w] = IF IsIdle THEN "done" ELSE "wait"]
    /\ UNCHANGED <<queue, ticket, pc, outer, aged, older, activeVars, timerVars, stats>>

IdleContextDone(w) ==
    /\ watch[w] \in {"wait", "woken"}
    /\ watch' = [watch EXCEPT ![w] = "gaveUp"]
    /\ UNCHANGED <<queue, ticket, pc, outer, aged, older, activeVars, timerVars, stats>>

Next ==
    \/ \E c \in Calls :
        \/ \E b \in Calls \cup {NoCall} : BuildTicket(c, b)
        \/ Enqueue(c) \/ Retry(c) \/ ContextDone(c) \/ Leave(c)
        \/ Touch(c) \/ Release(c) \/ ReleaseBarrier(c)
        \/ Age(c) \/ Expire(c) \/ TimerFires(c) \/ ReleaseExpired(c)
    \/ \E w \in Watchers : LookIdle(w) \/ IdleContextDone(w)

Spec == Init /\ [][Next]_vars

(* The runtime schedules a goroutine that can run, time passes, a barrier  *)
(* is released (by a defer in esim/manager.go) and so is a lease taken     *)
(* under it.  No other holder has to release or touch its lease, no        *)
(* context has to end and no call has to be made.                          *)
Fairness ==
    /\ \A c \in Calls :
        /\ WF_vars(Enqueue(c)) /\ WF_vars(Retry(c)) /\ WF_vars(Leave(c))
        /\ WF_vars(ReleaseBarrier(c)) /\ WF_vars(outer[c] # NoCall /\ Release(c))
        /\ WF_vars(Age(c)) /\ WF_vars(Expire(c))
        /\ WF_vars(TimerFires(c)) /\ WF_vars(ReleaseExpired(c))
    /\ \A w \in Watchers : WF_vars(LookIdle(w))

FairSpec == Spec /\ Fairness

-----------------------------------------------------------------------------
(* Properties.                                                             *)

StatsType == [waitRequests : Nat, acquires : Nat, waitTimeouts : Nat, forcedReleases : Nat]

(* Type invariant of the arbiter's fields and of the calls' local state.   *)
TypeOK ==
    /\ queue \in Seq(Calls)
    /\ ticket \in [Calls -> TicketType]
    /\ pc \in [Calls -> CallStates]
    /\ outer \in [Calls -> Calls \cup {NoCall}]
    /\ aged \subseteq Calls /\ older \in [Calls -> SUBSET Calls]
    /\ activeSessions \subseteq Calls /\ activeTransports \subseteq Calls
    /\ activeOneshot \in Calls \cup {NoCall} /\ activeBarriers \subseteq Calls
    /\ armed \subseteq Calls /\ due \subseteq Calls
    /\ firing \in [Calls -> Nat] /\ touches \in [Calls -> 0..MaxTouches]
    /\ watch \in [Watchers -> {"idle", "wait", "woken", "done", "gaveUp"}]
    /\ stats \in StatsType

(* Mutual exclusion: sessions, the one-shot and transports never coexist,  *)
(* their numbers keep to the options, an exclusive transport is alone and  *)
(* two QMI transports use different channels (canAcquireLeaseLocked).      *)
Exclusion ==
    /\ activeOneshot # NoCall => activeSessions \cup activeTransports = {}
    /\ activeSessions = {} \/ activeTransports = {}
    /\ Cardinality(activeSessions) <= MaxSessions
    /\ Cardinality(ActiveQMI) <= MaxQMITransports
    /\ \A s, t \in activeTransports : s # t =>
        OnQMIChannel(s) /\ OnQMIChannel(t) /\ ticket[s].channel # ticket[t].channel

(* While a barrier is held, no lease of a class it blocks is active: not   *)
(* one granted before it, nor one granted since (BeginBarrier).            *)
BarrierExcludes ==
    \A b \in activeBarriers, c \in ActiveLeases : ticket[c].class \notin ticket[b].blocked

(* The queue holds the tickets of exactly the calls still waiting, each    *)
(* once, so no caller that returned leaves a ticket behind to stop the     *)
(* others; and what is active belongs to a call that was served.           *)
QueueHoldsWaiters ==
    /\ \A i, j \in DOMAIN queue : queue[i] = queue[j] => i = j
    /\ ToSet(queue) = {c \in Calls : pc[c] \in {"wait", "woken", "leaving"}}
    /\ ActiveLeases \cup activeBarriers \subseteq {c \in Calls : pc[c] = "held"}

(* An active lease always has a watchdog: a running timer, or a goroutine  *)
(* of one that went off and has still to look (touch, releaseExpired).     *)
WatchdogAlive == \A c \in ActiveLeases : c \in armed \/ firing[c] > 0

(* A caller that has not released its lease loses it only once MaxLeaseHold*)
(* has passed since its last Touch, whatever a timer that went off before  *)
(* the Touch, or another caller's late Release, does.                      *)
HeldUnlessDue ==
    \A c \in Calls : pc[c] = "held" /\ ~ IsBarrier(c) /\ c \notin due => c \in ActiveLeases

(* Two callers that both believe they hold the SIM transport exclusively   *)
(* can only be so because one of them outstayed MaxLeaseHold.              *)
OverlapOnlyAfterTimeout ==
    \A c, d \in Calls :
        /\ c # d /\ pc[c] = "held" /\ pc[d] = "held"
        /\ ticket[c].leaseType = "transport" /\ ticket[d].leaseType = "transport"
        /\ ~ OnQMIChannel(c)
        => c \in due \/ d \in due

Granted(c) == pc[c] # "held" /\ pc'[c] = "held"

(* No lease and no later barrier is granted past a queued barrier, of      *)
(* whatever class: the switch waits only for what was queued before it.    *)
BarrierNotOvertaken ==
    [][\A c \in Calls : Granted(c) =>
        \A i \in DOMAIN queue : IsBarrier(queue[i]) =>
            queue[i] = c \/ \E j \in 1..(i - 1) : queue[j] = c]_vars

(* While QMI channels are in use, a QMI request that came later does not   *)
(* get in before a waiting exclusive one that no barrier blocks.           *)
ExclusiveNotOvertaken ==
    [][\A c \in Calls : Granted(c) /\ OnQMIChannel(c) /\ activeTransports # {} =>
        \A i \in DOMAIN queue :
            /\ ticket[queue[i]].leaseType = "transport" /\ ~ OnQMIChannel(queue[i])
            /\ ~ IsBlockedByActiveBarrier(ticket[queue[i]].class)
            => \E j \in 1..(i - 1) : queue[j] = c]_vars

(* Two waiting transports between which aging moves the turn: one for      *)
(* authentication beside one whose age counts, or two whose age counts and *)
(* which were queued in the other order than their tickets were built.     *)
Rivals(c, d) ==
    \/ Ages(c) /\ IsAKATransport(d)
    \/ IsAKATransport(c) /\ Ages(d)
    \/ \E i, j \in DOMAIN queue : {queue[i], queue[j]} = {c, d} /\ i < j /\ queue[j] \in older[queue[i]]

(* Nobody sleeps through its turn but by ageing: a caller asleep in its    *)
(* select could not acquire, unless it is a transport that has aged beside *)
(* a rival, and a WaitIdle caller asleep is not looking at an idle arbiter *)
(* (every change but the clock's calls signalLocked).                      *)
NoMissedWakeup ==
    /\ \A c \in Calls : pc[c] = "wait" /\ CanAcquire(c, queue) =>
        c \in aged /\ \E d \in ToSet(queue) : Rivals(c, d)
    /\ \A w \in Watchers : watch[w] = "wait" => ~ IsIdle

(* Every queued call is served or gives up, even when holders hang, unless *)
(* rivals stay in the queue for ever.                                      *)
QueueDrains ==
    []<>(\A c, d \in ToSet(queue) : ~ Rivals(c, d)) =>
        \A c \in Calls : (c \in Ticketed) ~> (pc[c] \in {"held", "done"})

(* What TestTransportPriorityAgingPreventsEUICCStarvation names: a         *)
(* transport call that has aged is served (or gives up).                   *)
AgingPreventsStarvation == \A c \in Calls : (c \in aged) ~> (c \notin aged)

(* What the arbiter promises, seen through its state: a call holds what it *)
(* was given until it gives it back, whoever took it away meanwhile.       *)
Lock == INSTANCE LeaseLock WITH
    Tickets <- {Normalize(r) : r \in Requests},
    holds <- {c \in Calls : pc[c] = "held"},
    granted <- ActiveLeases \cup activeBarriers,
    late <- due

(* The queue, the priorities, the watchdog and the wake-ups of the arbiter *)
(* grant, prolong and take away leases only as the promise allows.         *)
ImplementsLock == Lock!Spec

=============================================================================
