------------------------- MODULE ApduArbiter_proofs -------------------------
(* Theorems about ApduArbiter.                                             *)
EXTENDS ApduArbiter, FiniteSetTheorems, SequenceTheorems, TLAPS

(* Removing one position of a sequence leaves a sequence one shorter, with *)
(* the elements behind that position moved up.                             *)
LEMMA RemoveAtIsShift ==
    ASSUME NEW S, NEW s \in Seq(S), NEW i \in 1..Len(s)
    PROVE  /\ RemoveAt(s, i) \in Seq(S)
           /\ Len(RemoveAt(s, i)) = Len(s) - 1
           /\ \A k \in 1..(Len(s) - 1) : RemoveAt(s, i)[k] = IF k < i THEN s[k] ELSE s[k + 1]
<1> DEFINE a == SubSeq(s, 1, i - 1)
           b == SubSeq(s, i + 1, Len(s))
<1>1. Len(s) \in Nat /\ i \in Nat /\ i >= 1 /\ i <= Len(s)
  BY LenProperties
<1>2. a \in Seq(S) /\ Len(a) = i - 1 /\ \A k \in 1..(i - 1) : a[k] = s[k]
  BY <1>1, SMTT(20)
<1>3. b \in Seq(S) /\ Len(b) = Len(s) - i /\ \A k \in 1..(Len(s) - i) : b[k] = s[i + k]
  BY <1>1, SMTT(20)
<1> HIDE DEF a, b
<1>4. /\ a \o b \in Seq(S) /\ Len(a \o b) = Len(a) + Len(b)
      /\ \A k \in 1..(Len(a) + Len(b)) : (a \o b)[k] = IF k <= Len(a) THEN a[k] ELSE b[k - Len(a)]
  BY <1>2, <1>3, ConcatProperties
<1>5. Len(a \o b) = Len(s) - 1
  BY <1>1, <1>2, <1>3, <1>4
<1>6. ASSUME NEW k \in 1..(Len(s) - 1)
      PROVE  (a \o b)[k] = IF k < i THEN s[k] ELSE s[k + 1]
  <2>1. (a \o b)[k] = IF k <= i - 1 THEN a[k] ELSE b[k - (i - 1)]
    BY <1>1, <1>2, <1>3, <1>4
  <2>2. CASE k < i
    BY <1>1, <1>2, <2>1, <2>2
  <2>3. CASE k >= i
    <3>1. k - (i - 1) \in 1..(Len(s) - i) /\ ~ (k <= i - 1) /\ ~ (k < i)
      BY <1>1, <2>3
    <3>2. b[k - (i - 1)] = s[i + (k - (i - 1))] /\ i + (k - (i - 1)) = k + 1
      BY <1>1, <1>3, <3>1
    <3> QED
      BY <2>1, <3>1, <3>2
  <2>4. k < i \/ k >= i
    BY <1>1
  <2> QED
    BY <2>2, <2>3, <2>4
<1>7. RemoveAt(s, i) = a \o b
  BY DEF RemoveAt, a, b
<1> QED
  BY <1>4, <1>5, <1>6, <1>7
-----------------------------------------------------------------------------
(* Type correctness.                                                       *)

(* A normalized request is a ticket.                                       *)
LEMMA NormalizeType == ASSUME NEW r \in Requests PROVE Normalize(r) \in TicketType
<1>1. r \in RawRequests
  BY RequestsAssumption
<1>2. NormalizeClass(r.class, r.leaseType) \in APDUClasses
  BY <1>1 DEF RawRequests, NormalizeClass, APDUClasses
<1>3. NormalizeScope(r) \in Scopes
  BY DEF NormalizeScope, Scopes
<1>4. NormalizeBlocked(r) \in SUBSET APDUClasses
  BY <1>1 DEF RawRequests, NormalizeBlocked, APDUClasses
<1> QED
  BY <1>1, <1>2, <1>3, <1>4 DEF RawRequests, Normalize, TicketType

(* Removing a queued ticket shortens the queue by one.                     *)
LEMMA WithoutType ==
    ASSUME NEW q \in Seq(Calls), NEW c \in Calls, Contains(q, c)
    PROVE  Without(q, c) \in Seq(Calls) /\ Len(Without(q, c)) = Len(q) - 1
<1> DEFINE i == CHOOSE k \in DOMAIN q : q[k] = c
<1>1. i \in 1..Len(q)
  BY LenProperties DEF Contains
<1> QED
  BY <1>1, RemoveAtIsShift DEF Without

(* Only a caller whose ticket is in the queue is served.                   *)
LEMMA ServedIsQueued ==
    ASSUME NEW q \in Seq(Calls), NEW c \in Calls, CanAcquire(c, q)
    PROVE  Contains(q, c)
<1>1. CASE IsBarrier(c)
  BY <1>1, LenProperties DEF CanAcquire, CanAcquireBarrier, Contains
<1>2. CASE ~ IsBarrier(c)
  <2>1. QueueHeadIs(c, q) \/ SelectedTransportIs(c, q)
    BY <1>2 DEF CanAcquire, CanAcquireLease
  <2>2. CASE QueueHeadIs(c, q)
    BY <2>2, LenProperties, EmptySeq DEF QueueHeadIs, Contains
  <2>3. CASE SelectedTransportIs(c, q)
    BY <2>3, LenProperties DEF SelectedTransportIs, Preferred, EligibleAgedNonAKA, EligibleAKA,
       Eligible, Contains
  <2> QED
    BY <2>1, <2>2, <2>3
<1> QED
  BY <1>1, <1>2

(* The counters stay natural numbers.                                      *)
LEMMA StatsStep ==
    ASSUME NEW s \in StatsType, NEW n \in Nat
    PROVE  /\ [s EXCEPT !.waitRequests = @ + n] \in StatsType
           /\ [s EXCEPT !.waitRequests = @ + n, !.acquires = @ + 1] \in StatsType
           /\ [s EXCEPT !.waitTimeouts = @ + 1] \in StatsType
           /\ [s EXCEPT !.forcedReleases = @ + 1] \in StatsType
<1>1. /\ s = [waitRequests |-> s.waitRequests, acquires |-> s.acquires,
              waitTimeouts |-> s.waitTimeouts, forcedReleases |-> s.forcedReleases]
      /\ s.waitRequests \in Nat /\ s.acquires \in Nat
      /\ s.waitTimeouts \in Nat /\ s.forcedReleases \in Nat
  BY DEF StatsType
<1>2. /\ s.waitRequests + n \in Nat /\ s.acquires + 1 \in Nat
      /\ s.waitTimeouts + 1 \in Nat /\ s.forcedReleases + 1 \in Nat
  BY <1>1
<1>3. [s EXCEPT !.waitRequests = @ + n] \in StatsType
  BY <1>1, <1>2 DEF StatsType
<1>4. [s EXCEPT !.waitRequests = @ + n, !.acquires = @ + 1] \in StatsType
  BY <1>1, <1>2 DEF StatsType
<1>5. [s EXCEPT !.waitTimeouts = @ + 1] \in StatsType
  BY <1>1, <1>2 DEF StatsType
<1>6. [s EXCEPT !.forcedReleases = @ + 1] \in StatsType
  BY <1>1, <1>2 DEF StatsType
<1> QED
  BY <1>3, <1>4, <1>5, <1>6

(* The parts of the state that hold the lease of each call.                *)
LEMMA SignalType ==
    ASSUME TypeOK, NEW c \in Calls, NEW s \in CallStates, Signal(c, s)
    PROVE  /\ pc' \in [Calls -> CallStates]
           /\ watch' \in [Watchers -> {"idle", "wait", "woken", "done", "gaveUp"}]
BY DEF TypeOK, Signal, CallStates

(* Forgetting a ticket keeps the types.                                    *)
LEMMA ForgetType ==
    ASSUME TypeOK, NEW c \in Calls, Forget(c)
    PROVE  aged' \subseteq Calls /\ older' \in [Calls -> SUBSET Calls]
BY DEF TypeOK, Forget

(* A turn of the loop keeps the types, for a caller whose ticket is in q.  *)
LEMMA TryAcquireType ==
    ASSUME TypeOK, NEW c \in Calls, NEW q \in Seq(Calls), NEW n \in Nat,
           NEW signalled \in BOOLEAN, TryAcquire(c, q, n, signalled),
           UNCHANGED <<ticket, outer>>
    PROVE  TypeOK'
<1>1. CASE CanAcquire(c, q)
  <2>1. queue' = Without(q, c) /\ queue' \in Seq(Calls)
    BY <1>1, ServedIsQueued, WithoutType DEF TryAcquire
  <2>2. AddActive(c) /\ Signal(c, "held") /\ UNCHANGED <<firing, due, touches>> /\ Forget(c)
    BY <1>1 DEF TryAcquire
  <2>3. stats' \in StatsType
    <3>1. stats' = [stats EXCEPT !.waitRequests = @ + n, !.acquires = @ + 1]
      BY <1>1 DEF TryAcquire
    <3> QED
      BY <3>1, StatsStep DEF TypeOK
  <2>4. /\ activeSessions' \subseteq Calls /\ activeTransports' \subseteq Calls
        /\ activeOneshot' \in Calls \cup {NoCall} /\ activeBarriers' \subseteq Calls
        /\ armed' \subseteq Calls
    BY <2>2 DEF AddActive, TypeOK
  <2>5. /\ pc' \in [Calls -> CallStates]
        /\ watch' \in [Watchers -> {"idle", "wait", "woken", "done", "gaveUp"}]
    BY <2>2, SignalType DEF CallStates
  <2> QED
    BY <2>1, <2>2, <2>3, <2>4, <2>5, ForgetType DEF TypeOK
<1>2. CASE ~ CanAcquire(c, q)
  <2>1. /\ queue' = q /\ UNCHANGED <<aged, older, activeVars, timerVars>>
        /\ IF signalled THEN Signal(c, "wait") ELSE pc' = [pc EXCEPT ![c] = "wait"] /\ UNCHANGED watch
    BY <1>2 DEF TryAcquire
  <2>2. stats' \in StatsType
    <3>1. stats' = [stats EXCEPT !.waitRequests = @ + n]
      BY <1>2 DEF TryAcquire
    <3> QED
      BY <3>1, StatsStep DEF TypeOK
  <2>3. /\ pc' \in [Calls -> CallStates]
        /\ watch' \in [Watchers -> {"idle", "wait", "woken", "done", "gaveUp"}]
    <3>1. CASE signalled
      BY <2>1, <3>1, SignalType DEF CallStates
    <3>2. CASE ~ signalled
      BY <2>1, <3>2 DEF TypeOK, CallStates
    <3> QED
      BY <3>1, <3>2
  <2> QED
    BY <2>1, <2>2, <2>3 DEF TypeOK, activeVars, timerVars
<1> QED
  BY <1>1, <1>2

(* A new arbiter has no lease, no barrier and an empty queue.              *)
LEMMA InitType == Init => TypeOK
<1> SUFFICES ASSUME Init PROVE TypeOK
  OBVIOUS
<1>1. ticket \in [Calls -> TicketType]
  BY NormalizeType DEF Init
<1>2. queue \in Seq(Calls)
  BY EmptySeq DEF Init
<1> QED
  BY <1>1, <1>2, LimitsAssumption DEF Init, TypeOK, CallStates, StatsType

(* Every operation keeps the types.                                        *)
LEMMA NextType == TypeOK /\ [Next]_vars => TypeOK'
<1> SUFFICES ASSUME TypeOK, [Next]_vars PROVE TypeOK'
  OBVIOUS
<1>0. ASSUME NEW c \in Calls, NEW b \in Calls \cup {NoCall}, BuildTicket(c, b) PROVE TypeOK'
  BY <1>0 DEF BuildTicket, TypeOK, CallStates, Ticketed, activeVars, timerVars
<1>1. ASSUME NEW c \in Calls, Enqueue(c) PROVE TypeOK'
  <2>1. Append(queue, c) \in Seq(Calls)
    BY AppendProperties DEF TypeOK
  <2>2. TryAcquire(c, Append(queue, c), 1, TRUE) /\ UNCHANGED <<ticket, outer>>
    BY <1>1 DEF Enqueue
  <2> QED
    BY <2>1, <2>2, TryAcquireType
<1>2. ASSUME NEW c \in Calls, Retry(c) PROVE TypeOK'
  BY <1>2, TryAcquireType DEF Retry, TypeOK
<1>3. ASSUME NEW c \in Calls, ContextDone(c) PROVE TypeOK'
  BY <1>3 DEF ContextDone, TypeOK, CallStates, activeVars, timerVars
<1>4. ASSUME NEW c \in Calls, Leave(c) PROVE TypeOK'
  <2>1. Forget(c) /\ UNCHANGED <<ticket, outer, activeVars, timerVars>>
    BY <1>4 DEF Leave
  <2>2. CASE Contains(queue, c)
    <3>1. queue' \in Seq(Calls)
      BY <1>4, <2>2, WithoutType DEF Leave, TypeOK
    <3>2. Signal(c, "done") /\ stats' = [stats EXCEPT !.waitTimeouts = @ + 1]
      BY <1>4, <2>2 DEF Leave
    <3>3. stats' \in StatsType
      BY <3>2, StatsStep DEF TypeOK
    <3> QED
      BY <2>1, <3>1, <3>2, <3>3, ForgetType, SignalType DEF TypeOK, CallStates, activeVars, timerVars
  <2>3. CASE ~ Contains(queue, c)
    BY <1>4, <2>1, <2>3, ForgetType DEF Leave, TypeOK, CallStates, activeVars, timerVars
  <2> QED
    BY <2>2, <2>3
<1>5. ASSUME NEW c \in Calls, Touch(c) PROVE TypeOK'
  <2>1. touches[c] + 1 \in 0..MaxTouches
    BY <1>5, LimitsAssumption DEF Touch, TypeOK
  <2> QED
    BY <1>5, <2>1 DEF Touch, TypeOK, activeVars
<1>6. ASSUME NEW c \in Calls, Release(c) PROVE TypeOK'
  <2>1. /\ pc' \in [Calls -> CallStates]
        /\ watch' \in [Watchers -> {"idle", "wait", "woken", "done", "gaveUp"}]
    BY <1>6, SignalType DEF Release, TypeOK, CallStates
  <2>2. /\ activeSessions' \subseteq Calls /\ activeTransports' \subseteq Calls
        /\ activeOneshot' \in Calls \cup {NoCall} /\ armed' \subseteq Calls
    BY <1>6 DEF Release, RemoveActive, TypeOK
  <2> QED
    BY <1>6, <2>1, <2>2 DEF Release, TypeOK
<1>7. ASSUME NEW c \in Calls, ReleaseBarrier(c) PROVE TypeOK'
  BY <1>7, SignalType DEF ReleaseBarrier, TypeOK, CallStates, timerVars
<1>8. ASSUME NEW c \in Calls, Age(c) PROVE TypeOK'
  BY <1>8 DEF Age, TypeOK, activeVars, timerVars
<1>9. ASSUME NEW c \in Calls, Expire(c) PROVE TypeOK'
  BY <1>9 DEF Expire, TypeOK, activeVars
<1>10. ASSUME NEW c \in Calls, TimerFires(c) PROVE TypeOK'
  BY <1>10 DEF TimerFires, TypeOK, activeVars
<1>11. ASSUME NEW c \in Calls, ReleaseExpired(c) PROVE TypeOK'
  <2>1. firing' \in [Calls -> Nat]
    BY <1>11 DEF ReleaseExpired, TypeOK
  <2>2. pc[c] \in CallStates
    BY DEF TypeOK
  <2>3. CASE c \in ActiveLeases /\ Overdue(c)
    <3>1. /\ RemoveActive(c) /\ Signal(c, pc[c])
          /\ stats' = [stats EXCEPT !.forcedReleases = @ + 1]
      BY <1>11, <2>3 DEF ReleaseExpired
    <3>2. stats' \in StatsType
      BY <3>1, StatsStep DEF TypeOK
    <3> QED
      BY <1>11, <2>1, <2>2, <3>1, <3>2, SignalType DEF ReleaseExpired, RemoveActive, TypeOK
  <2>4. CASE ~ (c \in ActiveLeases /\ Overdue(c))
    BY <1>11, <2>1, <2>4 DEF ReleaseExpired, TypeOK
  <2> QED
    BY <2>3, <2>4
<1>12. ASSUME NEW w \in Watchers, LookIdle(w) \/ IdleContextDone(w) PROVE TypeOK'
  BY <1>12 DEF LookIdle, IdleContextDone, TypeOK, activeVars, timerVars
<1>13. CASE UNCHANGED vars
  BY <1>13 DEF vars, TypeOK
<1> QED
  BY <1>0, <1>1, <1>2, <1>3, <1>4, <1>5, <1>6, <1>7, <1>8, <1>9, <1>10, <1>11, <1>12, <1>13 DEF Next

(* In every run the arbiter's fields keep their types.                     *)
THEOREM TypeCorrect == Spec => []TypeOK
BY InitType, NextType, PTL DEF Spec

-----------------------------------------------------------------------------
(* Mutual exclusion and barriers.                                          *)

(* Each lease is kept where its type says, and the leases of a kind are    *)
(* finitely many: what Exclusion and BarrierExcludes leave unsaid.         *)
ActiveTyped ==
    /\ IsFiniteSet(activeSessions) /\ IsFiniteSet(ActiveQMI)
    /\ \A c \in activeSessions : ticket[c].leaseType = "session"
    /\ activeOneshot # NoCall => ticket[activeOneshot].leaseType = "oneshot"
    /\ \A c \in activeTransports : ticket[c].leaseType = "transport"
    /\ \A b \in activeBarriers : IsBarrier(b)

LeaseInv == ActiveTyped /\ Exclusion /\ BarrierExcludes

(* A transport is only served when it can be acquired now.                 *)
LEMMA SelectedCanAcquire ==
    ASSUME NEW c \in Calls, NEW q, SelectedTransportIs(c, q)
    PROVE  CanAcquireTransportNow(c)
BY DEF SelectedTransportIs, Preferred, EligibleAgedNonAKA, EligibleAKA, Eligible

(* Adding a call to a bounded set of leases with room for it.              *)
LEMMA AddWithinLimit ==
    ASSUME NEW S, IsFiniteSet(S), NEW c, NEW n \in Nat, Cardinality(S) < n
    PROVE  IsFiniteSet(S \cup {c}) /\ Cardinality(S \cup {c}) <= n
<1>1. Cardinality(S) \in Nat
  BY FS_CardinalityType
<1>2. /\ IsFiniteSet(S \cup {c})
      /\ Cardinality(S \cup {c}) = Cardinality(S) \/ Cardinality(S \cup {c}) = Cardinality(S) + 1
  BY FS_AddElement
<1> QED
  BY <1>1, <1>2

(* Serving a call keeps the leases apart.                                  *)
LEMMA ServeKeepsLeases ==
    ASSUME TypeOK, LeaseInv, NEW c \in Calls, NEW q \in Seq(Calls), CanAcquire(c, q),
           AddActive(c), ticket' = ticket
    PROVE  LeaseInv'
<1> USE CallsAssumption, LimitsAssumption
<1>1. CASE IsBarrier(c)
  <2>1. /\ UNCHANGED <<activeSessions, activeOneshot, activeTransports>>
        /\ activeBarriers' = activeBarriers \cup {c}
    BY <1>1 DEF AddActive, IsBarrier
  <2>2. activeSessions = {} /\ activeOneshot = NoCall /\ activeTransports = {}
    BY <1>1 DEF CanAcquire, CanAcquireBarrier, ActiveLeases, ActiveOneshots, TypeOK
  <2>3. ActiveTyped'
    BY <1>1, <2>1 DEF LeaseInv, ActiveTyped, ActiveQMI, OnQMIChannel, IsBarrier
  <2>4. Exclusion'
    BY <2>1 DEF LeaseInv, Exclusion, ActiveQMI, OnQMIChannel
  <2>5. BarrierExcludes'
    BY <2>1, <2>2 DEF BarrierExcludes, ActiveLeases, ActiveOneshots
  <2> QED
    BY <2>3, <2>4, <2>5 DEF LeaseInv
<1>2. CASE ~ IsBarrier(c)
  <2>0. CanAcquireLease(c, q) /\ activeBarriers' = activeBarriers
    BY <1>2 DEF CanAcquire, AddActive
  <2>1. ASSUME ActiveLeases' = ActiveLeases \cup {c} PROVE BarrierExcludes'
    BY <2>0, <2>1 DEF LeaseInv, BarrierExcludes, CanAcquireLease, IsBlockedByActiveBarrier
  <2>2. CASE ticket[c].leaseType = "session"
    <3>1. /\ activeSessions' = activeSessions \cup {c}
          /\ UNCHANGED <<activeOneshot, activeTransports>>
      BY <2>2 DEF AddActive
    <3>2. RoomForSession
      BY <2>0, <2>2 DEF CanAcquireLease
    <3>3. IsFiniteSet(activeSessions') /\ Cardinality(activeSessions') <= MaxSessions
      BY <3>1, <3>2, AddWithinLimit DEF RoomForSession, LeaseInv, ActiveTyped
    <3>4. ActiveTyped'
      BY <2>0, <2>2, <3>1, <3>3 DEF LeaseInv, ActiveTyped, ActiveQMI, OnQMIChannel, IsBarrier
    <3>5. Exclusion'
      BY <3>1, <3>2, <3>3 DEF RoomForSession, LeaseInv, Exclusion, ActiveQMI, OnQMIChannel
    <3> QED
      BY <2>1, <3>1, <3>4, <3>5 DEF LeaseInv, ActiveLeases, ActiveOneshots
  <2>3. CASE ticket[c].leaseType = "oneshot"
    <3>1. activeOneshot' = c /\ UNCHANGED <<activeSessions, activeTransports>>
      BY <2>3 DEF AddActive
    <3>2. activeSessions = {} /\ activeOneshot = NoCall /\ activeTransports = {}
      BY <2>0, <2>3 DEF CanAcquireLease, ActiveLeases, ActiveOneshots, TypeOK
    <3>3. ActiveTyped'
      BY <2>0, <2>3, <3>1 DEF LeaseInv, ActiveTyped, ActiveQMI, OnQMIChannel, IsBarrier
    <3>4. Exclusion'
      BY <3>1, <3>2 DEF LeaseInv, Exclusion, ActiveQMI, OnQMIChannel
    <3> QED
      BY <2>1, <3>1, <3>2, <3>3, <3>4 DEF LeaseInv, ActiveLeases, ActiveOneshots
  <2>4. CASE ticket[c].leaseType = "transport"
    <3>1. /\ activeTransports' = activeTransports \cup {c}
          /\ UNCHANGED <<activeSessions, activeOneshot>>
      BY <2>4 DEF AddActive
    <3>2. activeSessions = {} /\ activeOneshot = NoCall /\ CanAcquireTransportNow(c)
      BY <2>0, <2>4, SelectedCanAcquire DEF CanAcquireLease
    <3>3. IsFiniteSet(ActiveQMI') /\ Cardinality(ActiveQMI') <= MaxQMITransports
      <4>1. CASE OnQMIChannel(c)
        <5>1. ActiveQMI' = ActiveQMI \cup {c}
          BY <3>1, <4>1 DEF ActiveQMI, OnQMIChannel
        <5>2. IsFiniteSet(ActiveQMI) /\ ~ (Cardinality(ActiveQMI) >= MaxQMITransports)
          BY <3>2, <4>1 DEF CanAcquireTransportNow, QMIWindowFull, LeaseInv, ActiveTyped
        <5>3. Cardinality(ActiveQMI) < MaxQMITransports
          BY <5>2, FS_CardinalityType
        <5> QED
          BY <5>1, <5>2, <5>3, AddWithinLimit
      <4>2. CASE ~ OnQMIChannel(c)
        BY <3>1, <4>2 DEF ActiveQMI, OnQMIChannel, LeaseInv, ActiveTyped, Exclusion
      <4> QED
        BY <4>1, <4>2
    <3>4. ActiveTyped'
      BY <2>0, <2>4, <3>1, <3>3 DEF LeaseInv, ActiveTyped, OnQMIChannel, IsBarrier
    <3>5. \A s, t \in activeTransports' : s # t =>
              /\ OnQMIChannel(s)' /\ OnQMIChannel(t)'
              /\ ticket'[s].channel # ticket'[t].channel
      BY <3>1, <3>2 DEF CanAcquireTransportNow, LeaseInv, Exclusion, ActiveExclusive, ActiveQMI, OnQMIChannel
    <3>6. Exclusion'
      BY <3>1, <3>2, <3>3, <3>5 DEF LeaseInv, Exclusion
    <3> QED
      BY <2>1, <3>1, <3>4, <3>6 DEF LeaseInv, ActiveLeases, ActiveOneshots
  <2> QED
    BY <2>0, <2>2, <2>3, <2>4 DEF CanAcquireLease
<1> QED
  BY <1>1, <1>2

(* Taking leases or barriers away keeps them apart.                        *)
LEMMA RemoveKeepsLeases ==
    ASSUME LeaseInv, ticket' = ticket,
           activeSessions' \subseteq activeSessions, activeOneshot' \in {activeOneshot, NoCall},
           activeTransports' \subseteq activeTransports, activeBarriers' \subseteq activeBarriers
    PROVE  LeaseInv'
<1>1. ActiveQMI' \subseteq ActiveQMI
  BY DEF ActiveQMI, OnQMIChannel
<1>2. /\ IsFiniteSet(activeSessions') /\ Cardinality(activeSessions') <= MaxSessions
      /\ IsFiniteSet(ActiveQMI') /\ Cardinality(ActiveQMI') <= MaxQMITransports
  BY <1>1, FS_Subset, FS_CardinalityType, LimitsAssumption DEF LeaseInv, ActiveTyped, Exclusion
<1>3. ActiveTyped'
  BY <1>2 DEF LeaseInv, ActiveTyped, IsBarrier
<1>4. Exclusion'
  BY <1>2 DEF LeaseInv, Exclusion, OnQMIChannel
<1>5. BarrierExcludes'
  BY DEF LeaseInv, BarrierExcludes, ActiveLeases, ActiveOneshots
<1> QED
  BY <1>3, <1>4, <1>5 DEF LeaseInv

-----------------------------------------------------------------------------
(* The watchdog and the counters.                                          *)

WatchInv == WatchdogAlive /\ HeldUnlessDue

(* Serving a call starts its watchdog; nobody else loses a lease.          *)
LEMMA ServeKeepsWatch ==
    ASSUME TypeOK, WatchInv, NEW c \in Calls, NEW q \in Seq(Calls), CanAcquire(c, q),
           AddActive(c), Signal(c, "held"), UNCHANGED <<ticket, firing, due>>
    PROVE  WatchInv'
<1>1. activeOneshot' \in {activeOneshot, c} /\ (activeOneshot' = c => activeOneshot \in {NoCall, c})
  BY DEF AddActive, CanAcquire, CanAcquireLease, IsBarrier, ActiveLeases, ActiveOneshots
<1>2. /\ ActiveLeases \subseteq ActiveLeases' /\ ActiveLeases' \subseteq ActiveLeases \cup {c}
      /\ ~ IsBarrier(c) => c \in ActiveLeases' /\ c \in armed'
      /\ IsBarrier(c) => ActiveLeases' = ActiveLeases
      /\ armed \subseteq armed'
  <2>1. CASE IsBarrier(c)
    BY <2>1 DEF AddActive, ActiveLeases, ActiveOneshots, IsBarrier
  <2>2. CASE ~ IsBarrier(c)
    <3>1. ticket[c].leaseType \in {"session", "oneshot", "transport"}
      BY <2>2 DEF CanAcquire, CanAcquireLease
    <3> QED
      BY <1>1, <2>2, <3>1, CallsAssumption DEF AddActive, ActiveLeases, ActiveOneshots
  <2> QED
    BY <2>1, <2>2
<1>3. WatchdogAlive'
  BY <1>2 DEF WatchInv, WatchdogAlive
<1>4. \A d \in Calls : pc'[d] = "held" => d = c \/ pc[d] = "held"
  BY DEF Signal
<1>5. HeldUnlessDue'
  BY <1>2, <1>4 DEF WatchInv, HeldUnlessDue, IsBarrier
<1> QED
  BY <1>3, <1>5 DEF WatchInv

(* A lease that is taken away is released, or it is overdue.               *)
LEMMA RemoveKeepsWatch ==
    ASSUME TypeOK, WatchInv, NEW c \in Calls, RemoveActive(c),
           NEW s \in CallStates, Signal(c, s), s # "held" \/ c \in due',
           ticket' = ticket, due \ {c} \subseteq due', \A d \in Calls \ {c} : firing'[d] = firing[d]
    PROVE  WatchInv'
<1>1. ActiveLeases' = ActiveLeases \ {c} /\ armed' = armed \ {c}
  BY CallsAssumption DEF RemoveActive, ActiveLeases, ActiveOneshots
<1>2. ActiveLeases \subseteq Calls
  BY DEF ActiveLeases, ActiveOneshots, TypeOK
<1>3. WatchdogAlive'
  BY <1>1, <1>2 DEF WatchInv, WatchdogAlive
<1>4. \A d \in Calls \ {c} : pc'[d] = "held" => pc[d] = "held"
  BY DEF Signal
<1>5. pc'[c] = s
  BY DEF Signal, TypeOK
<1>6. HeldUnlessDue'
  BY <1>1, <1>4, <1>5 DEF WatchInv, HeldUnlessDue, IsBarrier
<1> QED
  BY <1>3, <1>6 DEF WatchInv

SafeInv == TypeOK /\ LeaseInv /\ WatchInv

(* A new arbiter holds nothing.                                            *)
LEMMA InitSafe == Init => LeaseInv /\ WatchInv
<1> SUFFICES ASSUME Init PROVE LeaseInv /\ WatchInv
  OBVIOUS
<1>1. /\ activeSessions = {} /\ activeTransports = {} /\ activeBarriers = {} /\ activeOneshot = NoCall
      /\ \A c \in Calls : pc[c] = "idle"
  BY DEF Init
<1>2. ActiveQMI = {} /\ ActiveLeases = {}
  BY <1>1 DEF ActiveQMI, ActiveLeases, ActiveOneshots
<1>3. IsFiniteSet({}) /\ Cardinality({}) = 0
  BY FS_EmptySet
<1>4. ActiveTyped
  BY <1>1, <1>2, <1>3 DEF ActiveTyped
<1>5. Exclusion
  BY <1>1, <1>2, <1>3, LimitsAssumption DEF Exclusion
<1>6. BarrierExcludes /\ WatchdogAlive /\ HeldUnlessDue
  BY <1>1, <1>2 DEF BarrierExcludes, WatchdogAlive, HeldUnlessDue
<1> QED
  BY <1>4, <1>5, <1>6 DEF LeaseInv, WatchInv

(* A step that touches neither leases, nor timers, nor who holds one.      *)
LEMMA FrameKeepsSafe ==
    ASSUME LeaseInv, WatchInv, UNCHANGED <<ticket, activeVars, armed, firing, due>>,
           \A c \in Calls : pc'[c] = "held" => pc[c] = "held"
    PROVE  LeaseInv' /\ WatchInv'
<1>1. LeaseInv'
  BY DEF LeaseInv, ActiveTyped, Exclusion, BarrierExcludes, ActiveLeases, ActiveOneshots, ActiveQMI,
     OnQMIChannel, IsBarrier, activeVars
<1>2. WatchInv'
  BY DEF WatchInv, WatchdogAlive, HeldUnlessDue, ActiveLeases, ActiveOneshots, IsBarrier, activeVars
<1> QED
  BY <1>1, <1>2

(* One turn of the loop.                                                   *)
LEMMA TryAcquireSafe ==
    ASSUME SafeInv, NEW c \in Calls, NEW q \in Seq(Calls), NEW n, NEW signalled \in BOOLEAN,
           TryAcquire(c, q, n, signalled), ticket' = ticket
    PROVE  LeaseInv' /\ WatchInv'
<1>1. CASE CanAcquire(c, q)
  <2>1. AddActive(c) /\ Signal(c, "held") /\ UNCHANGED <<firing, due>>
    BY <1>1 DEF TryAcquire
  <2> QED
    BY <1>1, <2>1, ServeKeepsLeases, ServeKeepsWatch DEF SafeInv
<1>2. CASE ~ CanAcquire(c, q)
  <2>1. /\ UNCHANGED <<activeVars, timerVars>>
        /\ IF signalled THEN Signal(c, "wait") ELSE pc' = [pc EXCEPT ![c] = "wait"] /\ UNCHANGED watch
    BY <1>2 DEF TryAcquire
  <2>2. \A d \in Calls : pc'[d] = "held" => pc[d] = "held"
    <3>1. CASE signalled
      BY <2>1, <3>1 DEF Signal
    <3>2. CASE ~ signalled
      BY <2>1, <3>2 DEF SafeInv, TypeOK
    <3> QED
      BY <3>1, <3>2
  <2> QED
    BY <2>1, <2>2, FrameKeepsSafe DEF SafeInv, timerVars
<1> QED
  BY <1>1, <1>2

(* Every operation keeps leases apart and watched.                         *)
LEMMA NextSafe == SafeInv /\ [Next]_vars => LeaseInv' /\ WatchInv'
<1> SUFFICES ASSUME SafeInv, [Next]_vars PROVE LeaseInv' /\ WatchInv'
  OBVIOUS
<1>0. TypeOK /\ LeaseInv /\ WatchInv
  BY DEF SafeInv
<1>1. ASSUME NEW c \in Calls, Enqueue(c) PROVE LeaseInv' /\ WatchInv'
  <2>1. Append(queue, c) \in Seq(Calls)
    BY <1>0, AppendProperties DEF TypeOK
  <2> QED
    BY <1>1, <2>1, TryAcquireSafe DEF Enqueue
<1>2. ASSUME NEW c \in Calls, Retry(c) PROVE LeaseInv' /\ WatchInv'
  BY <1>0, <1>2, TryAcquireSafe DEF Retry, TypeOK
<1>3. ASSUME NEW c \in Calls, ContextDone(c) PROVE LeaseInv' /\ WatchInv'
  BY <1>0, <1>3, FrameKeepsSafe DEF ContextDone, TypeOK, timerVars
<1>4. ASSUME NEW c \in Calls, Leave(c) PROVE LeaseInv' /\ WatchInv'
  BY <1>0, <1>4, FrameKeepsSafe DEF Leave, Signal, TypeOK, timerVars
<1>5. ASSUME NEW c \in Calls, Touch(c) PROVE LeaseInv' /\ WatchInv'
  <2>1. LeaseInv'
    BY <1>0, <1>5, RemoveKeepsLeases DEF Touch, activeVars
  <2>2. WatchInv'
    BY <1>0, <1>5 DEF Touch, WatchInv, WatchdogAlive, HeldUnlessDue, ActiveLeases, ActiveOneshots,
       IsBarrier, activeVars
  <2> QED
    BY <2>1, <2>2
<1>6. ASSUME NEW c \in Calls, Release(c) PROVE LeaseInv' /\ WatchInv'
  <2>1. UNCHANGED <<ticket, activeBarriers, firing>> /\ due' = due \ {c}
    BY <1>6 DEF Release
  <2>2. CASE c \in ActiveLeases
    <3>1. RemoveActive(c) /\ Signal(c, "done")
      BY <1>6, <2>2 DEF Release
    <3>2. LeaseInv'
      BY <1>0, <2>1, <3>1, RemoveKeepsLeases DEF RemoveActive
    <3>3. WatchInv'
      BY <1>0, <2>1, <3>1, RemoveKeepsWatch DEF CallStates
    <3> QED
      BY <3>2, <3>3
  <2>3. CASE c \notin ActiveLeases
    <3>1. /\ UNCHANGED <<activeSessions, activeOneshot, activeTransports, armed>>
          /\ pc' = [pc EXCEPT ![c] = "done"]
      BY <1>6, <2>3 DEF Release
    <3>2. LeaseInv'
      BY <1>0, <2>1, <3>1, RemoveKeepsLeases
    <3>3. WatchInv'
      BY <1>0, <2>1, <3>1 DEF WatchInv, WatchdogAlive, HeldUnlessDue, ActiveLeases, ActiveOneshots,
         IsBarrier, TypeOK
    <3> QED
      BY <3>2, <3>3
  <2> QED
    BY <2>2, <2>3
<1>7. ASSUME NEW c \in Calls, ReleaseBarrier(c) PROVE LeaseInv' /\ WatchInv'
  <2>1. LeaseInv'
    BY <1>0, <1>7, RemoveKeepsLeases DEF ReleaseBarrier
  <2>2. WatchInv'
    BY <1>0, <1>7 DEF ReleaseBarrier, Signal, WatchInv, WatchdogAlive, HeldUnlessDue, ActiveLeases,
       ActiveOneshots, IsBarrier, timerVars
  <2> QED
    BY <2>1, <2>2
<1>8. ASSUME NEW c \in Calls, (\E b \in Calls \cup {NoCall} : BuildTicket(c, b)) \/ Age(c)
      PROVE  LeaseInv' /\ WatchInv'
  BY <1>0, <1>8, FrameKeepsSafe DEF BuildTicket, Age, TypeOK, timerVars
<1>9. ASSUME NEW c \in Calls, Expire(c) PROVE LeaseInv' /\ WatchInv'
  <2>1. LeaseInv'
    BY <1>0, <1>9, RemoveKeepsLeases DEF Expire, activeVars
  <2>2. WatchInv'
    BY <1>0, <1>9 DEF Expire, WatchInv, WatchdogAlive, HeldUnlessDue, ActiveLeases, ActiveOneshots,
       IsBarrier, activeVars
  <2> QED
    BY <2>1, <2>2
<1>10. ASSUME NEW c \in Calls, TimerFires(c) PROVE LeaseInv' /\ WatchInv'
  <2>1. LeaseInv'
    BY <1>0, <1>10, RemoveKeepsLeases DEF TimerFires, activeVars
  <2>2. WatchInv'
    BY <1>0, <1>10 DEF TimerFires, WatchInv, WatchdogAlive, HeldUnlessDue, ActiveLeases,
       ActiveOneshots, IsBarrier, TypeOK, activeVars
  <2> QED
    BY <2>1, <2>2
<1>11. ASSUME NEW c \in Calls, ReleaseExpired(c) PROVE LeaseInv' /\ WatchInv'
  <2>1. /\ UNCHANGED <<ticket, activeBarriers, due>>
        /\ \A d \in Calls \ {c} : firing'[d] = firing[d]
    BY <1>0, <1>11 DEF ReleaseExpired, TypeOK
  <2>2. CASE c \in ActiveLeases /\ Overdue(c)
    <3>1. RemoveActive(c) /\ Signal(c, pc[c]) /\ pc[c] \in CallStates /\ c \in due'
      BY <1>0, <1>11, <2>1, <2>2 DEF ReleaseExpired, Overdue, TypeOK
    <3>2. LeaseInv'
      BY <1>0, <2>1, <3>1, RemoveKeepsLeases DEF RemoveActive
    <3>3. WatchInv'
      BY <1>0, <2>1, <3>1, RemoveKeepsWatch
    <3> QED
      BY <3>2, <3>3
  <2>3. CASE ~ (c \in ActiveLeases /\ Overdue(c))
    <3>1. /\ UNCHANGED <<activeSessions, activeOneshot, activeTransports, pc>>
          /\ armed' = armed \cup ({c} \cap ActiveLeases)
      BY <1>11, <2>3 DEF ReleaseExpired
    <3>2. LeaseInv'
      BY <1>0, <2>1, <3>1, RemoveKeepsLeases
    <3>3. ActiveLeases \subseteq Calls
      BY <1>0 DEF ActiveLeases, ActiveOneshots, TypeOK
    <3>4. WatchInv'
      BY <1>0, <2>1, <3>1, <3>3 DEF WatchInv, WatchdogAlive, HeldUnlessDue, ActiveLeases,
         ActiveOneshots, IsBarrier
    <3> QED
      BY <3>2, <3>4
  <2> QED
    BY <2>2, <2>3
<1>12. ASSUME NEW w \in Watchers, LookIdle(w) \/ IdleContextDone(w) PROVE LeaseInv' /\ WatchInv'
  BY <1>0, <1>12, FrameKeepsSafe DEF LookIdle, IdleContextDone, timerVars
<1>13. CASE UNCHANGED vars
  BY <1>0, <1>13, FrameKeepsSafe DEF vars, activeVars
<1> QED
  BY <1>1, <1>2, <1>3, <1>4, <1>5, <1>6, <1>7, <1>8, <1>9, <1>10, <1>11, <1>12, <1>13 DEF Next

(* The inductive invariant holds in every run.                             *)
LEMMA Safe == Spec => []SafeInv
<1>1. Init => SafeInv
  BY InitType, InitSafe DEF SafeInv
<1>2. SafeInv /\ [Next]_vars => SafeInv'
  BY NextType, NextSafe DEF SafeInv
<1> QED
  BY <1>1, <1>2, PTL DEF Spec

(* However many calls there are and whatever the limits, leases exclude    *)
(* each other as canAcquireLeaseLocked intends.                            *)
THEOREM MutualExclusion == Spec => []Exclusion
<1>1. SafeInv => Exclusion
  BY DEF SafeInv, LeaseInv
<1> QED
  BY <1>1, Safe, PTL

(* A barrier keeps every class it blocks off the SIM while it is held.     *)
THEOREM BarriersExclude == Spec => []BarrierExcludes
<1>1. SafeInv => BarrierExcludes
  BY DEF SafeInv, LeaseInv
<1> QED
  BY <1>1, Safe, PTL

(* No active lease is ever without a watchdog that will look at it.        *)
THEOREM WatchdogNeverLost == Spec => []WatchdogAlive
<1>1. SafeInv => WatchdogAlive
  BY DEF SafeInv, WatchInv
<1> QED
  BY <1>1, Safe, PTL

(* No lease is taken from a holder before MaxLeaseHold has passed since    *)
(* its last Touch.                                                         *)
THEOREM NoEarlyForcedRelease == Spec => []HeldUnlessDue
<1>1. SafeInv => HeldUnlessDue
  BY DEF SafeInv, WatchInv
<1> QED
  BY <1>1, Safe, PTL

(* Two callers that use the SIM at once outside the rules include one that *)
(* outstayed its lease.                                                    *)
THEOREM OverlapNeedsTimeout == Spec => []OverlapOnlyAfterTimeout
<1>1. SafeInv => OverlapOnlyAfterTimeout
  <2> SUFFICES ASSUME SafeInv, NEW c \in Calls, NEW d \in Calls,
                      c # d, pc[c] = "held", pc[d] = "held",
                      ticket[c].leaseType = "transport", ticket[d].leaseType = "transport",
                      ~ OnQMIChannel(c), c \notin due, d \notin due
               PROVE  FALSE
    BY DEF OverlapOnlyAfterTimeout
  <2>1. c \in ActiveLeases /\ d \in ActiveLeases
    BY DEF SafeInv, WatchInv, HeldUnlessDue, IsBarrier
  <2>2. c \in activeTransports /\ d \in activeTransports
    BY <2>1 DEF SafeInv, LeaseInv, ActiveTyped, ActiveLeases, ActiveOneshots
  <2> QED
    BY <2>2 DEF SafeInv, LeaseInv, Exclusion
<1> QED
  BY <1>1, Safe, PTL
-----------------------------------------------------------------------------
(* The arbiter implements LeaseLock.                                       *)

(* What the promise calls leases, barriers, sessions and channels is what  *)
(* the arbiter keeps apart.                                                *)
LEMMA LockSees ==
    ASSUME SafeInv
    PROVE  /\ Lock!Leases = ActiveLeases /\ Lock!Barriers = activeBarriers
           /\ Lock!Sessions = activeSessions /\ Lock!Channels = ActiveQMI
<1>1. /\ \A c \in activeSessions : ticket[c].leaseType = "session"
      /\ \A c \in ActiveOneshots : ticket[c].leaseType = "oneshot"
      /\ \A c \in activeTransports : ticket[c].leaseType = "transport"
      /\ \A b \in activeBarriers : ticket[b].leaseType = "barrier"
  BY DEF SafeInv, LeaseInv, ActiveTyped, ActiveOneshots, IsBarrier
<1>2. Lock!Leases = ActiveLeases /\ Lock!Barriers = activeBarriers /\ Lock!Sessions = activeSessions
  BY <1>1 DEF Lock!Leases, Lock!Barriers, Lock!Sessions, Lock!Kind, ActiveLeases
<1>3. Lock!Channels = ActiveQMI
  BY <1>1 DEF Lock!Channels, Lock!OnChannel, Lock!Kind, ActiveLeases, ActiveQMI, OnQMIChannel
<1> QED
  BY <1>2, <1>3

(* The promise counts as the arbiter does.                                 *)
LEMMA SameCount == ASSUME NEW S PROVE Lock!Cardinality(S) = Cardinality(S)
BY DEF Lock!Cardinality, Cardinality

(* A call that can acquire may hold what it asks for.                      *)
LEMMA AcquirableMayHold ==
    ASSUME SafeInv, NEW c \in Calls, NEW q, CanAcquire(c, q)
    PROVE  Lock!MayHold(c)
<1> USE CallsAssumption, LimitsAssumption
<1>0. /\ \A t \in activeTransports : ticket[t].leaseType = "transport"
      /\ \A t \in activeSessions : ticket[t].leaseType = "session"
  BY DEF SafeInv, LeaseInv, ActiveTyped
<1>1. CASE IsBarrier(c)
  BY <1>1, LockSees DEF CanAcquire, CanAcquireBarrier, Lock!MayHold, Lock!Kind, IsBarrier
<1>2. CASE ~ IsBarrier(c)
  <2>1. CanAcquireLease(c, q) /\ Lock!Kind(c) # "barrier"
    BY <1>2 DEF CanAcquire, IsBarrier, Lock!Kind
  <2>2. \A b \in Lock!Barriers : ticket[c].class \notin ticket[b].blocked
    BY <2>1, LockSees DEF CanAcquireLease, IsBlockedByActiveBarrier
  <2>3. (\A d \in Lock!Leases : Lock!Compatible(c, d)) /\ Lock!Room(c)
    <3>1. CASE ticket[c].leaseType = "session"
      <4>1. activeOneshot = NoCall /\ activeTransports = {} /\ Cardinality(activeSessions) < MaxSessions
        BY <2>1, <3>1 DEF CanAcquireLease, RoomForSession
      <4>2. ActiveLeases = activeSessions
        BY <4>1 DEF ActiveLeases, ActiveOneshots
      <4> QED
        BY <1>0, <3>1, <4>1, <4>2, LockSees, SameCount
           DEF Lock!Compatible, Lock!Room, Lock!Kind, Lock!OnChannel
    <3>2. CASE ticket[c].leaseType = "oneshot"
      <4>1. ActiveLeases = {}
        BY <2>1, <3>2 DEF CanAcquireLease
      <4> QED
        BY <3>2, <4>1, LockSees DEF Lock!Room, Lock!Kind, Lock!OnChannel
    <3>3. CASE ticket[c].leaseType = "transport"
      <4>1. activeSessions = {} /\ activeOneshot = NoCall /\ CanAcquireTransportNow(c)
        BY <2>1, <3>3, SelectedCanAcquire DEF CanAcquireLease
      <4>2. ActiveLeases = activeTransports
        BY <4>1 DEF ActiveLeases, ActiveOneshots
      <4>3. CASE OnQMIChannel(c)
        <5>1. \A t \in activeTransports : OnQMIChannel(t) /\ ticket[t].channel # ticket[c].channel
          BY <4>1, <4>3 DEF CanAcquireTransportNow, ActiveExclusive, ActiveQMI
        <5>2. Cardinality(ActiveQMI) < MaxQMITransports
          <6>1. IsFiniteSet(ActiveQMI) /\ ~ (Cardinality(ActiveQMI) >= MaxQMITransports)
            BY <4>1, <4>3 DEF CanAcquireTransportNow, QMIWindowFull, SafeInv, LeaseInv, ActiveTyped
          <6> QED
            BY <6>1, FS_CardinalityType
        <5> QED
          BY <1>0, <3>3, <4>2, <4>3, <5>1, <5>2, LockSees, SameCount
             DEF Lock!Compatible, Lock!Room, Lock!Kind, Lock!OnChannel, OnQMIChannel
      <4>4. CASE ~ OnQMIChannel(c)
        <5>1. activeTransports = {}
          BY <4>1, <4>4 DEF CanAcquireTransportNow
        <5> QED
          BY <3>3, <4>2, <4>4, <5>1, LockSees DEF Lock!Room, Lock!Kind, Lock!OnChannel, OnQMIChannel
      <4> QED
        BY <4>3, <4>4
    <3> QED
      BY <2>1, <3>1, <3>2, <3>3 DEF CanAcquireLease
  <2> QED
    BY <2>1, <2>2, <2>3 DEF Lock!MayHold
<1> QED
  BY <1>1, <1>2

Held == {c \in Calls : pc[c] = "held"}
Granteds == ActiveLeases \cup activeBarriers

(* One turn of the loop grants, or leaves the promise as it is.            *)
LEMMA TryAcquireLocks ==
    ASSUME SafeInv, NEW c \in Calls, pc[c] # "held", NEW q \in Seq(Calls), NEW n,
           NEW signalled \in BOOLEAN, TryAcquire(c, q, n, signalled), ticket' = ticket
    PROVE  Lock!Grant(c) \/ UNCHANGED Lock!vars
<1>1. CASE CanAcquire(c, q)
  <2>1. AddActive(c) /\ Signal(c, "held") /\ UNCHANGED due
    BY <1>1 DEF TryAcquire
  <2>2. Held' = Held \cup {c}
    BY <2>1 DEF Signal, Held
  <2>3. Granteds' = Granteds \cup {c}
    <3>1. activeOneshot' = c => activeOneshot \in {NoCall, c}
      BY <1>1, <2>1 DEF AddActive, CanAcquire, CanAcquireLease, IsBarrier, ActiveLeases, ActiveOneshots
    <3>2. ticket[c].leaseType \in {"session", "oneshot", "transport", "barrier"}
      BY <1>1 DEF CanAcquire, CanAcquireLease, IsBarrier
    <3> QED
      BY <2>1, <3>1, <3>2, CallsAssumption
         DEF AddActive, Granteds, ActiveLeases, ActiveOneshots, IsBarrier
  <2>4. Lock!MayHold(c)
    BY <1>1, AcquirableMayHold
  <2> QED
    BY <2>1, <2>2, <2>3, <2>4 DEF Lock!Grant, Held, Granteds
<1>2. CASE ~ CanAcquire(c, q)
  <2>1. /\ UNCHANGED <<activeVars, timerVars>>
        /\ IF signalled THEN Signal(c, "wait") ELSE pc' = [pc EXCEPT ![c] = "wait"] /\ UNCHANGED watch
    BY <1>2 DEF TryAcquire
  <2>2. Held' = Held
    <3>1. CASE signalled
      BY <2>1, <3>1 DEF Signal, Held
    <3>2. CASE ~ signalled
      BY <2>1, <3>2 DEF SafeInv, TypeOK, Held
    <3> QED
      BY <3>1, <3>2
  <2> QED
    BY <2>1, <2>2 DEF Lock!vars, Held, ActiveLeases, ActiveOneshots, activeVars, timerVars
<1> QED
  BY <1>1, <1>2

(* A new arbiter has promised nothing.                                     *)
LEMMA InitLocks == Init => Lock!Init
<1> SUFFICES ASSUME Init PROVE Lock!Init
  OBVIOUS
<1>1. \A c \in Calls : pc[c] # "held"
  BY DEF Init
<1>2. ActiveLeases \cup activeBarriers = {}
  BY DEF Init, ActiveLeases, ActiveOneshots
<1> QED
  BY <1>1, <1>2 DEF Init, Lock!Init

(* Only a lease is overdue: a barrier is held for as long as it takes.     *)
DueAreLeases == \A c \in due : ~ IsBarrier(c)

LEMMA NextDue == SafeInv /\ DueAreLeases /\ [Next]_vars => DueAreLeases'
<1> SUFFICES ASSUME SafeInv, DueAreLeases, [Next]_vars PROVE DueAreLeases'
  OBVIOUS
<1>1. ticket' = ticket /\ due' \subseteq due \cup ActiveLeases
  <2>1. ASSUME NEW c \in Calls, Enqueue(c) \/ Retry(c)
        PROVE  ticket' = ticket /\ due' = due
    BY <2>1 DEF Enqueue, Retry, TryAcquire, timerVars
  <2>2. ASSUME NEW c \in Calls, ContextDone(c) \/ Leave(c) \/ ReleaseBarrier(c) \/ TimerFires(c)
                                 \/ ReleaseExpired(c)
        PROVE  ticket' = ticket /\ due' = due
    BY <2>2 DEF ContextDone, Leave, ReleaseBarrier, TimerFires, ReleaseExpired, timerVars
  <2>3. ASSUME NEW c \in Calls, Touch(c) \/ Release(c) \/ Expire(c)
        PROVE  ticket' = ticket /\ due' \subseteq due \cup ActiveLeases
    BY <2>3 DEF Touch, Release, Expire
  <2>4. ASSUME NEW c \in Calls, (\E b \in Calls \cup {NoCall} : BuildTicket(c, b)) \/ Age(c)
        PROVE  ticket' = ticket /\ due' = due
    BY <2>4 DEF BuildTicket, Age, timerVars
  <2>5. ASSUME NEW w \in Watchers, LookIdle(w) \/ IdleContextDone(w)
        PROVE  ticket' = ticket /\ due' = due
    BY <2>5 DEF LookIdle, IdleContextDone, timerVars
  <2>6. CASE UNCHANGED vars
    BY <2>6 DEF vars
  <2> QED
    BY <2>1, <2>2, <2>3, <2>4, <2>5, <2>6 DEF Next
<1>2. \A c \in ActiveLeases : ~ IsBarrier(c)
  BY DEF SafeInv, LeaseInv, ActiveTyped, ActiveLeases, ActiveOneshots, IsBarrier
<1> QED
  BY <1>1, <1>2 DEF DueAreLeases, IsBarrier

(* Every operation is a step of the promise, or none.                      *)
LEMMA NextLocks == SafeInv /\ DueAreLeases /\ [Next]_vars => [Lock!Next]_(Lock!vars)
<1> SUFFICES ASSUME SafeInv, DueAreLeases, [Next]_vars PROVE Lock!Next \/ UNCHANGED Lock!vars
  OBVIOUS
<1>0. TypeOK
  BY DEF SafeInv
<1>1. ASSUME NEW c \in Calls, Enqueue(c) PROVE Lock!Next \/ UNCHANGED Lock!vars
  <2>1. Append(queue, c) \in Seq(Calls)
    BY <1>0, AppendProperties DEF TypeOK
  <2>2. pc[c] # "held" /\ TryAcquire(c, Append(queue, c), 1, TRUE) /\ ticket' = ticket
    BY <1>1 DEF Enqueue
  <2> QED
    BY <2>1, <2>2, TryAcquireLocks DEF Lock!Next
<1>2. ASSUME NEW c \in Calls, Retry(c) PROVE Lock!Next \/ UNCHANGED Lock!vars
  <2>1. pc[c] # "held" /\ TryAcquire(c, queue, 0, FALSE) /\ ticket' = ticket /\ queue \in Seq(Calls)
    BY <1>0, <1>2 DEF Retry, TypeOK
  <2> QED
    BY <2>1, TryAcquireLocks DEF Lock!Next
<1>3. ASSUME NEW c \in Calls, ContextDone(c) \/ Leave(c) PROVE UNCHANGED Lock!vars
  <2>1. Held' = Held
    BY <1>0, <1>3 DEF ContextDone, Leave, Signal, TypeOK, Held
  <2> QED
    BY <1>3, <2>1 DEF ContextDone, Leave, Held, Lock!vars, ActiveLeases, ActiveOneshots, activeVars,
       timerVars
<1>4. ASSUME NEW c \in Calls, Touch(c) PROVE Lock!Prolong(c)
  BY <1>4, LockSees DEF Touch, Lock!Prolong, ActiveLeases, ActiveOneshots, activeVars
<1>5. ASSUME NEW c \in Calls, Release(c) PROVE Lock!GiveBack(c)
  <2>0. UNCHANGED <<ticket, activeBarriers>> /\ due' = due \ {c} /\ pc[c] = "held"
    BY <1>5 DEF Release
  <2>1. Held' = Held \ {c}
    BY <1>0, <1>5 DEF Release, Signal, TypeOK, Held
  <2>2. c \notin activeBarriers
    BY <1>5 DEF Release, SafeInv, LeaseInv, ActiveTyped
  <2>3. Granteds' = Granteds \ {c}
    <3>1. CASE c \in ActiveLeases
      BY <1>5, <2>0, <2>2, <3>1, CallsAssumption
         DEF Release, RemoveActive, Granteds, ActiveLeases, ActiveOneshots
    <3>2. CASE c \notin ActiveLeases
      BY <1>5, <2>0, <2>2, <3>2 DEF Release, Granteds, ActiveLeases, ActiveOneshots
    <3> QED
      BY <3>1, <3>2
  <2> QED
    BY <2>0, <2>1, <2>3 DEF Lock!GiveBack, Held, Granteds
<1>6. ASSUME NEW c \in Calls, ReleaseBarrier(c) PROVE Lock!GiveBack(c)
  <2>1. Held' = Held \ {c}
    BY <1>6 DEF ReleaseBarrier, Signal, Held
  <2>2. c \notin ActiveLeases
    BY <1>6 DEF ReleaseBarrier, IsBarrier, SafeInv, LeaseInv, ActiveTyped, ActiveLeases, ActiveOneshots
  <2>3. Granteds' = Granteds \ {c}
    BY <1>6, <2>2 DEF ReleaseBarrier, Granteds, ActiveLeases, ActiveOneshots
  <2>4. c \notin due
    BY <1>6 DEF ReleaseBarrier, DueAreLeases
  <2> QED
    BY <1>6, <2>1, <2>3, <2>4 DEF ReleaseBarrier, Lock!GiveBack, Held, Granteds, timerVars
<1>7. ASSUME NEW c \in Calls, (\E b \in Calls \cup {NoCall} : BuildTicket(c, b)) \/ Age(c)
      PROVE  UNCHANGED Lock!vars
  <2>1. Held' = Held
    BY <1>0, <1>7 DEF BuildTicket, Age, TypeOK, Held
  <2> QED
    BY <1>7, <2>1 DEF BuildTicket, Age, Held, Lock!vars, ActiveLeases, ActiveOneshots, activeVars,
       timerVars
<1>8. ASSUME NEW c \in Calls, Expire(c) PROVE Lock!Outstay(c)
  BY <1>8, LockSees DEF Expire, Lock!Outstay, ActiveLeases, ActiveOneshots, activeVars
<1>9. ASSUME NEW c \in Calls, TimerFires(c) PROVE UNCHANGED Lock!vars
  BY <1>9 DEF TimerFires, Lock!vars, ActiveLeases, ActiveOneshots, activeVars
<1>10. ASSUME NEW c \in Calls, ReleaseExpired(c) PROVE Lock!TakeAway(c) \/ UNCHANGED Lock!vars
  <2>0. UNCHANGED <<ticket, activeBarriers, due>>
    BY <1>10 DEF ReleaseExpired
  <2>1. CASE c \in ActiveLeases /\ Overdue(c)
    <3>1. RemoveActive(c) /\ Signal(c, pc[c]) /\ c \in due
      BY <1>10, <2>1 DEF ReleaseExpired, Overdue
    <3>2. Held' = Held
      BY <3>1 DEF Signal, Held
    <3>3. c \notin activeBarriers
      BY <2>1 DEF SafeInv, LeaseInv, ActiveTyped, ActiveLeases, ActiveOneshots, IsBarrier
    <3>4. Granteds' = Granteds \ {c}
      BY <2>0, <3>1, <3>3, CallsAssumption DEF RemoveActive, Granteds, ActiveLeases, ActiveOneshots
    <3> QED
      BY <2>0, <2>1, <3>1, <3>2, <3>4, LockSees DEF Lock!TakeAway, Held, Granteds
  <2>2. CASE ~ (c \in ActiveLeases /\ Overdue(c))
    BY <1>10, <2>0, <2>2 DEF ReleaseExpired, Lock!vars, ActiveLeases, ActiveOneshots
  <2> QED
    BY <2>1, <2>2
<1>11. ASSUME NEW w \in Watchers, LookIdle(w) \/ IdleContextDone(w) PROVE UNCHANGED Lock!vars
  BY <1>11 DEF LookIdle, IdleContextDone, Lock!vars, ActiveLeases, ActiveOneshots, activeVars, timerVars
<1>12. CASE UNCHANGED vars
  BY <1>12 DEF vars, Lock!vars, ActiveLeases, ActiveOneshots, activeVars, timerVars
<1> QED
  BY <1>1, <1>2, <1>3, <1>4, <1>5, <1>6, <1>7, <1>8, <1>9, <1>10, <1>11, <1>12 DEF Next, Lock!Next

(* However many calls, whatever they ask for and whatever the limits, the  *)
(* arbiter does what LeaseLock promises (arbiter.go as a whole).           *)
THEOREM KeepsPromise == Spec => ImplementsLock
<1>1. Init => DueAreLeases
  BY DEF Init, DueAreLeases
<1>2. SafeInv /\ DueAreLeases /\ [Next]_vars => DueAreLeases'
  BY NextDue
<1>3. SafeInv /\ DueAreLeases /\ [Next]_vars => [Lock!Next]_(Lock!vars)
  BY NextLocks
<1> QED
  BY InitLocks, <1>1, <1>2, <1>3, Safe, PTL DEF Spec, ImplementsLock, Lock!Spec
-----------------------------------------------------------------------------
(* The queue and those who wait in it.                                     *)

EachOnce(q) == \A i, j \in DOMAIN q : q[i] = q[j] => i = j
Waiting == {c \in Calls : pc[c] \in {"wait", "woken", "leaving"}}

(* A ticket is put at the end of the queue.                                *)
LEMMA AppendMembers ==
    ASSUME NEW q \in Seq(Calls), NEW c \in Calls, EachOnce(q), c \notin ToSet(q)
    PROVE  EachOnce(Append(q, c)) /\ ToSet(Append(q, c)) = ToSet(q) \cup {c}
<1> DEFINE r == Append(q, c)
<1>1. /\ Len(q) \in Nat /\ DOMAIN q = 1..Len(q) /\ DOMAIN r = 1..(Len(q) + 1)
      /\ r[Len(q) + 1] = c /\ \A k \in 1..Len(q) : r[k] = q[k]
  BY LenProperties, AppendProperties
<1> HIDE DEF r
<1>2. EachOnce(r)
  BY <1>1 DEF EachOnce, ToSet
<1>3. ToSet(r) = ToSet(q) \cup {c}
  BY <1>1 DEF ToSet
<1> QED
  BY <1>2, <1>3 DEF r

(* A ticket that leaves the queue leaves the others in it.                 *)
LEMMA WithoutMembers ==
    ASSUME NEW q \in Seq(Calls), NEW c \in Calls, EachOnce(q), Contains(q, c)
    PROVE  EachOnce(Without(q, c)) /\ ToSet(Without(q, c)) = ToSet(q) \ {c}
<1> DEFINE i == CHOOSE k \in DOMAIN q : q[k] = c
           r == RemoveAt(q, i)
           old(k) == IF k < i THEN k ELSE k + 1
<1>1. /\ Len(q) \in Nat /\ DOMAIN q = 1..Len(q) /\ i \in 1..Len(q) /\ q[i] = c
      /\ \A k \in DOMAIN q : q[k] = c => k = i
  BY LenProperties DEF Contains, EachOnce
<1> HIDE DEF i
<1>2. DOMAIN r = 1..(Len(q) - 1) /\ \A k \in 1..(Len(q) - 1) : r[k] = q[old(k)]
  <2>1. /\ r \in Seq(Calls) /\ Len(r) = Len(q) - 1
        /\ \A k \in 1..(Len(q) - 1) : r[k] = IF k < i THEN q[k] ELSE q[k + 1]
    BY <1>1, RemoveAtIsShift
  <2> QED
    BY <1>1, <2>1, LenProperties
<1> HIDE DEF r
<1>3. EachOnce(r)
  <2> SUFFICES ASSUME NEW a \in 1..(Len(q) - 1), NEW b \in 1..(Len(q) - 1), r[a] = r[b]
               PROVE  a = b
    BY <1>2 DEF EachOnce
  <2>1. old(a) \in DOMAIN q /\ old(b) \in DOMAIN q
    BY <1>1
  <2>2. q[old(a)] = q[old(b)]
    BY <1>2
  <2>3. old(a) = old(b)
    BY <2>1, <2>2 DEF EachOnce
  <2> QED
    BY <1>1, <2>3
<1>4. ASSUME NEW x \in ToSet(r) PROVE x \in ToSet(q) \ {c}
  <2>1. PICK k \in 1..(Len(q) - 1) : x = q[old(k)]
    BY <1>2 DEF ToSet
  <2>2. old(k) \in DOMAIN q /\ old(k) # i
    BY <1>1
  <2> QED
    BY <1>1, <2>1, <2>2 DEF ToSet
<1>5. ASSUME NEW x \in ToSet(q) \ {c} PROVE x \in ToSet(r)
  <2>1. PICK j \in DOMAIN q : x = q[j] /\ j # i
    BY <1>1 DEF ToSet
  <2>2. CASE j < i
    <3>1. j \in 1..(Len(q) - 1) /\ old(j) = j
      BY <1>1, <2>1, <2>2
    <3> QED
      BY <1>2, <2>1, <3>1 DEF ToSet
  <2>3. CASE j > i
    <3>1. j - 1 \in 1..(Len(q) - 1) /\ old(j - 1) = j
      BY <1>1, <2>1, <2>3
    <3> QED
      BY <1>2, <2>1, <3>1 DEF ToSet
  <2> QED
    BY <1>1, <2>1, <2>2, <2>3
<1>6. Without(q, c) = r
  BY DEF Without, r, i
<1> QED
  BY <1>3, <1>4, <1>5, <1>6

(* QueueHoldsWaiters, in parts.                                            *)
QueueInv == EachOnce(queue) /\ ToSet(queue) = Waiting /\ Granteds \subseteq Held

(* A turn of the loop: the ticket stays, or its call is served.            *)
LEMMA TryAcquireQueues ==
    ASSUME TypeOK, QueueInv, NEW c \in Calls, NEW q \in Seq(Calls), EachOnce(q),
           ToSet(q) = Waiting \cup {c}, pc[c] \in {"built", "woken"}, NEW n,
           NEW signalled \in BOOLEAN, TryAcquire(c, q, n, signalled)
    PROVE  QueueInv'
<1>1. CASE CanAcquire(c, q)
  <2>1. queue' = Without(q, c) /\ AddActive(c) /\ Signal(c, "held")
    BY <1>1 DEF TryAcquire
  <2>2. Contains(q, c)
    BY <1>1, ServedIsQueued
  <2>3. Waiting' = Waiting \ {c} /\ Held' = Held \cup {c}
    BY <2>1 DEF Signal, Waiting, Held
  <2>4. EachOnce(queue') /\ ToSet(queue') = Waiting'
    BY <2>1, <2>2, <2>3, WithoutMembers
  <2>5. Granteds' \subseteq Granteds \cup {c}
    BY <2>1 DEF AddActive, Granteds, ActiveLeases, ActiveOneshots
  <2> QED
    BY <2>3, <2>4, <2>5 DEF QueueInv, EachOnce
<1>2. CASE ~ CanAcquire(c, q)
  <2>1. /\ queue' = q /\ UNCHANGED activeVars
        /\ IF signalled THEN Signal(c, "wait") ELSE pc' = [pc EXCEPT ![c] = "wait"] /\ UNCHANGED watch
    BY <1>2 DEF TryAcquire
  <2>2. Waiting' = Waiting \cup {c} /\ Held' = Held
    <3>1. CASE signalled
      BY <2>1, <3>1 DEF Signal, Waiting, Held
    <3>2. CASE ~ signalled
      BY <2>1, <3>2 DEF TypeOK, Waiting, Held
    <3> QED
      BY <3>1, <3>2
  <2>3. Granteds' = Granteds
    BY <2>1 DEF activeVars, Granteds, ActiveLeases, ActiveOneshots
  <2> QED
    BY <2>1, <2>2, <2>3 DEF QueueInv, EachOnce
<1> QED
  BY <1>1, <1>2

(* A step that leaves the queue alone, and takes no lease from whom it     *)
(* leaves waiting or holding.                                              *)
LEMMA FrameKeepsQueue ==
    ASSUME QueueInv, queue' = queue, Waiting' = Waiting, Granteds' \subseteq Held'
    PROVE  QueueInv'
BY DEF QueueInv, EachOnce

(* Every operation keeps the queue and those who wait together.            *)
LEMMA NextQueues == SafeInv /\ QueueInv /\ [Next]_vars => QueueInv'
<1> SUFFICES ASSUME SafeInv, QueueInv, [Next]_vars PROVE QueueInv'
  OBVIOUS
<1>0. TypeOK /\ queue \in Seq(Calls) /\ Granteds \subseteq Held
  BY DEF SafeInv, TypeOK, QueueInv
<1>1. ASSUME NEW c \in Calls, Enqueue(c) PROVE QueueInv'
  <2>1. pc[c] = "built" /\ TryAcquire(c, Append(queue, c), 1, TRUE)
    BY <1>1 DEF Enqueue
  <2>2. c \notin ToSet(queue)
    BY <2>1 DEF QueueInv, Waiting
  <2>3. Append(queue, c) \in Seq(Calls)
    BY <1>0, AppendProperties
  <2>4. EachOnce(Append(queue, c)) /\ ToSet(Append(queue, c)) = Waiting \cup {c}
    BY <1>0, <2>2, AppendMembers DEF QueueInv
  <2> QED
    BY <1>0, <2>1, <2>3, <2>4, TryAcquireQueues
<1>2. ASSUME NEW c \in Calls, Retry(c) PROVE QueueInv'
  <2>1. pc[c] = "woken" /\ TryAcquire(c, queue, 0, FALSE)
    BY <1>2 DEF Retry
  <2>2. EachOnce(queue) /\ ToSet(queue) = Waiting \cup {c}
    BY <2>1 DEF QueueInv, Waiting
  <2> QED
    BY <1>0, <2>1, <2>2, TryAcquireQueues
<1>3. ASSUME NEW c \in Calls, ContextDone(c) PROVE QueueInv'
  <2>1. Waiting' = Waiting /\ Held' = Held
    BY <1>0, <1>3 DEF ContextDone, TypeOK, Waiting, Held
  <2> QED
    BY <1>0, <1>3, <2>1, FrameKeepsQueue
       DEF ContextDone, activeVars, Granteds, ActiveLeases, ActiveOneshots
<1>4. ASSUME NEW c \in Calls, Leave(c) PROVE QueueInv'
  <2>1. Contains(queue, c)
    <3>1. c \in ToSet(queue)
      BY <1>4 DEF Leave, QueueInv, Waiting
    <3> QED
      BY <1>0, <3>1, LenProperties DEF Contains, ToSet
  <2>2. queue' = Without(queue, c) /\ Signal(c, "done") /\ UNCHANGED activeVars
    BY <1>4, <2>1 DEF Leave
  <2>3. Waiting' = Waiting \ {c} /\ Held' = Held
    BY <1>4, <2>2 DEF Leave, Signal, Waiting, Held
  <2>4. EachOnce(queue') /\ ToSet(queue') = Waiting'
    BY <1>0, <2>1, <2>2, <2>3, WithoutMembers DEF QueueInv
  <2>5. Granteds' = Granteds
    BY <2>2 DEF activeVars, Granteds, ActiveLeases, ActiveOneshots
  <2> QED
    BY <1>0, <2>3, <2>4, <2>5 DEF QueueInv, EachOnce
<1>5. ASSUME NEW c \in Calls, Touch(c) \/ Expire(c) \/ TimerFires(c) PROVE QueueInv'
  <2>1. UNCHANGED <<queue, pc, activeVars>>
    BY <1>5 DEF Touch, Expire, TimerFires
  <2> QED
    BY <1>0, <2>1, FrameKeepsQueue
       DEF activeVars, Granteds, ActiveLeases, ActiveOneshots, Waiting, Held
<1>6. ASSUME NEW c \in Calls, Release(c) PROVE QueueInv'
  <2>1. Waiting' = Waiting /\ Held' = Held \ {c}
    BY <1>0, <1>6 DEF Release, Signal, TypeOK, Waiting, Held
  <2>2. queue' = queue /\ activeBarriers' = activeBarriers /\ c \notin activeBarriers
    BY <1>6 DEF Release, SafeInv, LeaseInv, ActiveTyped
  <2>3. Granteds' = Granteds \ {c}
    <3>1. CASE c \in ActiveLeases
      BY <1>6, <2>2, <3>1, CallsAssumption
         DEF Release, RemoveActive, Granteds, ActiveLeases, ActiveOneshots
    <3>2. CASE c \notin ActiveLeases
      BY <1>6, <2>2, <3>2 DEF Release, Granteds, ActiveLeases, ActiveOneshots
    <3> QED
      BY <3>1, <3>2
  <2> QED
    BY <1>0, <2>1, <2>2, <2>3, FrameKeepsQueue
<1>7. ASSUME NEW c \in Calls, ReleaseBarrier(c) PROVE QueueInv'
  <2>1. Waiting' = Waiting /\ Held' = Held \ {c}
    BY <1>7 DEF ReleaseBarrier, Signal, Waiting, Held
  <2>2. c \notin ActiveLeases
    BY <1>7 DEF ReleaseBarrier, IsBarrier, SafeInv, LeaseInv, ActiveTyped, ActiveLeases, ActiveOneshots
  <2>3. Granteds' = Granteds \ {c}
    BY <1>7, <2>2 DEF ReleaseBarrier, Granteds, ActiveLeases, ActiveOneshots
  <2> QED
    BY <1>0, <1>7, <2>1, <2>3, FrameKeepsQueue DEF ReleaseBarrier
<1>8. ASSUME NEW c \in Calls, (\E b \in Calls \cup {NoCall} : BuildTicket(c, b)) \/ Age(c)
      PROVE  QueueInv'
  <2>1. Waiting' = Waiting /\ Held' = Held
    BY <1>0, <1>8 DEF BuildTicket, Age, TypeOK, Waiting, Held
  <2> QED
    BY <1>0, <1>8, <2>1, FrameKeepsQueue
       DEF BuildTicket, Age, activeVars, Granteds, ActiveLeases, ActiveOneshots
<1>9. ASSUME NEW c \in Calls, ReleaseExpired(c) PROVE QueueInv'
  <2>1. queue' = queue /\ Waiting' = Waiting /\ Held' = Held
    BY <1>0, <1>9 DEF ReleaseExpired, Signal, TypeOK, Waiting, Held
  <2>2. Granteds' \subseteq Granteds
    BY <1>9 DEF ReleaseExpired, RemoveActive, Granteds, ActiveLeases, ActiveOneshots
  <2> QED
    BY <1>0, <2>1, <2>2, FrameKeepsQueue
<1>10. ASSUME NEW w \in Watchers, LookIdle(w) \/ IdleContextDone(w) PROVE QueueInv'
  BY <1>0, <1>10, FrameKeepsQueue
     DEF LookIdle, IdleContextDone, activeVars, Granteds, ActiveLeases, ActiveOneshots, Waiting, Held
<1>11. CASE UNCHANGED vars
  BY <1>0, <1>11, FrameKeepsQueue
     DEF vars, activeVars, Granteds, ActiveLeases, ActiveOneshots, Waiting, Held
<1> QED
  BY <1>1, <1>2, <1>3, <1>4, <1>5, <1>6, <1>7, <1>8, <1>9, <1>10, <1>11 DEF Next

(* In every run the queue and those who wait agree.                        *)
LEMMA Queued == Spec => []QueueInv
<1>1. Init => QueueInv
  <2> SUFFICES ASSUME Init PROVE QueueInv
    OBVIOUS
  <2>1. queue = <<>> /\ Waiting = {} /\ Granteds = {}
    BY DEF Init, Waiting, Granteds, ActiveLeases, ActiveOneshots
  <2> QED
    BY <2>1 DEF QueueInv, EachOnce, ToSet
<1> QED
  BY <1>1, NextQueues, Safe, PTL DEF Spec

(* No caller that was served or gave up leaves its ticket in the queue, no *)
(* one that waits has lost it, and what is granted belongs to a caller     *)
(* that was served (removeTicketLocked, addActiveLocked).                  *)
THEOREM TicketsAreWaiters == Spec => []QueueHoldsWaiters
<1>1. QueueInv => QueueHoldsWaiters
  BY DEF QueueInv, EachOnce, Waiting, Held, Granteds, QueueHoldsWaiters
<1> QED
  BY <1>1, Queued, PTL
-----------------------------------------------------------------------------
(* The order of the queue.                                                 *)

(* The tickets with a channel of their own are transports.                 *)
QMIsTransport == \A c \in Calls : OnQMIChannel(c) => ticket[c].leaseType = "transport"

(* Only a transport request keeps the qmi_channel scope.                   *)
LEMMA NormalizeScopeKind ==
    ASSUME NEW r PROVE Normalize(r).scope = "qmi_channel" => Normalize(r).leaseType = "transport"
BY DEF Normalize, NormalizeScope

(* Tickets are built once, so the scope and the type stay together.        *)
LEMMA ChannelsAreTransports == Spec => []QMIsTransport
<1>1. Init => QMIsTransport
  <2> SUFFICES ASSUME Init, NEW c \in Calls PROVE OnQMIChannel(c) => ticket[c].leaseType = "transport"
    BY DEF QMIsTransport
  <2>1. PICK r \in Requests : ticket[c] = Normalize(r)
    BY DEF Init
  <2> QED
    BY <2>1, NormalizeScopeKind DEF OnQMIChannel
<1>2. QMIsTransport /\ [Next]_vars => QMIsTransport'
  <2>1. ASSUME [Next]_vars PROVE ticket' = ticket
    BY <2>1 DEF Next, vars, BuildTicket, Enqueue, Retry, ContextDone, Leave, Touch, Release, ReleaseBarrier, Age,
       Expire, TimerFires, ReleaseExpired, LookIdle, IdleContextDone
  <2> QED
    BY <2>1 DEF QMIsTransport, OnQMIChannel
<1> QED
  BY <1>1, <1>2, PTL DEF Spec

(* The place of call c in a queue q from which it may be served: nothing   *)
(* that stops the scan, and no barrier, is before it.                      *)
ServedFrom(c, q, i) ==
    /\ i \in DOMAIN q /\ q[i] = c
    /\ \A j \in 1..(i - 1) : ~ IsBarrier(q[j])
    /\ ticket[c].leaseType = "transport" => \A j \in 1..i : ~ Stops(q[j])

(* A call that can be served now has such a place.                         *)
LEMMA ServedInTurn ==
    ASSUME NEW q \in Seq(Calls), NEW c \in Calls, CanAcquire(c, q)
    PROVE  \E i \in 1..Len(q) : ServedFrom(c, q, i)
<1>0. DOMAIN q = 1..Len(q) /\ Len(q) \in Nat
  BY LenProperties
<1>1. CASE IsBarrier(c)
  BY <1>0, <1>1 DEF CanAcquire, CanAcquireBarrier, IsBarrier, ServedFrom
<1>2. CASE QueueHeadIs(c, q) /\ ticket[c].leaseType # "transport"
  <2>1. 1 \in 1..Len(q)
    BY <1>0, <1>2, EmptySeq DEF QueueHeadIs
  <2> QED
    BY <1>0, <1>2, <2>1 DEF QueueHeadIs, ServedFrom
<1>3. CASE SelectedTransportIs(c, q)
  <2>1. PICK i \in Eligible(q) : q[i] = c
    BY <1>3 DEF SelectedTransportIs, Preferred, EligibleAgedNonAKA, EligibleAKA
  <2>2. i \in 1..Len(q) /\ \A j \in 1..i : ~ Stops(q[j])
    BY <1>0, <2>1 DEF Eligible
  <2>3. \A j \in 1..(i - 1) : ~ IsBarrier(q[j])
    BY <2>2 DEF Stops, IsBarrier
  <2> QED
    BY <1>0, <2>1, <2>2, <2>3 DEF ServedFrom
<1> QED
  BY <1>1, <1>2, <1>3 DEF CanAcquire, CanAcquireLease

(* Whoever is granted something was in the queue, or went to its end, in a *)
(* place from which it may be served.                                      *)
GrantedInTurn(c) ==
    \/ \E i \in DOMAIN queue : ServedFrom(c, queue, i)
    \/ /\ c \notin ToSet(queue)
       /\ ServedFrom(c, Append(queue, c), Len(queue) + 1)

(* Only acquire and BeginBarrier grant, each to the call that runs them.   *)
LEMMA GrantsInTurn ==
    ASSUME TypeOK, QueueInv, [Next]_vars, NEW c \in Calls, Granted(c)
    PROVE  GrantedInTurn(c)
<1>0. queue \in Seq(Calls) /\ DOMAIN queue = 1..Len(queue) /\ Len(queue) \in Nat
  BY LenProperties DEF TypeOK
<1>1. ASSUME Enqueue(c) PROVE GrantedInTurn(c)
  <2> DEFINE q == Append(queue, c)
  <2>1. /\ q \in Seq(Calls) /\ Len(q) = Len(queue) + 1 /\ q[Len(queue) + 1] = c
        /\ \A k \in 1..Len(queue) : q[k] = queue[k]
    BY <1>0, AppendProperties
  <2>2. TryAcquire(c, q, 1, TRUE) /\ pc[c] = "built"
    BY <1>1 DEF Enqueue
  <2>3. c \notin ToSet(queue)
    BY <2>2 DEF QueueInv, Waiting
  <2>4. CanAcquire(c, q)
    BY <2>2 DEF TryAcquire, Signal, Granted
  <2>5. PICK i \in 1..Len(q) : ServedFrom(c, q, i)
    BY <2>1, <2>4, ServedInTurn
  <2>6. i = Len(queue) + 1
    BY <1>0, <2>1, <2>3, <2>5 DEF ServedFrom, ToSet
  <2> QED
    BY <2>3, <2>5, <2>6 DEF GrantedInTurn
<1>2. ASSUME Retry(c) PROVE GrantedInTurn(c)
  <2>1. TryAcquire(c, queue, 0, FALSE)
    BY <1>2 DEF Retry
  <2>2. CanAcquire(c, queue)
    BY <2>1 DEF TryAcquire, Granted, TypeOK
  <2> QED
    BY <1>0, <2>2, ServedInTurn DEF GrantedInTurn
<1>3. ASSUME NEW d \in Calls, d # c, Enqueue(d) \/ Retry(d) PROVE FALSE
  BY <1>3 DEF Enqueue, Retry, TryAcquire, Signal, Granted, TypeOK
<1>4. ASSUME NEW d \in Calls,
             (\E b \in Calls \cup {NoCall} : BuildTicket(d, b))
                \/ ContextDone(d) \/ Touch(d) \/ Age(d) \/ Expire(d) \/ TimerFires(d)
      PROVE  FALSE
  BY <1>4 DEF BuildTicket, ContextDone, Touch, Age, Expire, TimerFires, Granted, TypeOK
<1>6. ASSUME NEW d \in Calls, Leave(d) \/ Release(d) \/ ReleaseBarrier(d) PROVE FALSE
  BY <1>6 DEF Leave, Release, ReleaseBarrier, Signal, Granted, TypeOK
<1>7. ASSUME NEW d \in Calls, ReleaseExpired(d) PROVE FALSE
  BY <1>7 DEF ReleaseExpired, Signal, Granted, TypeOK
<1>5. ASSUME (\E w \in Watchers : LookIdle(w) \/ IdleContextDone(w)) \/ UNCHANGED vars PROVE FALSE
  BY <1>5 DEF LookIdle, IdleContextDone, vars, Granted
<1> QED
  BY <1>1, <1>2, <1>3, <1>4, <1>5, <1>6, <1>7 DEF Next

(* However many calls and whatever they ask for, the switch waits only for *)
(* what was queued before its barrier: nothing queued behind a barrier is  *)
(* granted before it (hasPendingBarrierAheadLocked, selectedTransportLocked).*)
THEOREM NobodyPassesBarrier == Spec => BarrierNotOvertaken
<1> DEFINE Turn == \A c \in Calls : Granted(c) =>
                     \A i \in DOMAIN queue : IsBarrier(queue[i]) =>
                         queue[i] = c \/ \E j \in 1..(i - 1) : queue[j] = c
<1>1. TypeOK /\ QueueInv /\ [Next]_vars => Turn
  <2> SUFFICES ASSUME TypeOK, QueueInv, [Next]_vars, NEW c \in Calls, Granted(c),
                      NEW i \in DOMAIN queue, IsBarrier(queue[i])
               PROVE  queue[i] = c \/ \E j \in 1..(i - 1) : queue[j] = c
    OBVIOUS
  <2>0. queue \in Seq(Calls) /\ DOMAIN queue = 1..Len(queue) /\ Len(queue) \in Nat
    BY LenProperties DEF TypeOK
  <2>1. GrantedInTurn(c)
    BY GrantsInTurn
  <2>2. CASE \E k \in DOMAIN queue : ServedFrom(c, queue, k)
    <3>1. PICK k \in DOMAIN queue : ServedFrom(c, queue, k)
      BY <2>2
    <3>2. ~ (i \in 1..(k - 1))
      BY <3>1 DEF ServedFrom
    <3> QED
      BY <2>0, <3>1, <3>2 DEF ServedFrom
  <2>3. CASE ServedFrom(c, Append(queue, c), Len(queue) + 1)
    <3>1. i \in 1..Len(queue) /\ Append(queue, c)[i] = queue[i]
      BY <2>0, AppendProperties
    <3> QED
      BY <2>0, <2>3, <3>1 DEF ServedFrom
  <2> QED
    BY <2>1, <2>2, <2>3 DEF GrantedInTurn
<1> HIDE DEF Turn
<1>2. TypeOK /\ QueueInv /\ [Next]_vars => [Turn]_vars
  BY <1>1
<1>3. BarrierNotOvertaken <=> [][Turn]_vars
  BY DEF BarrierNotOvertaken, Turn
<1> QED
  BY <1>2, <1>3, Safe, Queued, PTL DEF Spec, SafeInv

(* While QMI channels are in use, a stream of QMI requests cannot keep out *)
(* an exclusive transport that waits: the scan of selectedTransportLocked  *)
(* ends at it (transportWaitGatesQueueLocked).                             *)
THEOREM QMIDoesNotPassExclusive == Spec => ExclusiveNotOvertaken
<1> DEFINE Turn == \A c \in Calls : Granted(c) /\ OnQMIChannel(c) /\ activeTransports # {} =>
                     \A i \in DOMAIN queue :
                        /\ ticket[queue[i]].leaseType = "transport" /\ ~ OnQMIChannel(queue[i])
                        /\ ~ IsBlockedByActiveBarrier(ticket[queue[i]].class)
                        => \E j \in 1..(i - 1) : queue[j] = c
<1>1. TypeOK /\ QueueInv /\ QMIsTransport /\ [Next]_vars => Turn
  <2> SUFFICES ASSUME TypeOK, QueueInv, QMIsTransport, [Next]_vars,
                      NEW c \in Calls, Granted(c), OnQMIChannel(c), activeTransports # {},
                      NEW i \in DOMAIN queue,
                      ticket[queue[i]].leaseType = "transport", ~ OnQMIChannel(queue[i]),
                      ~ IsBlockedByActiveBarrier(ticket[queue[i]].class)
               PROVE  \E j \in 1..(i - 1) : queue[j] = c
    OBVIOUS
  <2>0. queue \in Seq(Calls) /\ DOMAIN queue = 1..Len(queue) /\ Len(queue) \in Nat
    BY LenProperties DEF TypeOK
  <2>1. GrantedInTurn(c) /\ ticket[c].leaseType = "transport"
    BY GrantsInTurn DEF QMIsTransport
  <2>2. Stops(queue[i])
    BY DEF Stops, CanAcquireTransportNow, TransportWaitGatesQueue
  <2>3. CASE \E k \in DOMAIN queue : ServedFrom(c, queue, k)
    <3>1. PICK k \in DOMAIN queue : ServedFrom(c, queue, k)
      BY <2>3
    <3>2. ~ (i \in 1..k)
      BY <2>1, <2>2, <3>1 DEF ServedFrom
    <3> QED
      BY <2>0, <3>1, <3>2 DEF ServedFrom
  <2>4. CASE ServedFrom(c, Append(queue, c), Len(queue) + 1)
    <3>1. i \in 1..Len(queue) /\ Append(queue, c)[i] = queue[i]
      BY <2>0, AppendProperties
    <3> QED
      BY <2>0, <2>1, <2>2, <2>4, <3>1 DEF ServedFrom
  <2> QED
    BY <2>1, <2>3, <2>4 DEF GrantedInTurn
<1> HIDE DEF Turn
<1>2. TypeOK /\ QueueInv /\ QMIsTransport /\ [Next]_vars => [Turn]_vars
  BY <1>1
<1>3. ExclusiveNotOvertaken <=> [][Turn]_vars
  BY DEF ExclusiveNotOvertaken, Turn
<1> QED
  BY <1>2, <1>3, Safe, Queued, ChannelsAreTransports, PTL DEF Spec, SafeInv
-----------------------------------------------------------------------------
(* Wake-ups.                                                               *)

(* Tickets age in the order they were built: of two whose age counts one   *)
(* is older, and no ticket has aged before an older one.                   *)
AgedInv ==
    /\ \A c \in aged : c \in Ticketed /\ Ages(c) /\ older[c] \subseteq aged
    /\ \A c, d \in Ticketed : Ages(c) /\ Ages(d) /\ c # d => c \in older[d] \/ d \in older[c]

(* A ticket that is gone changes nothing between the others.               *)
LEMMA ForgetAges ==
    ASSUME TypeOK, AgedInv, NEW c \in Calls, Forget(c), Ticketed' = Ticketed \ {c}, ticket' = ticket
    PROVE  AgedInv'
<1>1. \A d \in Calls : older'[d] = IF d = c THEN {} ELSE older[d] \ {c}
  BY DEF Forget
<1>2. aged' = aged \ {c} /\ aged \subseteq Calls /\ Ticketed \subseteq Calls
  BY DEF Forget, TypeOK, Ticketed
<1>3. \A d : Ages(d)' <=> Ages(d)
  BY DEF Ages
<1>4. ASSUME NEW d \in aged' PROVE d \in Ticketed' /\ Ages(d)' /\ older'[d] \subseteq aged'
  <2>1. d \in Calls /\ d # c /\ d \in Ticketed /\ Ages(d) /\ older[d] \subseteq aged
    BY <1>2, <1>4 DEF AgedInv
  <2> QED
    BY <1>1, <1>2, <1>3, <2>1
<1>5. ASSUME NEW d \in Ticketed', NEW e \in Ticketed', Ages(d)', Ages(e)', d # e
      PROVE  d \in older'[e] \/ e \in older'[d]
  <2>1. d \in older[e] \/ e \in older[d]
    BY <1>3, <1>5 DEF AgedInv
  <2> QED
    BY <1>1, <1>2, <1>5, <2>1
<1> QED
  BY <1>4, <1>5 DEF AgedInv

(* A turn of the loop grants and forgets, or leaves the ages alone.        *)
LEMMA TryAcquireAges ==
    ASSUME TypeOK, AgedInv, NEW c \in Calls, c \in Ticketed, NEW q, NEW n,
           NEW signalled \in BOOLEAN, TryAcquire(c, q, n, signalled), ticket' = ticket
    PROVE  AgedInv'
<1>1. CASE CanAcquire(c, q)
  <2>1. Forget(c) /\ Signal(c, "held")
    BY <1>1 DEF TryAcquire
  <2>2. Ticketed' = Ticketed \ {c}
    BY <2>1 DEF Signal, Ticketed
  <2> QED
    BY <2>1, <2>2, ForgetAges
<1>2. CASE ~ CanAcquire(c, q)
  <2>1. /\ UNCHANGED <<aged, older>>
        /\ IF signalled THEN Signal(c, "wait") ELSE pc' = [pc EXCEPT ![c] = "wait"] /\ UNCHANGED watch
    BY <1>2 DEF TryAcquire
  <2>2. Ticketed' = Ticketed
    BY <2>1 DEF Signal, Ticketed, TypeOK
  <2> QED
    BY <2>1, <2>2 DEF AgedInv, Ages
<1> QED
  BY <1>1, <1>2

(* So does every operation: a new ticket is the youngest.                  *)
LEMMA NextAges == TypeOK /\ QueueInv /\ AgedInv /\ [Next]_vars => AgedInv'
<1> SUFFICES ASSUME TypeOK, QueueInv, AgedInv, [Next]_vars PROVE AgedInv'
  OBVIOUS
<1>1. ASSUME NEW c \in Calls, NEW b \in Calls \cup {NoCall}, BuildTicket(c, b) PROVE AgedInv'
  <2>1. /\ Ticketed' = Ticketed \cup {c} /\ c \notin Ticketed /\ UNCHANGED <<aged, ticket>>
        /\ \A d \in Calls : older'[d] = IF d = c THEN {e \in Ticketed : Ages(c) /\ Ages(e)} ELSE older[d]
    BY <1>1 DEF BuildTicket, Ticketed, TypeOK
  <2>2. (\A d : Ages(d)' <=> Ages(d)) /\ Ticketed \subseteq Calls
    BY <2>1 DEF Ages, Ticketed
  <2>3. \A d \in aged' : d \in Ticketed' /\ Ages(d)' /\ older'[d] \subseteq aged'
    BY <2>1, <2>2 DEF AgedInv
  <2>4. ASSUME NEW d \in Ticketed', NEW e \in Ticketed', Ages(d)', Ages(e)', d # e
        PROVE  d \in older'[e] \/ e \in older'[d]
    <3>1. CASE d \in Ticketed /\ e \in Ticketed
      <4>1. d \in older[e] \/ e \in older[d]
        BY <2>2, <2>4, <3>1 DEF AgedInv
      <4> QED
        BY <2>1, <2>2, <3>1, <4>1
    <3>2. CASE d = c
      BY <2>1, <2>2, <2>4, <3>2
    <3>3. CASE e = c
      BY <2>1, <2>2, <2>4, <3>3
    <3> QED
      BY <2>1, <3>1, <3>2, <3>3
  <2> QED
    BY <2>3, <2>4 DEF AgedInv
<1>2. ASSUME NEW c \in Calls, Enqueue(c) \/ Retry(c) PROVE AgedInv'
  BY <1>2, TryAcquireAges DEF Enqueue, Retry, Ticketed
<1>3. ASSUME NEW c \in Calls, Leave(c) PROVE AgedInv'
  <2>1. Forget(c) /\ ticket' = ticket
    BY <1>3 DEF Leave
  <2>2. Ticketed' = Ticketed \ {c}
    BY <1>3 DEF Leave, Signal, Ticketed, TypeOK
  <2> QED
    BY <2>1, <2>2, ForgetAges
<1>4. ASSUME NEW c \in Calls, Age(c) PROVE AgedInv'
  BY <1>4 DEF Age, AgedInv, Ages, Ticketed
<1>5. ASSUME UNCHANGED <<ticket, aged, older>>, Ticketed' = Ticketed PROVE AgedInv'
  BY <1>5 DEF AgedInv, Ages
<1>6. ASSUME NEW c \in Calls,
             ContextDone(c) \/ Touch(c) \/ Release(c) \/ ReleaseBarrier(c)
                \/ Expire(c) \/ TimerFires(c) \/ ReleaseExpired(c)
      PROVE  AgedInv'
  <2>1. UNCHANGED <<ticket, aged, older>>
    BY <1>6 DEF ContextDone, Touch, Release, ReleaseBarrier, Expire, TimerFires, ReleaseExpired
  <2>2. Ticketed' = Ticketed
    BY <1>6 DEF ContextDone, Touch, Release, ReleaseBarrier, Expire, TimerFires, ReleaseExpired,
       Signal, Ticketed, TypeOK
  <2> QED
    BY <1>5, <2>1, <2>2
<1>7. ASSUME (\E w \in Watchers : LookIdle(w) \/ IdleContextDone(w)) \/ UNCHANGED vars
      PROVE  AgedInv'
  BY <1>5, <1>7 DEF LookIdle, IdleContextDone, Ticketed, vars
<1> QED
  BY <1>1, <1>2, <1>3, <1>4, <1>6, <1>7 DEF Next

(* In every run tickets age in the order they were built.                  *)
LEMMA AgedInOrder == Spec => []AgedInv
<1>1. Init => AgedInv
  BY DEF Init, AgedInv, Ticketed
<1> QED
  BY <1>1, NextAges, Safe, Queued, PTL DEF Spec, SafeInv

(* The scan looks at the tickets and at what is active.                    *)
LEMMA SameEligible ==
    ASSUME UNCHANGED <<ticket, activeVars>>
    PROVE  Eligible(queue)' = Eligible(queue')
<1>1. ActiveExclusive' = ActiveExclusive /\ ActiveQMI' = ActiveQMI
  BY DEF ActiveExclusive, ActiveQMI, OnQMIChannel, activeVars
<1>2. \A c : CanAcquireTransportNow(c)' <=> CanAcquireTransportNow(c)
  BY <1>1 DEF CanAcquireTransportNow, QMIWindowFull, OnQMIChannel, activeVars
<1>3. \A c : TransportWaitGatesQueue(c)' <=> TransportWaitGatesQueue(c)
  BY <1>1 DEF TransportWaitGatesQueue, QMIWindowFull, OnQMIChannel
<1>4. \A k : IsBlockedByActiveBarrier(k)' <=> IsBlockedByActiveBarrier(k)
  BY DEF IsBlockedByActiveBarrier, activeVars
<1>5. \A c : Stops(c)' <=> Stops(c)
  BY <1>2, <1>3, <1>4 DEF Stops
<1> QED
  BY <1>2, <1>4, <1>5 DEF Eligible

(* A caller looks at nothing but the queue, the tickets, what is active and*)
(* the selected transport.                                                 *)
LEMMA SameTests ==
    ASSUME UNCHANGED <<ticket, activeVars>>, NEW c,
           SelectedTransportIs(c, queue)' => SelectedTransportIs(c, queue')
    PROVE  CanAcquire(c, queue)' => CanAcquire(c, queue')
<1>1. \A k : IsBlockedByActiveBarrier(k)' <=> IsBlockedByActiveBarrier(k)
  BY DEF IsBlockedByActiveBarrier, activeVars
<1>2. \A d : IsBarrier(d)' <=> IsBarrier(d)
  BY DEF IsBarrier
<1>3. HasPendingBarrierAhead(c, queue)' <=> HasPendingBarrierAhead(c, queue')
  BY <1>2 DEF HasPendingBarrierAhead
<1>4. ActiveLeases' = ActiveLeases
  BY DEF ActiveLeases, ActiveOneshots, activeVars
<1>5. CanAcquireLease(c, queue)' => CanAcquireLease(c, queue')
  BY <1>1, <1>3, <1>4 DEF CanAcquireLease, QueueHeadIs, RoomForSession, activeVars
<1>6. CanAcquireBarrier(c, queue)' <=> CanAcquireBarrier(c, queue')
  BY <1>2, <1>4 DEF CanAcquireBarrier
<1> QED
  BY <1>2, <1>5, <1>6 DEF CanAcquire

(* With the same ages the same caller is selected.                         *)
LEMMA SameAgesSameTests ==
    ASSUME UNCHANGED <<ticket, aged, activeVars>>, NEW c
    PROVE  CanAcquire(c, queue)' => CanAcquire(c, queue')
<1>1. Eligible(queue)' = Eligible(queue')
  BY SameEligible
<1>2. SelectedTransportIs(c, queue)' <=> SelectedTransportIs(c, queue')
  BY <1>1 DEF SelectedTransportIs, Preferred, EligibleAgedNonAKA, EligibleAKA
<1> QED
  BY <1>2, SameTests

HasRival(c) == \E d \in ToSet(queue) : Rivals(c, d)

(* A turn of the loop of call c: c sleeps only if it cannot acquire, and   *)
(* the others only if nothing has changed for them.                        *)
LEMMA TryAcquireWakes ==
    ASSUME TypeOK, NEW c \in Calls, NEW q, NEW n, NEW signalled \in BOOLEAN,
           TryAcquire(c, q, n, signalled), signalled \/ q = queue, ticket' = ticket, NoMissedWakeup
    PROVE  NoMissedWakeup'
<1>1. CASE CanAcquire(c, q)
  BY <1>1 DEF TryAcquire, Signal, NoMissedWakeup
<1>2. CASE ~ CanAcquire(c, q)
  <2>1. queue' = q /\ UNCHANGED <<aged, older, activeVars>>
    BY <1>2 DEF TryAcquire
  <2>2. \A d : CanAcquire(d, queue)' => CanAcquire(d, q)
    BY <2>1, SameAgesSameTests
  <2>3. CASE signalled
    <3>1. Signal(c, "wait")
      BY <1>2, <2>3 DEF TryAcquire
    <3>2. \A d \in Calls : pc'[d] = "wait" => d = c
      BY <3>1 DEF Signal
    <3>3. \A w \in Watchers : watch'[w] # "wait"
      BY <3>1 DEF Signal
    <3> QED
      BY <1>2, <2>2, <3>2, <3>3 DEF NoMissedWakeup
  <2>4. CASE ~ signalled
    <3>1. pc' = [pc EXCEPT ![c] = "wait"] /\ watch' = watch /\ q = queue
      BY <1>2, <2>4 DEF TryAcquire
    <3>2. \A d \in Calls : pc'[d] = "wait" => d = c \/ pc[d] = "wait"
      BY <3>1 DEF TypeOK
    <3>3. \A d, e : Rivals(d, e)' <=> Rivals(d, e)
      BY <2>1, <3>1 DEF Rivals, Ages, IsAKATransport
    <3>4. IsIdle' <=> IsIdle
      BY <2>1, <3>1 DEF IsIdle, ActiveLeases, ActiveOneshots, activeVars
    <3> QED
      BY <1>2, <2>1, <2>2, <3>1, <3>2, <3>3, <3>4 DEF NoMissedWakeup
  <2> QED
    BY <2>3, <2>4
<1> QED
  BY <1>1, <1>2

(* A step that changes nothing the sleepers look at, and puts none to      *)
(* sleep but a WaitIdle caller that sees the arbiter busy.                 *)
LEMMA FrameKeepsAsleep ==
    ASSUME NoMissedWakeup, UNCHANGED <<queue, ticket, aged, activeVars>>,
           \A c \in ToSet(queue) : older'[c] = older[c],
           \A c \in Calls : pc'[c] = "wait" => pc[c] = "wait",
           \A w \in Watchers : watch'[w] = "wait" => watch[w] = "wait" \/ ~ IsIdle
    PROVE  NoMissedWakeup'
<1>1. \A d : CanAcquire(d, queue)' => CanAcquire(d, queue)
  BY SameAgesSameTests
<1>2. IsIdle' <=> IsIdle
  BY DEF IsIdle, ActiveLeases, ActiveOneshots, activeVars
<1>3. \A c, d : Rivals(c, d)' <=> Rivals(c, d)
  BY DEF Rivals, Ages, IsAKATransport, ToSet
<1> QED
  BY <1>1, <1>2, <1>3 DEF NoMissedWakeup

(* A ticket that ages gives the turn only to one that has aged, and only if*)
(* that has a rival: otherwise whoever is selected now was so before.      *)
LEMMA AgeMovesTurn ==
    ASSUME TypeOK, QueueInv, AgedInv, AgedInv', NEW x \in Calls, Age(x), NEW c \in Calls,
           SelectedTransportIs(c, queue)', ~ (c \in aged' /\ HasRival(c))
    PROVE  SelectedTransportIs(c, queue)
<1> DEFINE E == Eligible(queue)
           K == EligibleAKA(queue)
           A == {i \in E \ K : queue[i] \in aged}
           B == {i \in E \ K : queue[i] \in aged'}
<1>0. /\ UNCHANGED <<queue, ticket, older, activeVars>> /\ aged \subseteq aged'
      /\ queue \in Seq(Calls) /\ DOMAIN queue = 1..Len(queue) /\ Len(queue) \in Nat
  BY LenProperties DEF Age, TypeOK
<1>1. Eligible(queue)' = E /\ EligibleAKA(queue)' = K
  BY <1>0, SameEligible DEF EligibleAKA
<1>2. EligibleAgedNonAKA(queue) = A /\ EligibleAgedNonAKA(queue)' = B
  BY <1>0, <1>1 DEF EligibleAgedNonAKA
<1>3. /\ Preferred(queue) = IF A # {} THEN A ELSE IF K # {} THEN K ELSE E
      /\ Preferred(queue)' = IF B # {} THEN B ELSE IF K # {} THEN K ELSE E
  BY <1>1, <1>2 DEF Preferred
<1>4. A \subseteq B /\ B \subseteq E /\ K \subseteq E
  BY <1>0 DEF EligibleAKA
<1>5. \A i \in E : /\ i \in DOMAIN queue /\ queue[i] \in ToSet(queue) /\ queue[i] \in Ticketed
                   /\ ticket[queue[i]].leaseType = "transport"
  <2>1. \A i \in E : i \in DOMAIN queue /\ ticket[queue[i]].leaseType = "transport"
    BY <1>0 DEF Eligible, Stops
  <2> QED
    BY <2>1 DEF ToSet, QueueInv, Waiting, Ticketed
<1>6. \A i \in E \ K : Ages(queue[i])
  BY <1>5 DEF EligibleAKA, Ages
<1>7. PICK i \in Preferred(queue)' : queue[i] = c /\ \A j \in Preferred(queue)' : i <= j
  BY <1>0 DEF SelectedTransportIs
<1> HIDE DEF E, K
<1>8. CASE B = {}
  <2>1. Preferred(queue)' = Preferred(queue)
    BY <1>3, <1>4, <1>8
  <2> QED
    BY <1>7, <2>1 DEF SelectedTransportIs
<1>9. CASE B # {}
  <2>1. i \in B /\ \A j \in B : i <= j
    BY <1>3, <1>7, <1>9
  <2>2. c \in aged' /\ ~ HasRival(c) /\ Ages(c) /\ c \in Ticketed /\ i \in E
    BY <1>4, <1>5, <1>6, <1>7, <2>1
  <2>3. K = {}
    <3> SUFFICES ASSUME NEW k \in K PROVE FALSE
      OBVIOUS
    <3>1. IsAKATransport(queue[k]) /\ queue[k] \in ToSet(queue)
      BY <1>4, <1>5 DEF K, EligibleAKA, IsAKATransport
    <3> QED
      BY <2>2, <3>1 DEF HasRival, Rivals
  <2>4. ASSUME NEW j \in E, j # i
        PROVE  /\ j < i => queue[j] \in older[c]
               /\ i < j => c \in older[queue[j]]
    <3>1. queue[j] # c /\ Ages(queue[j]) /\ queue[j] \in Ticketed /\ j \in DOMAIN queue /\ i \in DOMAIN queue
      BY <1>5, <1>6, <1>7, <2>2, <2>3, <2>4 DEF QueueInv, EachOnce
    <3>2. c \in older[queue[j]] \/ queue[j] \in older[c]
      BY <2>2, <3>1 DEF AgedInv
    <3>3. ~ Rivals(c, queue[j])
      BY <2>2, <2>4, <1>5 DEF HasRival
    <3>4. ASSUME j < i PROVE c \notin older[queue[j]]
      BY <1>7, <3>1, <3>3, <3>4 DEF Rivals
    <3>5. ASSUME i < j PROVE queue[j] \notin older[c]
      BY <1>7, <3>1, <3>3, <3>5 DEF Rivals
    <3> QED
      BY <3>2, <3>4, <3>5
  <2>5. \A j \in E : i <= j
    <3> SUFFICES ASSUME NEW j \in E, ~ (i <= j) PROVE FALSE
      OBVIOUS
    <3>1. j < i /\ i \in Nat /\ j \in Nat
      BY <1>0, <1>5, <2>2
    <3>2. queue[j] \in older[c]
      BY <2>4, <3>1
    <3>3. queue[j] \in aged'
      BY <1>0, <2>2, <3>2 DEF AgedInv
    <3>4. j \in B
      BY <2>3, <3>3
    <3> QED
      BY <2>1, <3>4
  <2>6. CASE A = {}
    BY <1>3, <1>7, <2>2, <2>3, <2>5, <2>6 DEF SelectedTransportIs
  <2>7. CASE A # {}
    <3>1. PICK k \in A : TRUE
      BY <2>7
    <3>2. i \in A
      <4>1. CASE k = i
        BY <3>1, <4>1
      <4>2. CASE k # i
        <5>1. i < k /\ k \in E
          BY <1>0, <1>4, <1>5, <2>2, <2>5, <3>1, <4>2
        <5>2. c \in older[queue[k]]
          BY <2>4, <4>2, <5>1
        <5>3. c \in aged
          <6>1. queue[k] \in aged
            BY <3>1
          <6> QED
            BY <5>2, <6>1 DEF AgedInv
        <5> QED
          BY <1>7, <2>2, <2>3, <5>3
      <4> QED
        BY <4>1, <4>2
    <3> QED
      BY <1>3, <1>4, <1>7, <2>5, <2>7, <3>2 DEF SelectedTransportIs
  <2> QED
    BY <2>6, <2>7
<1> QED
  BY <1>8, <1>9

(* So a ticket that ages makes nobody oversleep but one with a rival.      *)
LEMMA AgeKeepsAsleep ==
    ASSUME TypeOK, QueueInv, AgedInv, AgedInv', NoMissedWakeup, NEW x \in Calls, Age(x)
    PROVE  NoMissedWakeup'
<1>1. UNCHANGED <<queue, ticket, pc, older, activeVars, watch>> /\ aged \subseteq aged'
  BY DEF Age
<1>2. \A d, e : Rivals(d, e)' <=> Rivals(d, e)
  BY <1>1 DEF Rivals, Ages, IsAKATransport
<1>3. IsIdle' <=> IsIdle
  BY <1>1 DEF IsIdle, ActiveLeases, ActiveOneshots, activeVars
<1>4. ASSUME NEW c \in Calls, pc[c] = "wait", CanAcquire(c, queue)'
      PROVE  c \in aged' /\ HasRival(c)
  <2> SUFFICES ASSUME ~ (c \in aged' /\ HasRival(c)) PROVE FALSE
    OBVIOUS
  <2>1. SelectedTransportIs(c, queue)' => SelectedTransportIs(c, queue)
    BY AgeMovesTurn
  <2>2. CanAcquire(c, queue)
    BY <1>1, <1>4, <2>1, SameTests
  <2> QED
    BY <1>1, <1>4, <2>2 DEF NoMissedWakeup, HasRival
<1>5. \A c \in Calls : pc'[c] = "wait" /\ CanAcquire(c, queue)' =>
          c \in aged' /\ \E d \in ToSet(queue') : Rivals(c, d)'
  BY <1>1, <1>2, <1>4 DEF HasRival
<1> QED
  BY <1>1, <1>3, <1>5 DEF NoMissedWakeup

(* Every operation that changes what the sleepers look at wakes them all.  *)
LEMMA NextWakes ==
    TypeOK /\ TypeOK' /\ QueueInv /\ AgedInv /\ AgedInv' /\ NoMissedWakeup /\ [Next]_vars => NoMissedWakeup'
<1> SUFFICES ASSUME TypeOK, TypeOK', QueueInv, AgedInv, AgedInv', NoMissedWakeup, [Next]_vars PROVE NoMissedWakeup'
  OBVIOUS
<1>1. ASSUME NEW c \in Calls, Enqueue(c) \/ Retry(c) PROVE NoMissedWakeup'
  BY <1>1, TryAcquireWakes DEF Enqueue, Retry
<1>2. ASSUME NEW c \in Calls, NEW s \in CallStates \ {"wait"}, Signal(c, s) PROVE NoMissedWakeup'
  BY <1>2 DEF Signal, NoMissedWakeup
<1>3. ASSUME NEW c \in Calls, Leave(c) PROVE NoMissedWakeup'
  <2>1. Contains(queue, c)
    <3>1. c \in ToSet(queue)
      BY <1>3 DEF Leave, QueueInv, Waiting
    <3> QED
      BY <3>1, LenProperties DEF Contains, ToSet, TypeOK
  <2> QED
    BY <1>2, <1>3, <2>1 DEF Leave, CallStates
<1>4. ASSUME NEW c \in Calls, Release(c) PROVE NoMissedWakeup'
  <2>1. CASE c \in ActiveLeases
    BY <1>2, <1>4, <2>1 DEF Release, CallStates
  <2>2. CASE c \notin ActiveLeases
    <3>1. /\ UNCHANGED <<queue, ticket, aged, older, activeVars, watch>>
          /\ pc' = [pc EXCEPT ![c] = "done"]
      BY <1>4, <2>2 DEF Release, activeVars
    <3> QED
      BY <3>1, FrameKeepsAsleep DEF TypeOK
  <2> QED
    BY <2>1, <2>2
<1>5. ASSUME NEW c \in Calls, ReleaseBarrier(c) PROVE NoMissedWakeup'
  BY <1>2, <1>5 DEF ReleaseBarrier, CallStates
<1>6. ASSUME NEW c \in Calls, ReleaseExpired(c) PROVE NoMissedWakeup'
  <2>1. CASE c \in ActiveLeases /\ Overdue(c)
    <3>1. Signal(c, pc[c])
      BY <1>6, <2>1 DEF ReleaseExpired
    <3>2. pc[c] \in CallStates \ {"wait"}
      BY <2>1 DEF QueueInv, Granteds, Held, TypeOK
    <3> QED
      BY <1>2, <3>1, <3>2
  <2>2. CASE ~ (c \in ActiveLeases /\ Overdue(c))
    <3>1. UNCHANGED <<queue, ticket, aged, older, activeVars, pc, watch>>
      BY <1>6, <2>2 DEF ReleaseExpired, activeVars
    <3> QED
      BY <3>1, FrameKeepsAsleep
  <2> QED
    BY <2>1, <2>2
<1>7. ASSUME NEW c \in Calls, ContextDone(c) \/ Touch(c) \/ Expire(c) \/ TimerFires(c) PROVE NoMissedWakeup'
  <2>1. /\ UNCHANGED <<queue, ticket, aged, older, activeVars, watch>>
        /\ \A d \in Calls : pc'[d] = "wait" => pc[d] = "wait"
    BY <1>7 DEF ContextDone, Touch, Expire, TimerFires, TypeOK
  <2> QED
    BY <2>1, FrameKeepsAsleep
<1>8. ASSUME NEW c \in Calls, Age(c) PROVE NoMissedWakeup'
  BY <1>8, AgeKeepsAsleep
<1>10. ASSUME NEW c \in Calls, NEW b \in Calls \cup {NoCall}, BuildTicket(c, b) PROVE NoMissedWakeup'
  <2>1. /\ UNCHANGED <<queue, ticket, aged, activeVars, watch>> /\ pc[c] = "idle"
        /\ \A d \in Calls : pc'[d] = "wait" => pc[d] = "wait"
        /\ \A d \in Calls \ {c} : older'[d] = older[d]
    BY <1>10 DEF BuildTicket, TypeOK
  <2>2. c \notin ToSet(queue) /\ ToSet(queue) \subseteq Calls
    BY <2>1 DEF QueueInv, Waiting
  <2> QED
    BY <2>1, <2>2, FrameKeepsAsleep
<1>9. ASSUME (\E w \in Watchers : LookIdle(w) \/ IdleContextDone(w)) \/ UNCHANGED vars PROVE NoMissedWakeup'
  <2>1. /\ UNCHANGED <<queue, ticket, aged, older, activeVars, pc>>
        /\ \A w \in Watchers : watch'[w] = "wait" => watch[w] = "wait" \/ ~ IsIdle
    BY <1>9 DEF LookIdle, IdleContextDone, vars, activeVars, TypeOK
  <2> QED
    BY <2>1, FrameKeepsAsleep
<1> QED
  BY <1>1, <1>3, <1>4, <1>5, <1>6, <1>7, <1>8, <1>9, <1>10 DEF Next

(* Whatever is asked for, nobody sleeps through its turn but a transport   *)
(* that has aged beside a rival, and no WaitIdle caller does (signalLocked).*)
THEOREM WokenUnlessRivals == Spec => []NoMissedWakeup
<1>1. Init => NoMissedWakeup
  BY DEF Init, NoMissedWakeup
<1> QED
  BY <1>1, NextWakes, Safe, Queued, AgedInOrder, PTL DEF Spec, SafeInv

(* A session, a one-shot, a barrier and a transport for authentication     *)
(* never sleep through their turn, however many calls of every kind there  *)
(* are and in whatever order they age (selectedTransportLocked).           *)
THEOREM OnlyTheAgedOversleep ==
    Spec => [](\A c \in Calls : ~ Ages(c) /\ pc[c] = "wait" => ~ CanAcquire(c, queue))
<1>1. NoMissedWakeup /\ AgedInv => \A c \in Calls : ~ Ages(c) /\ pc[c] = "wait" => ~ CanAcquire(c, queue)
  BY DEF NoMissedWakeup, AgedInv
<1> QED
  BY <1>1, WokenUnlessRivals, AgedInOrder, PTL
=============================================================================
