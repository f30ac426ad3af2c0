------------------------ MODULE SIMAuthReady_proofs ------------------------
(***************************************************************************)
(* Proofs about the SIMAuth readiness gate, for any number of calls and    *)
(* any bound on the invalidations.                                         *)
(***************************************************************************)
EXTENDS SIMAuthReady, TLAPS

(* A stale answer is never taken for a fresh one: what a running probe has *)
(* seen is a generation that has been, and ready speaks of the current one *)
Inv == TypeOK /\ ReadyIsFresh /\ OneProbe /\ SleeperHasProbe

USE CallsAssumption, BoundAssumption

(* The gate starts closed, with nobody probing or asleep (Arbiter's zero   *)
(* simAuthReadyState).                                                     *)
LEMMA InitInv == Init => Inv
<1> SUFFICES ASSUME Init PROVE Inv
    OBVIOUS
<1>1. TypeOK
  <2>1. 0 \in 0..MaxInvalidations
        OBVIOUS
  <2>2. ready \in BOOLEAN /\ probing \in BOOLEAN
        BY DEF Init
  <2>3. /\ waitC \in Calls \cup {NoCall} /\ expired \subseteq Calls
        /\ pc \in [Calls -> CallStates]
        BY DEF Init, CallStates
  <2>4. /\ waitsFor \in [Calls -> Calls \cup {NoCall}]
        /\ seen \in [Calls -> 0..MaxInvalidations]
        BY <2>1 DEF Init
  <2>5. generation \in 0..MaxInvalidations /\ answeredIn \in 0..MaxInvalidations
        BY <2>1 DEF Init
  <2> QED BY <2>2, <2>3, <2>4, <2>5 DEF TypeOK
<1>2. ReadyIsFresh /\ SleeperHasProbe
    BY DEF Init, ReadyIsFresh, SleeperHasProbe
<1>3. {c \in Calls : pc[c] = "probe"} = {}
    BY DEF Init
<1> QED BY <1>1, <1>2, <1>3 DEF Inv, OneProbe, Init

(* Every step of WaitSIMAuthReady and of InvalidateSIMAuthReady keeps the  *)
(* gate typed, fresh and with one probe.                                   *)
LEMMA NextInv == Inv /\ [Next]_vars => Inv'
<1> SUFFICES ASSUME Inv, [Next]_vars PROVE Inv'
    OBVIOUS
<1> USE DEF Inv, TypeOK, ReadyIsFresh, OneProbe, SleeperHasProbe, CallStates, gate
<1>1. ASSUME NEW c \in Calls, Call(c) PROVE Inv'
    BY <1>1 DEF Call
<1>2. ASSUME NEW c \in Calls, ContextEnds(c) PROVE Inv'
    BY <1>2 DEF ContextEnds
<1>3. ASSUME NEW c \in Calls, Look(c) PROVE Inv'
  <2>1. CASE c \in expired \/ ready \/ probing
    <3>1. TypeOK'
        BY <1>3, <2>1 DEF Look
    <3>2. \A d \in Calls : pc'[d] = "probe" <=> pc[d] = "probe"
        BY <1>3, <2>1 DEF Look
    <3>3. UNCHANGED gate
        BY <1>3, <2>1 DEF Look
    <3>4. OneProbe'
        BY <3>2, <3>3
    <3>5. probing => pc[waitC] = "probe" /\ waitC \in Calls
        OBVIOUS
    <3>6. SleeperHasProbe'
      <4> SUFFICES ASSUME NEW d \in Calls, pc'[d] = "wait"
                   PROVE  waitsFor'[d] # NoCall /\ pc'[waitsFor'[d]] = "probe"
          OBVIOUS
      <4>1. CASE pc[d] = "wait" /\ waitsFor'[d] = waitsFor[d]
            BY <4>1, <3>2
      <4>2. CASE d = c /\ probing /\ waitsFor'[c] = waitC
            BY <4>2, <3>2, <3>5
      <4>3. (pc[d] = "wait" /\ waitsFor'[d] = waitsFor[d])
              \/ (d = c /\ probing /\ waitsFor'[c] = waitC)
            BY <1>3, <2>1 DEF Look
      <4> QED BY <4>1, <4>2, <4>3
    <3> QED BY <3>1, <3>3, <3>4, <3>6
  <2>2. CASE c \notin expired /\ ~ ready /\ ~ probing
    <3>1. TypeOK'
      <4>1. ready' \in BOOLEAN /\ probing' \in BOOLEAN
        BY <1>3, <2>2 DEF Look
      <4>2. /\ generation' \in 0..MaxInvalidations /\ answeredIn' \in 0..MaxInvalidations
            /\ waitC' \in Calls \cup {NoCall} /\ pc' \in [Calls -> CallStates]
            /\ seen' \in [Calls -> 0..MaxInvalidations]
            /\ waitsFor' \in [Calls -> Calls \cup {NoCall}] /\ expired' \subseteq Calls
        BY <1>3, <2>2 DEF Look, ProbedGeneration
      <4> QED BY <4>1, <4>2
    <3>2. ReadyIsFresh' /\ SleeperHasProbe'
      <4>1. {d \in Calls : pc[d] = "probe"} = {}
        BY <2>2
      <4>2. \A d \in Calls : pc[d] # "wait"
        BY <4>1
      <4>3. \A d \in Calls : pc'[d] # "wait"
        BY <1>3, <2>2, <4>2 DEF Look
      <4>4. ReadyIsFresh'
        BY <1>3, <2>2 DEF Look
      <4> QED BY <4>3, <4>4
    <3>3. {d \in Calls : pc'[d] = "probe"} = {c}
        BY <1>3, <2>2 DEF Look
    <3>4. probing' /\ waitC' = c
        BY <1>3, <2>2 DEF Look
    <3> QED BY <3>1, <3>2, <3>3, <3>4
  <2> QED BY <2>1, <2>2
<1>4. ASSUME NEW c \in Calls, GiveUp(c) PROVE Inv'
    BY <1>4 DEF GiveUp
<1>5. ASSUME NEW c \in Calls, NEW success \in BOOLEAN, ProbeReturns(c, success) PROVE Inv'
    BY <1>5 DEF ProbeReturns, AfterProbe, Woken, Stale
<1>6. CASE Invalidate
  <2>1. generation' \in 0..MaxInvalidations
        BY <1>6 DEF Invalidate
  <2>2. UNCHANGED <<probing, waitC, pc, seen, waitsFor, expired, answeredIn>> /\ ready' = FALSE
        BY <1>6 DEF Invalidate
  <2>3. TypeOK'
        BY <2>1, <2>2
  <2>4. ReadyIsFresh' /\ OneProbe' /\ SleeperHasProbe'
        BY <2>2
  <2> QED BY <2>3, <2>4
<1>7. CASE UNCHANGED vars
    BY <1>7 DEF vars
<1> QED BY <1>1, <1>2, <1>3, <1>4, <1>5, <1>6, <1>7 DEF Next

(* The inductive invariant holds throughout.                               *)
LEMMA Invariant == Spec => []Inv
BY InitInv, NextInv, PTL DEF Spec

(* The fields of simAuthReadyState and the calls' own state keep their     *)
(* types.                                                                  *)
THEOREM GateTyped == Spec => []TypeOK
<1>1. Inv => TypeOK
    BY DEF Inv
<1> QED BY <1>1, Invariant, PTL

(* An open gate rests on a probe begun after the last                      *)
(* InvalidateSIMAuthReady.                                                 *)
THEOREM OpenGateIsFresh == Spec => []ReadyIsFresh
<1>1. Inv => ReadyIsFresh
    BY DEF Inv
<1> QED BY <1>1, Invariant, PTL

(* WaitSIMAuthReady runs one probe at a time, and whoever waits waits for  *)
(* the one that runs: no call is left asleep on a channel nobody closes.   *)
THEOREM ProbesCoalesce == Spec => [](OneProbe /\ SleeperHasProbe)
<1>1. Inv => OneProbe /\ SleeperHasProbe
    BY DEF Inv
<1> QED BY <1>1, Invariant, PTL

(* No call returns "ready" on an answer an invalidation has overtaken.     *)
THEOREM OkIsNeverStale == Spec => OkMeansReady
<1>1. Inv /\ [Next]_vars => [\A c \in Calls : pc[c] # "ok" /\ pc'[c] = "ok" => ready']_vars
  <2> SUFFICES ASSUME Inv, Next, NEW c \in Calls, pc[c] # "ok", pc'[c] = "ok" PROVE ready'
      OBVIOUS
  <2> USE DEF Inv, TypeOK, gate
  <2>1. ASSUME NEW d \in Calls, Call(d) \/ ContextEnds(d) \/ GiveUp(d) PROVE ready'
      BY <2>1 DEF Call, ContextEnds, GiveUp
  <2>2. ASSUME NEW d \in Calls, Look(d) PROVE ready'
      BY <2>2 DEF Look
  <2>3. ASSUME NEW d \in Calls, NEW success \in BOOLEAN, ProbeReturns(d, success) PROVE ready'
      BY <2>3 DEF ProbeReturns, AfterProbe, Woken
  <2>4. CASE Invalidate
      BY <2>4 DEF Invalidate
  <2> QED BY <2>1, <2>2, <2>3, <2>4 DEF Next
<1> QED BY <1>1, Invariant, PTL DEF Spec, OkMeansReady
=============================================================================
