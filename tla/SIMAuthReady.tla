---------------------------- MODULE SIMAuthReady ----------------------------
(***************************************************************************)
(* The SIMAuth readiness gate of the APDU arbiter,                         *)
(* internal/apduarbiter/simauth_ready.go.  After an eSIM switch the first  *)
(* caller of WaitSIMAuthReady probes the card; the callers that come while *)
(* it probes wait for its answer; InvalidateSIMAuthReady (a switch tears   *)
(* down the logical channels) makes every earlier answer worthless.        *)
(***************************************************************************)
EXTENDS Naturals, FiniteSets

CONSTANTS Calls,             \* the calls of WaitSIMAuthReady
          NoCall,
          MaxInvalidations   \* bound on the calls of InvalidateSIMAuthReady

ASSUME CallsAssumption == NoCall \notin Calls
ASSUME BoundAssumption == MaxInvalidations \in Nat

VARIABLES generation, ready,
          probing,
          waitC,      \* the probing call that will close a.simAuthReady.waitC, or NoCall: nil
          pc,         \* where each call is
          seen,       \* the generation a call read before its probe
          waitsFor,   \* the channel a waiting call sleeps on, named by its prober
          expired,    \* calls whose context has ended
          answeredIn  \* ghost: the generation in which the probe behind ready began

vars == <<generation, ready, probing, waitC, pc, seen, waitsFor, expired, answeredIn>>
gate == <<generation, ready, probing, waitC, seen, answeredIn>>

CallStates == {"idle", "look", "wait", "probe", "ok", "failed"}

Init ==
    /\ generation = 0 /\ ready = FALSE /\ probing = FALSE
    /\ waitC = NoCall
    /\ pc = [c \in Calls |-> "idle"]
    /\ seen = [c \in Calls |-> 0]
    /\ waitsFor = [c \in Calls |-> NoCall]
    /\ expired = {}
    /\ answeredIn = 0

(* The generation a probe that starts now will answer for.                 *)
ProbedGeneration == generation

Call(c) ==
    /\ pc[c] = "idle"
    /\ pc' = [pc EXCEPT ![c] = "look"]
    /\ UNCHANGED <<gate, waitsFor, expired>>

ContextEnds(c) ==
    /\ pc[c] \in {"look", "wait", "probe"} /\ c \notin expired
    /\ expired' = expired \cup {c}
    /\ UNCHANGED <<gate, pc, waitsFor>>

(* The top of the loop, up to the probe, the sleep or the return.          *)
Look(c) ==
    /\ pc[c] = "look"
    /\ \/ /\ c \in expired
          /\ pc' = [pc EXCEPT ![c] = "failed"]
          /\ UNCHANGED <<gate, waitsFor>>
       \/ /\ c \notin expired /\ ready
          /\ pc' = [pc EXCEPT ![c] = "ok"]
          /\ UNCHANGED <<gate, waitsFor>>
       \/ /\ c \notin expired /\ ~ ready /\ probing
          /\ pc' = [pc EXCEPT ![c] = "wait"]
          /\ waitsFor' = [waitsFor EXCEPT ![c] = waitC]
          /\ UNCHANGED gate
       \/ /\ c \notin expired /\ ~ ready /\ ~ probing
          /\ pc' = [pc EXCEPT ![c] = "probe"]
          /\ seen' = [seen EXCEPT ![c] = ProbedGeneration]
          /\ probing' = TRUE /\ waitC' = c
          /\ UNCHANGED <<generation, ready, answeredIn, waitsFor>>
    /\ UNCHANGED expired

GiveUp(c) ==
    /\ pc[c] = "wait" /\ c \in expired
    /\ pc' = [pc EXCEPT ![c] = "failed"]
    /\ waitsFor' = [waitsFor EXCEPT ![c] = NoCall]
    /\ UNCHANGED <<gate, expired>>

(* Mutant: an answer to an older generation counts.                        *)
StaleMutant(c) == seen[c] > generation

(* Someone invalidated the gate while c was probing.                       *)
Stale(c) == seen[c] # generation

(* Mutant: the prober returns its stale success instead of probing again.  *)
AfterProbeMutant(c, success) == IF success THEN "ok" ELSE "failed"

AfterProbe(c, success) ==
    IF ~ success THEN "failed" ELSE IF Stale(c) THEN "look" ELSE "ok"

(* Mutant: the waiters are woken only by an answer that counts.            *)
WokenMutant(c) ==
    IF Stale(c) THEN {} ELSE {d \in Calls : pc[d] = "wait" /\ waitsFor[d] = c}

(* The sleepers that close(waitC) wakes.                                   *)
Woken(c) ==
    IF waitC = c THEN {d \in Calls : pc[d] = "wait" /\ waitsFor[d] = c} ELSE {}

(* The probe of c returns.                                                 *)
ProbeReturns(c, success) ==
    /\ pc[c] = "probe"
    /\ ready' = IF Stale(c) THEN ready ELSE success
    /\ answeredIn' = IF ~ Stale(c) /\ success THEN seen[c] ELSE answeredIn
    /\ probing' = FALSE
    /\ waitC' = IF waitC = c THEN NoCall ELSE waitC
    /\ pc' = [d \in Calls |-> IF d = c THEN AfterProbe(c, success)
                              ELSE IF d \in Woken(c) THEN "look" ELSE pc[d]]
    /\ waitsFor' = [d \in Calls |-> IF d \in Woken(c) THEN NoCall ELSE waitsFor[d]]
    /\ UNCHANGED <<generation, seen, expired>>

Invalidate ==
    /\ generation < MaxInvalidations
    /\ generation' = generation + 1
    /\ ready' = FALSE
    /\ UNCHANGED <<probing, waitC, pc, seen, waitsFor, expired, answeredIn>>

Next ==
    \/ \E c \in Calls :
        \/ Call(c) \/ ContextEnds(c) \/ Look(c) \/ GiveUp(c)
        \/ \E success \in BOOLEAN : ProbeReturns(c, success)
    \/ Invalidate

Spec == Init /\ [][Next]_vars

(* A goroutine that can run does, and a probe returns: it talks to the SIM *)
(* with a timeout of its own.                                              *)
Fairness ==
    \A c \in Calls : WF_vars(Look(c)) /\ WF_vars(\E s \in BOOLEAN : ProbeReturns(c, s))

FairSpec == Spec /\ Fairness

-----------------------------------------------------------------------------
(* Types of the gate and of the local state of the calls.                  *)
TypeOK ==
    /\ generation \in 0..MaxInvalidations /\ answeredIn \in 0..MaxInvalidations
    /\ ready \in BOOLEAN /\ probing \in BOOLEAN
    /\ waitC \in Calls \cup {NoCall}
    /\ pc \in [Calls -> CallStates]
    /\ seen \in [Calls -> 0..MaxInvalidations]
    /\ waitsFor \in [Calls -> Calls \cup {NoCall}]
    /\ expired \subseteq Calls

(* The gate is open only on an answer of the current generation: a probe   *)
(* that succeeded, begun after the last InvalidateSIMAuthReady.            *)
ReadyIsFresh == ready => answeredIn = generation

(* One probe at a time: it is running exactly while probing says so, and   *)
(* the channel the others sleep on is its own (WaitSIMAuthReady coalesces).*)
OneProbe == {c \in Calls : pc[c] = "probe"} = IF probing THEN {waitC} ELSE {}

(* A sleeping call sleeps on the channel of a probe still to return, so it *)
(* is woken whatever that probe answers.                                   *)
SleeperHasProbe == \A c \in Calls : pc[c] = "wait" => waitsFor[c] # NoCall /\ pc[waitsFor[c]] = "probe"

(* A call that is told "ready" is told so while the gate is open: never on *)
(* an answer that an invalidation has overtaken.                           *)
OkMeansReady == [][\A c \in Calls : pc[c] # "ok" /\ pc'[c] = "ok" => ready']_vars

(* Every call comes to an end, also when it shares other calls' probes.    *)
CallsReturn == \A c \in Calls : (pc[c] = "look") ~> (pc[c] \in {"ok", "failed"})
=============================================================================
