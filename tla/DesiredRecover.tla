---------------------------- MODULE DesiredRecover ----------------------------
(* How the VoWiFi runtime of a device follows the policy of its card: the   *)
(* reconciler, which looks every half minute (pool_vowifi_reconcile.go), the *)
(* store that keeps one recover in flight and waits after a failure         *)
(* (recover_state.go), and the recovers it submits (reconcile.go).  The     *)
(* lifecycle controller that runs them one at a time is VoWiFiHost's; here  *)
(* a start is one step.  The identity of the card is known.                 *)
EXTENDS Naturals

CONSTANTS
    Recovers,      \* bound: the goroutines that submit recovers
    Absent         \* a device the store has no state of

VARIABLES
    mark,          \* the token of the eSIM switch in progress; 0: none
    desired,       \* the card's policy wants VoWiFi
    airplane,      \* it wants flight mode where it does not want VoWiFi
    runtime,       \* the device's VoWiFi: down or up
    radio,         \* its operating mode: online, low (ModeLowPower), off (ModeRFOff)
    store,         \* DesiredRecoverStore.states[device]
    candidate,     \* the reconciler has found the device wanting
    recovers       \* the goroutines of ScheduleDesiredRecover()

recoverVars == <<store, candidate, recovers>>
policy == <<desired, airplane>>
vars == <<mark, policy, runtime, radio, store, candidate, recovers>>

Switching == mark # 0
States == [inFlight : BOOLEAN, waiting : BOOLEAN]
InFlight == store # Absent /\ store.inFlight
Waiting == store # Absent /\ store.waiting

Init ==
    /\ mark = 0 /\ desired \in BOOLEAN /\ airplane \in BOOLEAN
    /\ runtime = "down" /\ radio = IF airplane /\ ~ desired THEN "off" ELSE "online"
    /\ store = Absent /\ candidate = FALSE /\ recovers = [r \in Recovers |-> "idle"]

(* The tunnel is up, or was already; preparing it puts a radio that is      *)
(* online into flight mode, where it stays if the start then fails.         *)
Prepared == IF radio = "online" THEN "off" ELSE radio
Up == runtime' = "up" /\ radio' = IF runtime = "up" THEN radio ELSE Prepared
FailsToStart == radio' \in {radio, Prepared} /\ UNCHANGED runtime

(* ScheduleDesiredRecover(), with Begin(): one in flight, none while it     *)
(* waits.                                                                   *)
ScheduleDesiredRecover ==
    IF runtime = "up" \/ InFlight \/ Waiting
    THEN UNCHANGED <<store, recovers>>
    ELSE \E r \in Recovers :
            /\ recovers[r] = "idle"
            /\ store' = [inFlight |-> TRUE, waiting |-> FALSE]
            /\ recovers' = [recovers EXCEPT ![r] = "queued"]

Clear == store' = Absent /\ UNCHANGED recovers

(* resolveAndApplyPolicy(): flight mode is entered from online only; with   *)
(* VoWiFi it is for the recover to enter.  It asks nobody whether the       *)
(* device is being switched.                                                *)
ApplyPolicy(wanted, plane) ==
    IF wanted THEN ScheduleDesiredRecover /\ UNCHANGED radio
    ELSE Clear /\ radio' = IF plane THEN Prepared ELSE "online"

(* reconcileDesiredVoWiFiOnce() collects the devices and schedules them     *)
(* afterwards.                                                              *)
ShouldReconcile ==
    /\ ~ candidate /\ ~ Switching /\ runtime = "down"
    /\ IF desired THEN candidate' = TRUE /\ UNCHANGED <<store, recovers>>
       ELSE store # Absent /\ Clear /\ UNCHANGED candidate
    /\ UNCHANGED <<mark, policy, runtime, radio>>

Reconcile ==
    /\ candidate /\ candidate' = FALSE
    /\ ScheduleDesiredRecover
    /\ UNCHANGED <<mark, policy, runtime, radio>>

(* Recover(), once it is its turn: one that finds the device up has nothing *)
(* to do, one that finds it switching is refused.                           *)
RecoverSucceeds(r) ==
    /\ recovers[r] = "queued" /\ runtime = "down" /\ ~ Switching
    /\ Up /\ recovers' = [recovers EXCEPT ![r] = "cleared"]
    /\ UNCHANGED <<mark, policy, store, candidate>>

RecoverEnds(r) ==
    /\ recovers[r] = "queued"
    /\ \/ /\ runtime = "up" /\ recovers' = [recovers EXCEPT ![r] = "cleared"]
          /\ UNCHANGED <<runtime, radio>>
       \/ /\ runtime = "down" /\ Switching /\ recovers' = [recovers EXCEPT ![r] = "failed"]
          /\ UNCHANGED <<runtime, radio>>
       \/ /\ runtime = "down" /\ ~ Switching /\ FailsToStart
          /\ recovers' \in {[recovers EXCEPT ![r] = o] :
                               o \in {"failed", "cleared"}}   \* cleared: the country bars it
    /\ UNCHANGED <<mark, policy, store, candidate>>

(* Mutant: a failure leaves the mark of the recover in flight.              *)
RecoverResultMutant(r) ==
    /\ recovers[r] \in {"cleared", "failed"}
    /\ store' = IF recovers[r] = "cleared" THEN Absent ELSE [inFlight |-> TRUE, waiting |-> TRUE]
    /\ recovers' = [recovers EXCEPT ![r] = "idle"]
    /\ UNCHANGED <<mark, policy, runtime, radio, candidate>>

(* markDesiredVoWiFiRecoverResult(): Clear() or MarkFailed().               *)
RecoverResult(r) ==
    /\ recovers[r] \in {"cleared", "failed"}
    /\ store' = IF recovers[r] = "cleared" THEN Absent ELSE [inFlight |-> FALSE, waiting |-> TRUE]
    /\ recovers' = [recovers EXCEPT ![r] = "idle"]
    /\ UNCHANGED <<mark, policy, runtime, radio, candidate>>

(* nextAt has come.                                                         *)
DelayPasses ==
    /\ Waiting /\ store' = [store EXCEPT !.waiting = FALSE]
    /\ UNCHANGED <<mark, policy, runtime, radio, candidate, recovers>>

(* The tunnel is lost.                                                      *)
RuntimeLost ==
    /\ runtime = "up" /\ runtime' = "down"
    /\ UNCHANGED <<mark, policy, radio>> /\ UNCHANGED recoverVars

(* handleDeviceVoWiFiPatch(): the policy is written first, and what follows *)
(* is refused during a switch.                                              *)
EnableVoWiFi ==
    /\ ~ desired /\ desired' = TRUE
    /\ IF Switching THEN UNCHANGED <<runtime, radio>> ELSE Up \/ FailsToStart
    /\ UNCHANGED <<mark, airplane>> /\ UNCHANGED recoverVars

DisableVoWiFi ==
    /\ desired /\ desired' = FALSE
    /\ IF Switching THEN UNCHANGED <<runtime, radio, store, recovers>>
       ELSE runtime' = "down" /\ ApplyPolicy(FALSE, airplane)
    /\ UNCHANGED <<mark, airplane, candidate>>

(* handleDeviceMgmtSetFlightMode(): refused during a switch and while       *)
(* VoWiFi is up; flight mode takes VoWiFi out of the policy.                *)
SetFlightMode ==
    /\ ~ Switching /\ runtime = "down"
    /\ airplane' = ~ airplane /\ desired' = (desired /\ airplane)
    /\ radio' = IF airplane THEN "online" ELSE "off"
    /\ UNCHANGED <<mark, runtime>> /\ UNCHANGED recoverVars

Next ==
    \/ ShouldReconcile \/ Reconcile \/ DelayPasses \/ RuntimeLost
    \/ EnableVoWiFi \/ DisableVoWiFi \/ SetFlightMode
    \/ \E r \in Recovers : RecoverSucceeds(r) \/ RecoverEnds(r) \/ RecoverResult(r)
-----------------------------------------------------------------------------
TypeOK ==
    /\ mark \in Nat /\ desired \in BOOLEAN /\ airplane \in BOOLEAN /\ runtime \in {"down", "up"}
    /\ radio \in {"online", "low", "off"} /\ store \in States \cup {Absent}
    /\ candidate \in BOOLEAN
    /\ recovers \in [Recovers -> {"idle", "queued", "cleared", "failed"}]

(* A device is in flight only while a recover of it is out, whose result    *)
(* will release it.                                                         *)
InFlightIsOut == InFlight => \E r \in Recovers : recovers[r] # "idle"

(* VoWiFi comes back, or is no longer wanted.                               *)
VoWiFiReturns == []<>(runtime = "up" \/ ~ desired)

(* A recover that is still to run brings up nothing that was disabled.  It  *)
(* does not hold: it looks at the policy when it is scheduled.              *)
StaysDisabled == [][runtime = "down" /\ runtime' = "up" => desired]_vars
=============================================================================
