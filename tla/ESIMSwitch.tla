------------------------------ MODULE ESIMSwitch ------------------------------
(* The switch of an eSIM profile (esim/manager.go, pool_esim_switch.go): the *)
(* request that holds the profile manager, sends the command and answers,   *)
(* the hook that finalises the switch by itself afterwards, and the mark    *)
(* that keeps others off the device meanwhile, its token and the clean-up   *)
(* that releases it.  DesiredRecover is the device it is done to.           *)
(* The data connection and the phase the interface shows are left out.      *)
EXTENDS Naturals

CONSTANTS
    Recovers, Absent,    \* of DesiredRecover
    MaxSwitches,         \* bound: requests for a switch, numbered as they come
    NoSwitch,
    RadioCycle,          \* esim_switch.radio_cycle
    RadioFails           \* a command to the radio may fail

VARIABLES
    mark, desired, airplane, runtime, radio, store, candidate, recovers,
    seq,           \* Pool.switchSeq
    opMu,          \* the request that holds Manager.opMu
    at,            \* where each request, and its hook after it, is
    token,         \* its token: 0 before it has one
    flight,        \* its snapshot: FlightModeBefore
    timers         \* the tokens whose clean-up is still to come

device == INSTANCE DesiredRecover
switchVars == <<seq, opMu, at, token, flight, timers>>
policy == <<desired, airplane>>
recoverVars == <<store, candidate, recovers>>
vars == <<mark, policy, runtime, radio, store, candidate, recovers, switchVars>>

Switches == 1..MaxSwitches
Finalising == {"converge", "online", "identity", "gate", "restore", "clear", "done"}
Places == {"idle", "captured", "begun", "apdu", "failed", "undo", "hook", "end"} \cup Finalising

Init ==
    /\ device!Init
    /\ seq = 0 /\ opMu = NoSwitch
    /\ at = [s \in Switches |-> "idle"] /\ token = [s \in Switches |-> 0]
    /\ flight = [s \in Switches |-> FALSE] /\ timers = {}

InFlight(mode) == mode \in {"low", "off"}
Goto(s, place) == at' = [at EXCEPT ![s] = place]
Ends(s) ==
    /\ Goto(s, "end")
    /\ token' = [token EXCEPT ![s] = 0] /\ flight' = [flight EXCEPT ![s] = FALSE]
Current(s) == mark = token[s]

(* A command to the radio; one that fails is only logged.                   *)
Radio(mode) == radio' \in IF RadioFails THEN {mode, radio} ELSE {mode}

(* captureESIMSwitchContext(), by the request that holds the manager: the   *)
(* mode is read before the device is marked.                                *)
Capture(s) ==
    /\ s = seq + 1 /\ at[s] = "idle" /\ opMu = NoSwitch
    /\ opMu' = s /\ Goto(s, "captured")
    /\ flight' = [flight EXCEPT ![s] = InFlight(radio)]
    /\ UNCHANGED <<mark, policy, runtime, radio, seq, token, timers>>
    /\ UNCHANGED recoverVars

(* beginESIMSwitch() and BeginSIMIdentityTransition(): from here the policy *)
(* is that of the card switched to.                                         *)
Begin(s) ==
    /\ at[s] = "captured"
    /\ seq' = seq + 1 /\ mark' = seq' /\ timers' = timers \cup {seq'}
    /\ token' = [token EXCEPT ![s] = seq'] /\ Goto(s, "begun")
    /\ desired' \in BOOLEAN /\ airplane' \in BOOLEAN
    /\ UNCHANGED <<runtime, radio, opMu, flight>> /\ UNCHANGED recoverVars

(* The rest of handleESIMSwitchBefore(): VoWiFi is taken down, the radio    *)
(* released.                                                                *)
SwitchBegin(s) ==
    /\ at[s] = "begun" /\ Goto(s, "apdu")
    /\ runtime' = "down"
    /\ IF RadioCycle THEN Radio("low") ELSE UNCHANGED radio
    /\ UNCHANGED <<mark, policy, seq, opMu, token, flight, timers>>
    /\ UNCHANGED recoverVars

(* The command is accepted or fails; the manager is free before either is   *)
(* followed up.                                                             *)
EnableProfile(s) ==
    /\ at[s] = "apdu" /\ opMu' = NoSwitch
    /\ at' \in {[at EXCEPT ![s] = p] : p \in {"hook", "failed"}}
    /\ UNCHANGED <<mark, policy, runtime, radio, seq, token, flight, timers>>
    /\ UNCHANGED recoverVars

(* restoreRadioDataForSwitchSnapshot(): with the radio cycle done already   *)
(* the radio is not brought online again.                                   *)
RestoreRadio(s, alreadyDone) ==
    IF flight[s] THEN Radio("off")
    ELSE IF alreadyDone THEN UNCHANGED radio ELSE Radio("online")

(* handleESIMSwitchFailed(): nothing, unless the switch is the one marked,  *)
(* which it is no more when the radio is restored.                          *)
Failed(s) ==
    /\ at[s] = "failed"
    /\ IF Current(s) THEN mark' = 0 /\ Goto(s, "undo") /\ UNCHANGED <<token, flight>>
       ELSE Ends(s) /\ UNCHANGED mark
    /\ UNCHANGED <<policy, runtime, radio, seq, opMu, timers>> /\ UNCHANGED recoverVars

Undo(s) ==
    /\ at[s] = "undo" /\ Ends(s)
    /\ RestoreRadio(s, FALSE)
    /\ UNCHANGED <<mark, policy, runtime, seq, opMu, timers>> /\ UNCHANGED recoverVars

(* handleESIMSwitchAfter() goes on from a wait while its switch is the one  *)
(* marked, and else ends.                                                   *)
Waits(s, place, next) ==
    /\ at[s] = place
    /\ Goto(s, IF Current(s) THEN next ELSE "clear")
    /\ UNCHANGED <<mark, policy, runtime, seq, opMu, token, flight, timers>>

(* It starts a second later and first waits for the modem, with a look at   *)
(* the token before and after.                                              *)
CoreReady(s) ==
    Waits(s, "hook", "converge") /\ UNCHANGED radio /\ UNCHANGED recoverVars

(* runPostSwitchConvergence(): the card is ready, and its policy applied    *)
(* without asking whether the switch is still the one marked; or it is not, *)
(* and there is only the radio to restore.                                  *)
Converge(s) ==
    /\ at[s] = "converge"
    /\ \/ device!ApplyPolicy(desired, airplane)
          /\ Goto(s, IF RadioCycle THEN "online" ELSE "identity")
       \/ RestoreRadio(s, RadioCycle) /\ Goto(s, "clear") /\ UNCHANGED <<store, recovers>>
    /\ UNCHANGED <<mark, policy, runtime, candidate, seq, opMu, token, flight, timers>>

(* bringRadioOnlineAfterSwitch().                                           *)
Online(s) ==
    Waits(s, "online", "identity") /\ Radio("online") /\ UNCHANGED recoverVars

(* refreshPostSwitchIdentity(), and the decision it leads to: an error      *)
(* restores only the radio.                                                 *)
Identity(s) ==
    \/ Waits(s, "identity", IF desired THEN "gate" ELSE "restore")
       /\ UNCHANGED radio /\ UNCHANGED recoverVars
    \/ /\ at[s] = "identity" /\ Current(s) /\ Goto(s, "clear")
       /\ RestoreRadio(s, RadioCycle)
       /\ UNCHANGED <<mark, policy, runtime, seq, opMu, token, flight, timers>>
       /\ UNCHANGED recoverVars

(* waitPostSwitchSIMAuthReady(): without it VoWiFi is not restored.         *)
Gate(s) ==
    \/ Waits(s, "gate", "restore") /\ UNCHANGED radio /\ UNCHANGED recoverVars
    \/ /\ at[s] = "gate" /\ Current(s) /\ Goto(s, "done")
       /\ RestoreRadio(s, RadioCycle)
       /\ UNCHANGED <<mark, policy, runtime, seq, opMu, token, flight, timers>>
       /\ UNCHANGED recoverVars

(* restorePostSwitchConnectivity(): the last check of the token was before. *)
(* A start that fails is followed by the radio, as one that is not wanted.  *)
Restore(s) ==
    /\ at[s] = "restore" /\ Goto(s, "done")
    /\ store' = IF desired THEN Absent ELSE store
    /\ \/ desired /\ device!Up
       \/ desired /\ RadioCycle /\ ~ flight[s] /\ device!FailsToStart
       \/ (desired => flight[s] \/ ~ RadioCycle) /\ RestoreRadio(s, RadioCycle) /\ UNCHANGED runtime
    /\ UNCHANGED <<mark, policy, candidate, recovers, seq, opMu, token, flight, timers>>

(* Mutant: the mark is cleared whosever it is.                              *)
ClearMutant(s) ==
    /\ at[s] \in {"clear", "done"} /\ Ends(s)
    /\ mark' = 0
    /\ UNCHANGED <<policy, runtime, radio, seq, opMu, timers>>
    /\ UNCHANGED recoverVars

(* clearESIMSwitchIfToken(), deferred.                                      *)
Clear(s) ==
    /\ at[s] \in {"clear", "done"} /\ Ends(s)
    /\ mark' = IF Current(s) THEN 0 ELSE mark
    /\ UNCHANGED <<policy, runtime, radio, seq, opMu, timers>>
    /\ UNCHANGED recoverVars

(* The clean-up of beginESIMSwitch(), two minutes on: it knows its switch   *)
(* by the time the snapshot was taken.                                      *)
Timeout(n) ==
    /\ timers' = timers \ {n} /\ mark' = IF mark = n THEN 0 ELSE mark
    /\ UNCHANGED <<policy, runtime, radio, seq, opMu, at, token, flight>>
    /\ UNCHANGED recoverVars

Finalise(s) ==
    \/ CoreReady(s) \/ Converge(s) \/ Online(s) \/ Identity(s)
    \/ Gate(s) \/ Restore(s) \/ Clear(s)

Next ==
    \/ device!Next /\ UNCHANGED switchVars
    \/ \E s \in Switches :
          Capture(s) \/ Begin(s) \/ SwitchBegin(s) \/ EnableProfile(s) \/ Failed(s) \/ Undo(s) \/ Finalise(s)
    \/ \E n \in timers : Timeout(n)

Spec == Init /\ [][Next]_vars
-----------------------------------------------------------------------------
TypeOK ==
    /\ device!TypeOK /\ seq \in Nat /\ mark \in 0..seq /\ opMu \in {NoSwitch} \cup Switches
    /\ at \in [Switches -> Places] /\ token \in [Switches -> 0..seq]
    /\ flight \in [Switches -> BOOLEAN] /\ timers \subseteq 1..seq

(* The device stays marked for the latest switch from its beginning until   *)
(* it has been dealt with, unless two minutes have passed: neither an older *)
(* switch that is still finalised, nor one that failed, nor the clean-up of *)
(* an older one takes the mark from it.                                     *)
GateHeld ==
    \A s \in Switches :
        at[s] \notin {"idle", "captured", "undo", "end"} /\ token[s] = seq /\ seq \in timers
        => mark = seq

(* When a switch is done and the card it came to wants neither VoWiFi nor   *)
(* flight mode, its radio is online (resolveAndApplyPolicy(), "the radio    *)
(* really is switched as the policy says").  It does not hold: what the     *)
(* policy has set, the snapshot of the card before sets back.               *)
PolicyFollowed ==
    \A s \in Switches :
        at[s] = "done" /\ Current(s) /\ ~ desired /\ ~ airplane /\ runtime = "down"
        => radio = "online"
=============================================================================
