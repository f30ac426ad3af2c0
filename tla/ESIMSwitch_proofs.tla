-------------------------- MODULE ESIMSwitch_proofs --------------------------
(* Theorems about ESIMSwitch.                                               *)
EXTENDS ESIMSwitch, TLAPS

(* The bound is a number, and the device knows its own kinds.               *)
Bounded == MaxSwitches \in Nat
-----------------------------------------------------------------------------
(* Type correctness.                                                        *)

LEMMA InitType == Init => TypeOK
<1> SUFFICES ASSUME Init PROVE TypeOK
  OBVIOUS
<1>1. device!TypeOK
  BY DEF Init, device!Init, device!TypeOK, device!policy
<1>2. /\ seq \in Nat /\ mark \in 0..seq /\ opMu \in {NoSwitch} \cup Switches
      /\ flight \in [Switches -> BOOLEAN] /\ timers \subseteq 1..seq
  BY DEF Init, device!Init
<1>3. at \in [Switches -> Places] /\ token \in [Switches -> 0..seq]
  BY DEF Init, Places
<1> QED
  BY <1>1, <1>2, <1>3 DEF TypeOK

(* ScheduleDesiredRecover(), Clear() and resolveAndApplyPolicy() of the     *)
(* device.                                                                  *)
LEMMA ScheduleType ==
    ASSUME device!TypeOK, device!ScheduleDesiredRecover
    PROVE  /\ store' \in device!States \cup {Absent}
           /\ recovers' \in [Recovers -> {"idle", "queued", "cleared", "failed"}]
<1>1. CASE UNCHANGED <<store, recovers>>
  BY <1>1 DEF device!TypeOK
<1>2. CASE \E r \in Recovers : /\ store' = [inFlight |-> TRUE, waiting |-> FALSE]
                               /\ recovers' = [recovers EXCEPT ![r] = "queued"]
  BY <1>2 DEF device!TypeOK, device!States
<1> QED
  BY <1>1, <1>2 DEF device!ScheduleDesiredRecover

LEMMA ApplyType ==
    ASSUME device!TypeOK, NEW w \in BOOLEAN, NEW a \in BOOLEAN, device!ApplyPolicy(w, a)
    PROVE  /\ radio' \in {"online", "low", "off"} /\ store' \in device!States \cup {Absent}
           /\ recovers' \in [Recovers -> {"idle", "queued", "cleared", "failed"}]
BY ScheduleType DEF device!TypeOK, device!ApplyPolicy, device!Clear, device!Prepared

LEMMA UpType ==
    ASSUME device!TypeOK, device!Up \/ device!FailsToStart
    PROVE  runtime' \in {"down", "up"} /\ radio' \in {"online", "low", "off"}
BY DEF device!TypeOK, device!Up, device!FailsToStart, device!Prepared

(* What goes on at the device leaves the mark alone.                        *)
LEMMA DeviceType ==
    ASSUME device!TypeOK, device!Next
    PROVE  device!TypeOK' /\ UNCHANGED mark
<1> USE DEF device!policy, device!recoverVars
<1>1. CASE device!ShouldReconcile
  BY <1>1 DEF device!ShouldReconcile, device!Clear, device!TypeOK, device!States
<1>2. CASE device!Reconcile
  BY <1>2, ScheduleType DEF device!Reconcile, device!TypeOK, device!States
<1>3. CASE device!DelayPasses
  BY <1>3 DEF device!DelayPasses, device!Waiting, device!TypeOK, device!States
<1>4. CASE device!RuntimeLost
  BY <1>4 DEF device!RuntimeLost, device!TypeOK, device!States
<1>5. CASE device!EnableVoWiFi
  BY <1>5, UpType DEF device!EnableVoWiFi, device!TypeOK, device!States
<1>6. CASE device!DisableVoWiFi
  <2>1. CASE device!Switching
    BY <1>6, <2>1 DEF device!DisableVoWiFi, device!TypeOK, device!States
  <2>2. CASE ~ device!Switching
    <3>1. airplane \in BOOLEAN /\ device!ApplyPolicy(FALSE, airplane)
      BY <1>6, <2>2 DEF device!DisableVoWiFi, device!TypeOK
    <3> QED
      BY <1>6, <2>2, <3>1, ApplyType DEF device!DisableVoWiFi, device!TypeOK, device!States
  <2> QED
    BY <2>1, <2>2
<1>7. CASE device!SetFlightMode
  BY <1>7 DEF device!SetFlightMode, device!TypeOK, device!States
<1>8. ASSUME NEW r \in Recovers, device!RecoverSucceeds(r) \/ device!RecoverEnds(r)
      PROVE  device!TypeOK' /\ UNCHANGED mark
  BY <1>8, UpType DEF device!RecoverSucceeds, device!RecoverEnds, device!TypeOK, device!States
<1>9. ASSUME NEW r \in Recovers, device!RecoverResult(r) PROVE device!TypeOK' /\ UNCHANGED mark
  BY <1>9 DEF device!RecoverResult, device!TypeOK, device!States
<1> QED
  BY <1>1, <1>2, <1>3, <1>4, <1>5, <1>6, <1>7, <1>8, <1>9 DEF device!Next

LEMMA RadioType ==
    ASSUME TypeOK, NEW m \in {"online", "low", "off"}, Radio(m)
    PROVE  radio' \in {"online", "low", "off"}
BY DEF Radio, TypeOK, device!TypeOK

LEMMA RestoreType ==
    ASSUME TypeOK, NEW s, NEW b, RestoreRadio(s, b)
    PROVE  radio' \in {"online", "low", "off"}
BY RadioType DEF RestoreRadio, TypeOK, device!TypeOK
LEMMA NextType == ASSUME Bounded, TypeOK, [Next]_vars PROVE TypeOK'
<1> USE DEF Bounded, Goto, Current, policy, recoverVars, switchVars, Places, Finalising
<1>0. device!TypeOK /\ TypeOK /\ desired \in BOOLEAN /\ airplane \in BOOLEAN
  BY DEF TypeOK, device!TypeOK
<1>1. CASE device!Next /\ UNCHANGED switchVars
  BY <1>1, DeviceType DEF TypeOK
<1>2. ASSUME UNCHANGED recoverVars, runtime' \in {"down", "up"}, radio' \in {"online", "low", "off"},
             mark' \in Nat, desired' \in BOOLEAN, airplane' \in BOOLEAN
      PROVE  device!TypeOK'
  BY <1>0, <1>2 DEF device!TypeOK
<1>3. runtime \in {"down", "up"} /\ radio \in {"online", "low", "off"} /\ mark \in Nat
  BY <1>0 DEF device!TypeOK
<1>4. ASSUME NEW s \in Switches, Capture(s) PROVE TypeOK'
  BY <1>0, <1>2, <1>3, <1>4 DEF Capture, InFlight, TypeOK
<1>5. ASSUME NEW s \in Switches, Begin(s) PROVE TypeOK'
  BY <1>0, <1>2, <1>3, <1>5 DEF Begin, TypeOK
<1>6. ASSUME NEW s \in Switches, SwitchBegin(s) PROVE TypeOK'
  BY <1>0, <1>2, <1>3, <1>6, RadioType DEF SwitchBegin, TypeOK
<1>7. ASSUME NEW s \in Switches, EnableProfile(s) PROVE TypeOK'
  BY <1>0, <1>2, <1>3, <1>7 DEF EnableProfile, TypeOK
<1>8. ASSUME NEW s \in Switches, Ends(s)
      PROVE  at' \in [Switches -> Places] /\ token' \in [Switches -> 0..seq] /\ flight' \in [Switches -> BOOLEAN]
  BY <1>8 DEF Ends, TypeOK
<1>9. ASSUME NEW s \in Switches, Failed(s) PROVE TypeOK'
  BY <1>0, <1>2, <1>3, <1>8, <1>9 DEF Failed, TypeOK
<1>10. ASSUME NEW s \in Switches, Undo(s) PROVE TypeOK'
  BY <1>0, <1>2, <1>3, <1>8, <1>10, RestoreType DEF Undo, TypeOK
<1>11. ASSUME NEW s \in Switches, NEW p \in Places, NEW n \in Places, Waits(s, p, n),
              UNCHANGED recoverVars, radio' \in {"online", "low", "off"}
       PROVE  TypeOK'
  BY <1>0, <1>2, <1>3, <1>11 DEF Waits, TypeOK
<1>12. ASSUME NEW s \in Switches, CoreReady(s) \/ Online(s) PROVE TypeOK'
  BY <1>3, <1>11, <1>12, RadioType DEF CoreReady, Online
<1>13. ASSUME NEW s \in Switches, Converge(s) PROVE TypeOK'
  <2>1. /\ radio' \in {"online", "low", "off"} /\ store' \in device!States \cup {Absent}
        /\ recovers' \in [Recovers -> {"idle", "queued", "cleared", "failed"}]
    <3>1. CASE device!ApplyPolicy(desired, airplane)
      BY <1>0, <3>1, ApplyType
    <3>2. CASE RestoreRadio(s, RadioCycle) /\ UNCHANGED <<store, recovers>>
      BY <1>0, <3>2, RestoreType DEF device!TypeOK
    <3> QED
      BY <1>13, <3>1, <3>2 DEF Converge
  <2>2. device!TypeOK'
    BY <1>0, <1>3, <1>13, <2>1 DEF Converge, device!TypeOK
  <2>3. at' \in [Switches -> Places]
    BY <1>13 DEF Converge, TypeOK
  <2> QED
    BY <1>13, <2>2, <2>3 DEF Converge, TypeOK
<1>14. ASSUME NEW s \in Switches, Identity(s) PROVE TypeOK'
  <2>1. CASE Waits(s, "identity", IF desired THEN "gate" ELSE "restore") /\ UNCHANGED radio /\ UNCHANGED recoverVars
    BY <1>3, <1>11, <2>1
  <2>2. CASE ~ (Waits(s, "identity", IF desired THEN "gate" ELSE "restore") /\ UNCHANGED radio
                /\ UNCHANGED recoverVars)
    BY <1>0, <1>2, <1>3, <1>14, <2>2, RestoreType DEF Identity, TypeOK
  <2> QED
    BY <1>14, <2>1, <2>2 DEF Identity
<1>15. ASSUME NEW s \in Switches, Gate(s) PROVE TypeOK'
  <2>1. CASE Waits(s, "gate", "restore") /\ UNCHANGED radio /\ UNCHANGED recoverVars
    BY <1>3, <1>11, <2>1
  <2>2. CASE ~ (Waits(s, "gate", "restore") /\ UNCHANGED radio /\ UNCHANGED recoverVars)
    BY <1>0, <1>2, <1>3, <1>15, <2>2, RestoreType DEF Gate, TypeOK
  <2> QED
    BY <1>15, <2>1, <2>2 DEF Gate
<1>16. ASSUME NEW s \in Switches, Restore(s) PROVE TypeOK'
  <2>1. runtime' \in {"down", "up"} /\ radio' \in {"online", "low", "off"}
    BY <1>0, <1>3, <1>16, UpType, RestoreType DEF Restore
  <2>2. device!TypeOK'
    BY <1>0, <1>3, <1>16, <2>1 DEF Restore, device!TypeOK
  <2> QED
    BY <1>16, <2>2 DEF Restore, TypeOK
<1>17. ASSUME NEW s \in Switches, Clear(s) PROVE TypeOK'
  BY <1>0, <1>2, <1>3, <1>8, <1>17 DEF Clear, TypeOK
<1>18. ASSUME NEW n \in timers, Timeout(n) PROVE TypeOK'
  BY <1>0, <1>2, <1>3, <1>18 DEF Timeout, TypeOK
<1>19. CASE UNCHANGED vars
  BY <1>0, <1>2, <1>3, <1>19 DEF vars, TypeOK
<1> QED
  BY <1>1, <1>4, <1>5, <1>6, <1>7, <1>9, <1>10, <1>12, <1>13, <1>14, <1>15, <1>16, <1>17, <1>18, <1>19
     DEF Next, Finalise

(* The state of the device, the mark, the requests and their tokens keep    *)
(* their types, however many switches there are (pool_esim_switch.go).      *)
THEOREM SwitchTyped == ASSUME Bounded PROVE Spec => []TypeOK
<1>1. TypeOK /\ [Next]_vars => TypeOK'
  BY NextType
<1> QED
  BY <1>1, InitType, PTL DEF Spec

-----------------------------------------------------------------------------
(* The mark.                                                                *)

Active(s) == at[s] \notin {"idle", "captured", "undo", "end"}

(* A switch that has begun and is not done has a token of its own.          *)
TokensDiffer ==
    /\ \A s \in Switches : Active(s) => token[s] # 0
    /\ \A s, t \in Switches : Active(s) /\ Active(t) /\ token[s] = token[t] => s = t

GateInv == GateHeld /\ TokensDiffer

(* Steps that begin or end no switch.                                       *)
LEMMA FrameGate ==
    ASSUME TypeOK, GateInv, UNCHANGED <<mark, seq, token, timers>>,
           \A s \in Switches : Active(s)' => Active(s)
    PROVE  GateInv'
BY DEF GateInv, GateHeld, TokensDiffer, Active

LEMMA NextGate == ASSUME Bounded, TypeOK, GateInv, [Next]_vars PROVE GateInv'
<1> USE DEF Bounded, Current, policy, recoverVars, switchVars, Active
<1>0. /\ at \in [Switches -> Places] /\ token \in [Switches -> 0..seq] /\ timers \subseteq 1..seq
      /\ seq \in Nat /\ mark \in 0..seq
  BY DEF TypeOK
<1>1. CASE device!Next /\ UNCHANGED switchVars
  <2>1. UNCHANGED mark
    BY <1>1, DeviceType DEF TypeOK
  <2> QED
    BY <1>1, <2>1, FrameGate
<1>2. ASSUME NEW s \in Switches, Capture(s) \/ SwitchBegin(s) \/ EnableProfile(s) \/ CoreReady(s) \/ Converge(s)
                                \/ Online(s) \/ Identity(s) \/ Gate(s) \/ Restore(s)
      PROVE  GateInv'
  <2>1. Active(s)' => Active(s)
    BY <1>0, <1>2 DEF Capture, SwitchBegin, EnableProfile, CoreReady, Converge, Online, Identity, Gate, Restore,
       Waits, Goto
  <2>2. /\ UNCHANGED <<mark, seq, token, timers>>
        /\ \A t \in Switches : t # s => at'[t] = at[t]
    BY <1>0, <1>2 DEF Capture, SwitchBegin, EnableProfile, CoreReady, Converge, Online, Identity, Gate, Restore,
       Waits, Goto
  <2> QED
    BY <2>1, <2>2, FrameGate
<1>3. ASSUME NEW s \in Switches, Begin(s) PROVE GateInv'
  <2>1. /\ seq' = seq + 1 /\ mark' = seq' /\ timers' = timers \cup {seq'}
        /\ token' = [token EXCEPT ![s] = seq'] /\ at' = [at EXCEPT ![s] = "begun"]
    BY <1>3 DEF Begin, Goto
  <2>2. \A t \in Switches : t # s => token'[t] = token[t] /\ at'[t] = at[t] /\ token[t] \in 0..seq
    BY <1>0, <2>1
  <2>3. token'[s] = seq + 1
    BY <1>0, <2>1
  <2>4. GateHeld'
    BY <1>0, <2>1, <2>2 DEF GateHeld
  <2>5. TokensDiffer'
    BY <1>0, <2>2, <2>3 DEF GateInv, TokensDiffer
  <2> QED
    BY <2>4, <2>5 DEF GateInv
<1>4. ASSUME NEW s \in Switches, ~ Active(s)', UNCHANGED <<seq, timers>>,
             mark' \in {0, mark}, mark' # mark => mark = token[s],
             \A t \in Switches : t # s => token'[t] = token[t] /\ at'[t] = at[t], Active(s) \/ UNCHANGED mark
      PROVE  GateInv'
  <2>1. GateHeld'
    BY <1>0, <1>4 DEF GateInv, GateHeld, TokensDiffer
  <2>2. TokensDiffer'
    BY <1>4 DEF GateInv, TokensDiffer
  <2> QED
    BY <2>1, <2>2 DEF GateInv
<1>5. ASSUME NEW s \in Switches, Ends(s) PROVE ~ Active(s)' /\ \A t \in Switches : t # s => token'[t] = token[t] /\ at'[t] = at[t]
  BY <1>0, <1>5 DEF Ends, Goto
<1>6. ASSUME NEW s \in Switches, Failed(s) \/ Undo(s) \/ Clear(s) PROVE GateInv'
  <2>1. CASE Failed(s) /\ Current(s)
    BY <1>0, <1>4, <2>1 DEF Failed, Goto
  <2>2. CASE ~ (Failed(s) /\ Current(s))
    BY <1>4, <1>5, <1>6, <2>2 DEF Failed, Undo, Clear
  <2> QED
    BY <2>1, <2>2
<1>7. ASSUME NEW n \in timers, Timeout(n) PROVE GateInv'
  BY <1>0, <1>7 DEF Timeout, GateInv, GateHeld, TokensDiffer
<1>8. CASE UNCHANGED vars
  BY <1>8, FrameGate DEF vars
<1> QED
  BY <1>1, <1>2, <1>3, <1>6, <1>7, <1>8 DEF Next, Finalise

LEMMA InitGate == Init => GateInv /\ device!InFlightIsOut
BY DEF Init, GateInv, GateHeld, TokensDiffer, Active, device!Init, device!InFlightIsOut, device!InFlight

(* However many switches overlap, fail, hang or are finalised late, the     *)
(* device stays marked for the latest until it has been dealt with or its   *)
(* two minutes are over: an older finalisation, failure or clean-up clears  *)
(* only its own mark (clearESIMSwitchIfToken(), beginESIMSwitch()).         *)
THEOREM MarkStaysWithLatest == ASSUME Bounded PROVE Spec => []GateHeld
<1>1. Init => GateInv
  BY InitGate
<1>2. TypeOK /\ GateInv /\ [Next]_vars => GateInv'
  BY NextGate
<1>3. GateInv => GateHeld
  BY DEF GateInv
<1> QED
  BY <1>1, <1>2, <1>3, SwitchTyped, PTL DEF Spec

-----------------------------------------------------------------------------
(* The recover in flight.                                                   *)

LEMMA PolicyInFlight ==
    ASSUME device!TypeOK, device!InFlightIsOut,
           \/ UNCHANGED <<store, recovers>>
           \/ device!ScheduleDesiredRecover
           \/ device!Clear \/ store' = Absent
           \/ device!ApplyPolicy(desired, airplane) \/ device!ApplyPolicy(FALSE, airplane)
    PROVE  device!InFlightIsOut'
<1> USE DEF device!InFlightIsOut, device!InFlight
<1>1. CASE UNCHANGED <<store, recovers>>
  BY <1>1
<1>2. CASE device!ScheduleDesiredRecover
  BY <1>1, <1>2 DEF device!ScheduleDesiredRecover, device!TypeOK
<1>3. CASE device!Clear \/ store' = Absent
  BY <1>3 DEF device!Clear
<1>4. CASE device!ApplyPolicy(desired, airplane) \/ device!ApplyPolicy(FALSE, airplane)
  BY <1>2, <1>3, <1>4 DEF device!ApplyPolicy
<1> QED
  BY <1>1, <1>2, <1>3, <1>4

(* What goes on at the device, a switch or none.                            *)
LEMMA DeviceInFlight ==
    ASSUME device!TypeOK, device!InFlightIsOut, device!Next
    PROVE  device!InFlightIsOut'
<1>0. recovers \in [Recovers -> {"idle", "queued", "cleared", "failed"}] /\ store \in device!States \cup {Absent}
  BY DEF device!TypeOK
<1> USE DEF device!InFlightIsOut, device!InFlight
<1>1. CASE \E r \in Recovers : device!RecoverResult(r)
  BY <1>0, <1>1 DEF device!RecoverResult, device!States
<1>2. CASE \E r \in Recovers : device!RecoverSucceeds(r) \/ device!RecoverEnds(r)
  BY <1>0, <1>2 DEF device!RecoverSucceeds, device!RecoverEnds
<1>3. CASE device!DelayPasses
  BY <1>0, <1>3 DEF device!DelayPasses, device!Waiting, device!States
<1>4. CASE device!ShouldReconcile \/ device!Reconcile \/ device!DisableVoWiFi
  BY <1>4, PolicyInFlight DEF device!ShouldReconcile, device!Reconcile, device!DisableVoWiFi
<1>5. CASE device!RuntimeLost \/ device!EnableVoWiFi \/ device!SetFlightMode
  BY <1>5 DEF device!RuntimeLost, device!EnableVoWiFi, device!SetFlightMode, device!recoverVars
<1> QED
  BY <1>1, <1>2, <1>3, <1>4, <1>5 DEF device!Next

LEMMA NextInFlight == ASSUME TypeOK, device!InFlightIsOut, [Next]_vars PROVE device!InFlightIsOut'
<1> USE DEF device!InFlightIsOut, device!InFlight
<1>0. device!TypeOK
  BY DEF TypeOK
<1>1. CASE UNCHANGED <<store, recovers>>
  BY <1>1
<1>2. CASE device!Next
  BY <1>0, <1>2, DeviceInFlight
<1>3. ASSUME NEW s \in Switches, Converge(s) \/ Restore(s) PROVE device!InFlightIsOut'
  BY <1>0, <1>1, <1>3, PolicyInFlight DEF Converge, Restore
<1>4. ASSUME NEW s \in Switches, Capture(s) \/ Begin(s) \/ SwitchBegin(s) \/ EnableProfile(s) \/ Failed(s) \/ Undo(s)
                                \/ CoreReady(s) \/ Online(s) \/ Identity(s) \/ Gate(s) \/ Clear(s)
      PROVE  device!InFlightIsOut'
  BY <1>1, <1>4 DEF Capture, Begin, SwitchBegin, EnableProfile, Failed, Undo, CoreReady, Online, Identity, Gate,
     Clear, recoverVars
<1>5. ASSUME NEW n \in timers, Timeout(n) PROVE device!InFlightIsOut'
  BY <1>1, <1>5 DEF Timeout, recoverVars
<1>6. CASE UNCHANGED vars
  BY <1>1, <1>6 DEF vars
<1> QED
  BY <1>2, <1>3, <1>4, <1>5, <1>6 DEF Next, Finalise

(* No device is left in flight in the store: while its mark is set a        *)
(* recover is out whose result takes it back, through all that a switch     *)
(* does to the device (Begin(), MarkFailed(), Clear(), recover_state.go).   *)
THEOREM InFlightIsReleased == ASSUME Bounded PROVE Spec => []device!InFlightIsOut
<1>1. Init => device!InFlightIsOut
  BY InitGate
<1>2. TypeOK /\ device!InFlightIsOut /\ [Next]_vars => device!InFlightIsOut'
  BY NextInFlight
<1> QED
  BY <1>1, <1>2, SwitchTyped, PTL DEF Spec
==============================================================================
