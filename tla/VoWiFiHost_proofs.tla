-------------------------- MODULE VoWiFiHost_proofs --------------------------
(***************************************************************************)
(* Proofs about the VoWiFi runtime host, for any set of commands of any    *)
(* kinds, preempting restarts among them.                                  *)
(***************************************************************************)
EXTENDS VoWiFiHost, TLAPS

USE CommandsAssumption, KindAssumption

(* What each store operation does to the fields the proofs speak of.       *)
Slots == [epoch : Nat, instance : Commands \cup {None}, starting : BOOLEAN,
          hasState : BOOLEAN, failed : BOOLEAN]

(* Every store operation yields a slot.                                    *)
LEMMA StoreTypes ==
  ASSUME NEW s \in Slots, NEW i \in Commands \cup {None}, NEW e \in Nat
  PROVE  /\ FreshSlot \in Slots
         /\ Invalidated(s) \in Slots
         /\ WithStartupState(s) \in Slots
         /\ ClearedStartupState(s) \in Slots
         /\ Claimed(s, i) \in Slots
         /\ Failed(s, e) \in Slots
         /\ WithoutInstance(s, i) \in Slots
         /\ Observed(s, i) \in Slots
<1>1. FreshSlot \in Slots
  BY DEF FreshSlot, Slots
<1>2. Invalidated(s) \in Slots
  <2>1. \A n \in Nat : [s EXCEPT !.epoch = n, !.starting = FALSE,
                                !.hasState = FALSE, !.failed = FALSE] \in Slots
    BY DEF Slots
  <2>2. s.epoch + 1 \in Nat
    BY DEF Slots
  <2> QED BY <2>1, <2>2 DEF Invalidated
<1>3. WithStartupState(s) \in Slots
  BY DEF WithStartupState, Slots
<1>4. ClearedStartupState(s) \in Slots
  BY <1>1 DEF ClearedStartupState, Slots
<1>5. Claimed(s, i) \in Slots
  BY DEF Claimed, Slots
<1>6. Failed(s, e) \in Slots
  BY DEF Failed, Slots
<1>7. WithoutInstance(s, i) \in Slots
  BY <1>1 DEF WithoutInstance, FreshSlot, Slots
<1>8. Observed(s, i) \in Slots
  BY <1>3 DEF Observed
<1> QED BY <1>1, <1>2, <1>3, <1>4, <1>5, <1>6, <1>7, <1>8

(* Only a claim and a removal change the registered instance.              *)
LEMMA StoreInstance ==
  ASSUME NEW s \in Slots, NEW i \in Commands \cup {None}, NEW e \in Nat
  PROVE  /\ FreshSlot.instance = None
         /\ Invalidated(s).instance = s.instance
         /\ WithStartupState(s).instance = s.instance
         /\ ClearedStartupState(s).instance = s.instance
         /\ Claimed(s, i).instance = i
         /\ Failed(s, e).instance = s.instance
         /\ WithoutInstance(s, i).instance = (IF s.instance = i THEN None ELSE s.instance)
         /\ Observed(s, i).instance = s.instance
<1>1. FreshSlot.instance = None
  BY DEF FreshSlot
<1>2. Invalidated(s).instance = s.instance
  BY DEF Invalidated, Slots
<1>3. WithStartupState(s).instance = s.instance
  BY DEF WithStartupState, Slots
<1>4. ClearedStartupState(s).instance = s.instance
  BY <1>1 DEF ClearedStartupState, Slots
<1>5. Claimed(s, i).instance = i
  BY DEF Claimed, Slots
<1>6. Failed(s, e).instance = s.instance
  BY DEF Failed, Slots
<1>7. WithoutInstance(s, i).instance = (IF s.instance = i THEN None ELSE s.instance)
  BY <1>1 DEF WithoutInstance, FreshSlot, Slots
<1>8. Observed(s, i).instance = s.instance
  BY <1>3 DEF Observed
<1> QED BY <1>1, <1>2, <1>3, <1>4, <1>5, <1>6, <1>7, <1>8

(* No operation but BeginStart sets the starting mark, and those that keep *)
(* it keep the epoch.                                                      *)
LEMMA StoreStarting ==
  ASSUME NEW s \in Slots
  PROVE  /\ Invalidated(s).starting = FALSE
         /\ WithStartupState(s).starting = s.starting /\ WithStartupState(s).epoch = s.epoch
         /\ ClearedStartupState(s).starting = s.starting
         /\ s.starting => ClearedStartupState(s).epoch = s.epoch
<1>1. FreshSlot.starting = FALSE
  BY DEF FreshSlot
<1>2. Invalidated(s).starting = FALSE
  BY DEF Invalidated, Slots
<1>3. WithStartupState(s).starting = s.starting /\ WithStartupState(s).epoch = s.epoch
  BY DEF WithStartupState, Slots
<1>4. ClearedStartupState(s).starting = s.starting
  BY <1>1 DEF ClearedStartupState, Slots
<1>5. s.starting => ClearedStartupState(s).epoch = s.epoch
  BY DEF ClearedStartupState, Slots
<1> QED BY <1>2, <1>3, <1>4, <1>5

(* The same, of the operations that name an instance.                      *)
LEMMA InstanceStarting ==
  ASSUME NEW s \in Slots, NEW i \in Commands \cup {None}
  PROVE  /\ Claimed(s, i).starting = FALSE
         /\ WithoutInstance(s, i).starting => s.instance # i
         /\ s.instance # i => WithoutInstance(s, i) = s
         /\ Observed(s, i).starting = s.starting /\ Observed(s, i).epoch = s.epoch
<1>1. FreshSlot.starting = FALSE
  BY DEF FreshSlot
<1>2. Claimed(s, i).starting = FALSE
  BY DEF Claimed, Slots
<1>3. WithoutInstance(s, i).starting => s.instance # i
  BY <1>1 DEF WithoutInstance, FreshSlot, Slots
<1>4. s.instance # i => WithoutInstance(s, i) = s
  BY DEF WithoutInstance
<1>5. Observed(s, i).starting = s.starting /\ Observed(s, i).epoch = s.epoch
  BY StoreStarting DEF Observed
<1> QED BY <1>2, <1>3, <1>4, <1>5

(* A start that fails under the slot's epoch takes its mark back.          *)
LEMMA FailedStarting ==
  ASSUME NEW s \in Slots, NEW e \in Nat
  PROVE  Failed(s, e).starting = (IF s.epoch = e THEN FALSE ELSE s.starting)
BY DEF Failed, Slots
-----------------------------------------------------------------------------
(* The parts of the inductive invariant.                                   *)

Making == {"observe", "claim", "stopStale"}
Ended == {"clearStarted", "mark", "unbind", "unlock", "done"}
StartLabels == {"prepare", "check", "before", "tunnel", "observe", "claim", "error", "fail"}

(* A registered instance and one a teardown has found are past their start,*)
(* so that nobody makes them live again; an instance about to be removed   *)
(* is stopped.                                                             *)
OwnInv ==
  /\ LiveIsOwned
  /\ SlotIsLive
  /\ slot.instance # None => pc[slot.instance] \in Ended
  /\ \A c \in Commands :
       /\ pc[c] \in Making => c \in live
       /\ pc[c] \in {"stop", "delete"} => target[c] # None /\ pc[target[c]] \in Ended
       /\ pc[c] = "delete" => target[c] \notin live

(* A slot is not both starting and running.                                *)
StartInv ==
  /\ StartingNotStuck
  /\ slot.starting => slot.instance = None

Inv == TypeOK /\ OwnInv /\ StartInv

(* A device that was never started satisfies the invariant.                *)
LEMMA InitInv == Init => Inv
<1> SUFFICES ASSUME Init PROVE Inv
  OBVIOUS
<1>1. slot \in Slots /\ slot.instance = None /\ slot.starting = FALSE
  BY DEF Init, FreshSlot, Slots
<1>2. TypeOK
  <2>1. switching \in BOOLEAN /\ smsMode \in {"native", "vowifi"}
    BY DEF Init
  <2> QED BY <1>1, <2>1 DEF Init, TypeOK, Slots, Labels
<1>3. OwnInv
  BY <1>1 DEF Init, OwnInv, LiveIsOwned, SlotIsLive, Making, Ended, At
<1>4. StartInv
  BY <1>1 DEF StartInv, StartingNotStuck
<1> QED BY <1>2, <1>3, <1>4 DEF Inv

(* The fields other than the slot.                                         *)
RestTyped ==
  /\ generation \in Nat /\ busyGens \subseteq 0..generation
  /\ runMu \in Commands \cup {None} /\ runCancel \in Commands \cup {None}
  /\ cancelled \subseteq Commands /\ live \subseteq Commands /\ invalidated \subseteq Commands
  /\ pc \in [Commands -> Labels]
  /\ cmdGen \in [Commands -> 0..generation] /\ startEpoch \in [Commands -> Nat]
  /\ target \in [Commands -> Commands \cup {None}]
  /\ smsMode \in {"native", "vowifi"} /\ switching \in BOOLEAN

(* The slot's type is kept folded in the proofs below.                     *)
LEMMA TypeParts == TypeOK <=> slot \in Slots /\ RestTyped
BY DEF TypeOK, RestTyped, Slots

(* The two fields of a slot that the steps compare.                        *)
LEMMA SlotFields ==
  ASSUME NEW s \in Slots
  PROVE  s.epoch \in Nat /\ s.instance \in Commands \cup {None}
BY DEF Slots

(* The slot keeps its type: it is only changed by the store's operations.  *)
LEMMA NextSlot == TypeOK /\ [Next]_vars => slot' \in Slots
<1> SUFFICES ASSUME slot \in Slots, RestTyped, [Next]_vars PROVE slot' \in Slots
  BY TypeParts
<1> USE DEF RestTyped, store, At
<1>1. ASSUME NEW c \in Commands,
             \/ SubmitEnable(c) \/ SubmitRecover(c) \/ SubmitSwitchBegin(c) \/ SubmitSwitchEnd(c)
             \/ SubmitReconnect(c) \/ Admit(c) \/ Number(c) \/ Preempt(c) \/ Bind(c) \/ Run(c)
             \/ Unbind(c) \/ Unlock(c) \/ Find(c) \/ RestoreSMS(c) \/ WaitReady(c) \/ Gate(c)
             \/ Check(c) \/ Tunnel(c) \/ MarkRuntimeStarted(c)
      PROVE  slot' \in Slots
  BY <1>1 DEF SubmitEnable, SubmitRecover, SubmitSwitchBegin, SubmitSwitchEnd, SubmitReconnect, Admit, Number, Preempt, Bind, Run, Unbind, Unlock, Find, RestoreSMS, WaitReady, Gate, Check, Tunnel, MarkRuntimeStarted
<1>2. ASSUME NEW c \in Commands, SubmitInvalidating(c) \/ Invalidate(c) PROVE slot' \in Slots
  BY <1>2, StoreTypes DEF SubmitInvalidating, Invalidate, InvalidateRuntime
<1>3. ASSUME NEW c \in Commands, Stop(c) PROVE slot' \in Slots
  BY <1>3, StoreTypes DEF Stop
<1>4. ASSUME NEW c \in Commands, Delete(c) PROVE slot' \in Slots
  BY <1>4, StoreTypes DEF Delete
<1>5. ASSUME NEW c \in Commands, BeginStart(c) PROVE slot' \in Slots
  <2>1. [slot EXCEPT !.starting = TRUE, !.failed = FALSE] \in Slots
    BY DEF Slots
  <2> QED BY <1>5, <2>1 DEF BeginStart
<1>6. ASSUME NEW c \in Commands, PrepareStart(c) PROVE slot' \in Slots
  BY <1>6, StoreTypes DEF PrepareStart
<1>7. ASSUME NEW c \in Commands, BeforeStart(c) PROVE slot' \in Slots
  BY <1>7, StoreTypes DEF BeforeStart
<1>8. ASSUME NEW c \in Commands, AddObserver(c) PROVE slot' \in Slots
  BY <1>8, StoreTypes DEF AddObserver
<1>9. ASSUME NEW c \in Commands, ClaimStarted(c) PROVE slot' \in Slots
  <2>1. Claimed(slot, c) \in Slots
    <3>1. c \in Commands \cup {None} /\ 0 \in Nat
      OBVIOUS
    <3> QED BY <3>1, StoreTypes
  <2>2. CASE Claimable(slot, startEpoch[c])
    BY <1>9, <2>1, <2>2 DEF ClaimStarted
  <2>3. CASE ~ Claimable(slot, startEpoch[c])
    BY <1>9, <2>3 DEF ClaimStarted
  <2> QED BY <2>2, <2>3
<1>10. ASSUME NEW c \in Commands, StopStale(c) PROVE slot' \in Slots
  BY <1>10, StoreTypes DEF StopStale
<1>11. ASSUME NEW c \in Commands, ClearStartup(c) PROVE slot' \in Slots
  BY <1>11, StoreTypes DEF ClearStartup
<1>12. ASSUME NEW c \in Commands, HandleStartupError(c) PROVE slot' \in Slots
  BY <1>12, StoreTypes DEF HandleStartupError
<1>13. ASSUME NEW c \in Commands, FailStart(c) PROVE slot' \in Slots
  BY <1>13, StoreTypes DEF FailStart
<1>14. CASE ClearSwitching \/ UNCHANGED vars
  BY <1>14 DEF ClearSwitching, vars
<1> QED
  BY <1>1, <1>2, <1>3, <1>4, <1>5, <1>6, <1>7, <1>8, <1>9, <1>10, <1>11, <1>12, <1>13, <1>14 DEF Next, Submit, Step

(* The controller, the host and the commands keep their types.             *)
LEMMA NextRest == TypeOK /\ [Next]_vars => RestTyped'
<1> SUFFICES ASSUME slot \in Slots, RestTyped, [Next]_vars PROVE RestTyped'
  BY TypeParts
<1>0. slot.epoch \in Nat /\ slot.instance \in Commands \cup {None}
  BY SlotFields
<1> USE DEF RestTyped, Labels, store, control, host, local, Goto, At
<1>1. ASSUME NEW c \in Commands, SubmitEnable(c) PROVE RestTyped'
  BY <1>0, <1>1 DEF SubmitEnable
<1>2. ASSUME NEW c \in Commands, SubmitInvalidating(c) PROVE RestTyped'
  BY <1>0, <1>2 DEF SubmitInvalidating, InvalidateRuntime, Preempts, Kind
<1>3. ASSUME NEW c \in Commands, SubmitRecover(c) PROVE RestTyped'
  BY <1>0, <1>3 DEF SubmitRecover
<1>4. ASSUME NEW c \in Commands, SubmitSwitchBegin(c) PROVE RestTyped'
  BY <1>0, <1>4 DEF SubmitSwitchBegin
<1>5. ASSUME NEW c \in Commands, SubmitSwitchEnd(c) PROVE RestTyped'
  BY <1>0, <1>5 DEF SubmitSwitchEnd
<1>6. ASSUME NEW c \in Commands, SubmitReconnect(c) PROVE RestTyped'
  BY <1>0, <1>6 DEF SubmitReconnect
<1>7. ASSUME NEW c \in Commands, Admit(c) PROVE RestTyped'
  BY <1>0, <1>7 DEF Admit
<1>8. ASSUME NEW c \in Commands, Number(c) PROVE RestTyped'
  BY <1>0, <1>8 DEF Number
<1>9. ASSUME NEW c \in Commands, Preempt(c) PROVE RestTyped'
  BY <1>0, <1>9 DEF Preempt
<1>10. ASSUME NEW c \in Commands, Bind(c) PROVE RestTyped'
  BY <1>0, <1>10 DEF Bind
<1>11. ASSUME NEW c \in Commands, Run(c) PROVE RestTyped'
  <2>1. FirstStep(c) \in Labels
    BY DEF FirstStep
  <2> QED BY <1>11, <2>1 DEF Run
<1>12. ASSUME NEW c \in Commands, Unbind(c) PROVE RestTyped'
  BY <1>0, <1>12 DEF Unbind
<1>13. ASSUME NEW c \in Commands, Unlock(c) PROVE RestTyped'
  BY <1>0, <1>13 DEF Unlock
<1>14. ASSUME NEW c \in Commands, Invalidate(c) PROVE RestTyped'
  BY <1>0, <1>14 DEF Invalidate, InvalidateRuntime
<1>15. ASSUME NEW c \in Commands, Find(c) PROVE RestTyped'
  BY <1>0, <1>15 DEF Find, AfterTeardown
<1>16. ASSUME NEW c \in Commands, Stop(c) PROVE RestTyped'
  BY <1>0, <1>16 DEF Stop
<1>17. ASSUME NEW c \in Commands, Delete(c) PROVE RestTyped'
  BY <1>0, <1>17 DEF Delete
<1>18. ASSUME NEW c \in Commands, RestoreSMS(c) PROVE RestTyped'
  BY <1>0, <1>18 DEF RestoreSMS, AfterTeardown
<1>19. ASSUME NEW c \in Commands, WaitReady(c) PROVE RestTyped'
  BY <1>0, <1>19 DEF WaitReady
<1>20. ASSUME NEW c \in Commands, Gate(c) PROVE RestTyped'
  BY <1>0, <1>20 DEF Gate
<1>21. ASSUME NEW c \in Commands, BeginStart(c) PROVE RestTyped'
  BY <1>0, <1>21 DEF BeginStart
<1>22. ASSUME NEW c \in Commands, PrepareStart(c) PROVE RestTyped'
  BY <1>0, <1>22 DEF PrepareStart
<1>23. ASSUME NEW c \in Commands, Check(c) PROVE RestTyped'
  BY <1>0, <1>23 DEF Check
<1>24. ASSUME NEW c \in Commands, BeforeStart(c) PROVE RestTyped'
  BY <1>0, <1>24 DEF BeforeStart
<1>25. ASSUME NEW c \in Commands, Tunnel(c) PROVE RestTyped'
  BY <1>0, <1>25 DEF Tunnel
<1>26. ASSUME NEW c \in Commands, AddObserver(c) PROVE RestTyped'
  BY <1>0, <1>26 DEF AddObserver
<1>27. ASSUME NEW c \in Commands, ClaimStarted(c) PROVE RestTyped'
  BY <1>0, <1>27 DEF ClaimStarted
<1>28. ASSUME NEW c \in Commands, MarkRuntimeStarted(c) PROVE RestTyped'
  BY <1>0, <1>28 DEF MarkRuntimeStarted
<1>29. ASSUME NEW c \in Commands, StopStale(c) PROVE RestTyped'
  BY <1>0, <1>29 DEF StopStale
<1>30. ASSUME NEW c \in Commands, ClearStartup(c) PROVE RestTyped'
  BY <1>0, <1>30 DEF ClearStartup
<1>31. ASSUME NEW c \in Commands, HandleStartupError(c) PROVE RestTyped'
  BY <1>0, <1>31 DEF HandleStartupError
<1>32. ASSUME NEW c \in Commands, FailStart(c) PROVE RestTyped'
  BY <1>0, <1>32 DEF FailStart
<1>33. CASE ClearSwitching
  BY <1>33 DEF ClearSwitching
<1>34. CASE UNCHANGED vars
  BY <1>34 DEF vars
<1> QED
  BY <1>1, <1>2, <1>3, <1>4, <1>5, <1>6, <1>7, <1>8, <1>9, <1>10, <1>11, <1>12, <1>13, <1>14, <1>15, <1>16, <1>17, <1>18, <1>19, <1>20, <1>21, <1>22, <1>23, <1>24, <1>25, <1>26, <1>27, <1>28, <1>29, <1>30, <1>31, <1>32,
     <1>33, <1>34 DEF Next, Submit, Step

(* TypeOK is inductive.                                                    *)
LEMMA NextType == TypeOK /\ [Next]_vars => TypeOK'
<1> SUFFICES ASSUME TypeOK, [Next]_vars PROVE TypeOK'
  OBVIOUS
<1>1. slot' \in Slots /\ RestTyped'
  BY NextSlot, NextRest
<1> QED BY <1>1 DEF TypeOK, RestTyped, Slots
-----------------------------------------------------------------------------
(* Every step keeps the instances owned.                                   *)
LEMMA NextOwn == TypeOK /\ OwnInv /\ [Next]_vars => OwnInv'
<1> SUFFICES ASSUME slot \in Slots, RestTyped, OwnInv, [Next]_vars PROVE OwnInv'
  BY TypeParts
<1>0. slot.epoch \in Nat /\ slot.instance \in Commands \cup {None}
  BY SlotFields
<1>t. /\ pc \in [Commands -> Labels] /\ live \subseteq Commands
      /\ target \in [Commands -> Commands \cup {None}] /\ startEpoch \in [Commands -> Nat]
  BY DEF RestTyped
<1> USE DEF OwnInv, LiveIsOwned, SlotIsLive, Making, Ended, store, control, host, local, Goto, At
<1>1. ASSUME NEW c \in Commands, SubmitEnable(c) PROVE OwnInv'
  BY <1>0, <1>t, <1>1 DEF SubmitEnable
<1>2. ASSUME NEW c \in Commands, SubmitInvalidating(c) PROVE OwnInv'
  <2>1. slot'.instance = slot.instance
    BY <1>0, <1>t, <1>2, StoreInstance DEF InvalidateRuntime, SubmitInvalidating
  <2> QED BY <1>0, <1>t, <1>2, <2>1 DEF SubmitInvalidating, Preempts
<1>3. ASSUME NEW c \in Commands, SubmitRecover(c) PROVE OwnInv'
  BY <1>0, <1>t, <1>3 DEF SubmitRecover
<1>4. ASSUME NEW c \in Commands, SubmitSwitchBegin(c) PROVE OwnInv'
  BY <1>0, <1>t, <1>4 DEF SubmitSwitchBegin
<1>5. ASSUME NEW c \in Commands, SubmitSwitchEnd(c) PROVE OwnInv'
  BY <1>0, <1>t, <1>5 DEF SubmitSwitchEnd
<1>6. ASSUME NEW c \in Commands, SubmitReconnect(c) PROVE OwnInv'
  BY <1>0, <1>t, <1>6 DEF SubmitReconnect
<1>7. ASSUME NEW c \in Commands, Admit(c) PROVE OwnInv'
  BY <1>0, <1>t, <1>7 DEF Admit
<1>8. ASSUME NEW c \in Commands, Number(c) PROVE OwnInv'
  BY <1>0, <1>t, <1>8 DEF Number
<1>9. ASSUME NEW c \in Commands, Preempt(c) PROVE OwnInv'
  BY <1>0, <1>t, <1>9 DEF Preempt
<1>10. ASSUME NEW c \in Commands, Bind(c) PROVE OwnInv'
  BY <1>0, <1>t, <1>10 DEF Bind
<1>11. ASSUME NEW c \in Commands, Run(c) PROVE OwnInv'
  BY <1>0, <1>t, <1>11 DEF Run, FirstStep
<1>12. ASSUME NEW c \in Commands, Unbind(c) PROVE OwnInv'
  BY <1>0, <1>t, <1>12 DEF Unbind, Preempts
<1>13. ASSUME NEW c \in Commands, Unlock(c) PROVE OwnInv'
  BY <1>0, <1>t, <1>13 DEF Unlock
<1>14. ASSUME NEW c \in Commands, Invalidate(c) PROVE OwnInv'
  <2>1. slot'.instance = slot.instance
    BY <1>0, <1>t, <1>14, StoreInstance DEF InvalidateRuntime, Invalidate
  <2> QED BY <1>0, <1>t, <1>14, <2>1 DEF Invalidate
<1>15. ASSUME NEW c \in Commands, Find(c) PROVE OwnInv'
  BY <1>0, <1>t, <1>15 DEF Find, AfterTeardown
<1>16. ASSUME NEW c \in Commands, Stop(c) PROVE OwnInv'
  <2>1. slot'.instance = slot.instance
    BY <1>0, <1>t, <1>16, StoreInstance DEF Stop
  <2> QED BY <1>0, <1>t, <1>16, <2>1 DEF Stop
<1>17. ASSUME NEW c \in Commands, Delete(c) PROVE OwnInv'
  <2>1. slot'.instance = IF slot.instance = target[c] THEN None ELSE slot.instance
    BY <1>t, <1>17, StoreInstance DEF Delete
  <2> QED BY <1>0, <1>t, <1>17, <2>1 DEF Delete
<1>18. ASSUME NEW c \in Commands, RestoreSMS(c) PROVE OwnInv'
  BY <1>0, <1>t, <1>18 DEF RestoreSMS, AfterTeardown
<1>19. ASSUME NEW c \in Commands, WaitReady(c) PROVE OwnInv'
  BY <1>0, <1>t, <1>19 DEF WaitReady
<1>20. ASSUME NEW c \in Commands, Gate(c) PROVE OwnInv'
  BY <1>0, <1>t, <1>20 DEF Gate
<1>21. ASSUME NEW c \in Commands, BeginStart(c) PROVE OwnInv'
  <2>1. [slot EXCEPT !.starting = TRUE, !.failed = FALSE].instance = slot.instance
    BY DEF Slots
  <2>2. slot'.instance = slot.instance
    BY <1>21, <2>1 DEF BeginStart
  <2> QED BY <1>0, <1>t, <1>21, <2>2 DEF BeginStart
<1>22. ASSUME NEW c \in Commands, PrepareStart(c) PROVE OwnInv'
  <2>1. slot'.instance = slot.instance
    BY <1>0, <1>t, <1>22, StoreInstance DEF PrepareStart
  <2> QED BY <1>0, <1>t, <1>22, <2>1 DEF PrepareStart
<1>23. ASSUME NEW c \in Commands, Check(c) PROVE OwnInv'
  BY <1>0, <1>t, <1>23 DEF Check
<1>24. ASSUME NEW c \in Commands, BeforeStart(c) PROVE OwnInv'
  <2>1. slot'.instance = slot.instance
    BY <1>0, <1>t, <1>24, StoreInstance DEF BeforeStart
  <2> QED BY <1>0, <1>t, <1>24, <2>1 DEF BeforeStart
<1>25. ASSUME NEW c \in Commands, Tunnel(c) PROVE OwnInv'
  BY <1>0, <1>t, <1>25 DEF Tunnel
<1>26. ASSUME NEW c \in Commands, AddObserver(c) PROVE OwnInv'
  <2>1. slot'.instance = slot.instance
    BY <1>0, <1>t, <1>26, StoreInstance DEF AddObserver
  <2> QED BY <1>0, <1>t, <1>26, <2>1 DEF AddObserver
<1>27. ASSUME NEW c \in Commands, ClaimStarted(c) PROVE OwnInv'
  <2>1. CASE pc'[c] = "stopStale"
    BY <1>0, <1>t, <1>27, <2>1 DEF ClaimStarted
  <2>2. CASE pc'[c] = "clearStarted"
    <3>1. slot.instance = None /\ slot'.instance = c
      BY <1>t, <1>27, <2>2, StoreInstance DEF ClaimStarted, Claimable
    <3> QED BY <1>0, <1>t, <1>27, <2>2, <3>1 DEF ClaimStarted
  <2> QED BY <1>t, <1>27, <2>1, <2>2 DEF ClaimStarted
<1>28. ASSUME NEW c \in Commands, MarkRuntimeStarted(c) PROVE OwnInv'
  BY <1>0, <1>t, <1>28 DEF MarkRuntimeStarted
<1>29. ASSUME NEW c \in Commands, StopStale(c) PROVE OwnInv'
  <2>1. slot'.instance = slot.instance
    BY <1>0, <1>t, <1>29, StoreInstance DEF StopStale
  <2> QED BY <1>0, <1>t, <1>29, <2>1 DEF StopStale
<1>30. ASSUME NEW c \in Commands, ClearStartup(c) PROVE OwnInv'
  <2>1. slot'.instance = slot.instance
    BY <1>0, <1>t, <1>30, StoreInstance DEF ClearStartup
  <2> QED BY <1>0, <1>t, <1>30, <2>1 DEF ClearStartup
<1>31. ASSUME NEW c \in Commands, HandleStartupError(c) PROVE OwnInv'
  <2>1. slot'.instance = slot.instance
    BY <1>0, <1>t, <1>31, StoreInstance DEF HandleStartupError
  <2> QED BY <1>0, <1>t, <1>31, <2>1 DEF HandleStartupError
<1>32. ASSUME NEW c \in Commands, FailStart(c) PROVE OwnInv'
  <2>1. slot'.instance = slot.instance
    BY <1>0, <1>t, <1>32, StoreInstance DEF FailStart
  <2> QED BY <1>0, <1>t, <1>32, <2>1 DEF FailStart
<1>33. CASE ClearSwitching \/ UNCHANGED vars
  BY <1>33 DEF ClearSwitching, vars
<1> QED
  BY <1>1, <1>2, <1>3, <1>4, <1>5, <1>6, <1>7, <1>8, <1>9, <1>10, <1>11, <1>12, <1>13, <1>14, <1>15, <1>16, <1>17, <1>18, <1>19, <1>20, <1>21, <1>22, <1>23, <1>24, <1>25, <1>26, <1>27, <1>28, <1>29, <1>30, <1>31, <1>32, <1>33 DEF Next, Submit, Step
-----------------------------------------------------------------------------
(* Every step keeps the starting mark with a start that will clear it.     *)
LEMMA NextStart == TypeOK /\ StartInv /\ [Next]_vars => StartInv'
<1> SUFFICES ASSUME slot \in Slots, RestTyped, StartInv, [Next]_vars PROVE StartInv'
  BY TypeParts
<1>0. slot.epoch \in Nat /\ slot.instance \in Commands \cup {None}
  BY SlotFields
<1>t. /\ pc \in [Commands -> Labels] /\ startEpoch \in [Commands -> Nat]
      /\ target \in [Commands -> Commands \cup {None}]
  BY DEF RestTyped
<1>o. ASSUME NEW i \in Commands \cup {None}
      PROVE  /\ Observed(slot, i).starting = slot.starting
             /\ Observed(slot, i).epoch = slot.epoch
             /\ Observed(slot, i).instance = slot.instance
  <2>1. Observed(slot, i).instance = slot.instance
    BY StoreInstance
  <2> QED BY <2>1, InstanceStarting
<1> USE DEF StartInv, StartingNotStuck, store, control, host, local, Goto, At
<1>1. ASSUME NEW c \in Commands, SubmitEnable(c) PROVE StartInv'
  BY <1>0, <1>t, <1>1 DEF SubmitEnable
<1>2. ASSUME NEW c \in Commands, SubmitInvalidating(c) PROVE StartInv'
  <2>1. slot'.starting = FALSE
    BY <1>2, StoreStarting DEF SubmitInvalidating, InvalidateRuntime
  <2> QED BY <2>1
<1>3. ASSUME NEW c \in Commands, SubmitRecover(c) PROVE StartInv'
  BY <1>0, <1>t, <1>3 DEF SubmitRecover
<1>4. ASSUME NEW c \in Commands, SubmitSwitchBegin(c) PROVE StartInv'
  BY <1>0, <1>t, <1>4 DEF SubmitSwitchBegin
<1>5. ASSUME NEW c \in Commands, SubmitSwitchEnd(c) PROVE StartInv'
  BY <1>0, <1>t, <1>5 DEF SubmitSwitchEnd
<1>6. ASSUME NEW c \in Commands, SubmitReconnect(c) PROVE StartInv'
  BY <1>0, <1>t, <1>6 DEF SubmitReconnect
<1>7. ASSUME NEW c \in Commands, Admit(c) PROVE StartInv'
  BY <1>0, <1>t, <1>7 DEF Admit
<1>8. ASSUME NEW c \in Commands, Number(c) PROVE StartInv'
  BY <1>0, <1>t, <1>8 DEF Number
<1>9. ASSUME NEW c \in Commands, Preempt(c) PROVE StartInv'
  BY <1>0, <1>t, <1>9 DEF Preempt
<1>10. ASSUME NEW c \in Commands, Bind(c) PROVE StartInv'
  BY <1>0, <1>t, <1>10 DEF Bind
<1>11. ASSUME NEW c \in Commands, Run(c) PROVE StartInv'
  BY <1>0, <1>t, <1>11 DEF Run, FirstStep
<1>12. ASSUME NEW c \in Commands, Unbind(c) PROVE StartInv'
  BY <1>0, <1>t, <1>12 DEF Unbind, Preempts
<1>13. ASSUME NEW c \in Commands, Unlock(c) PROVE StartInv'
  BY <1>0, <1>t, <1>13 DEF Unlock
<1>14. ASSUME NEW c \in Commands, Invalidate(c) PROVE StartInv'
  <2>1. slot'.starting = FALSE
    BY <1>14, StoreStarting DEF Invalidate, InvalidateRuntime
  <2> QED BY <2>1
<1>15. ASSUME NEW c \in Commands, Find(c) PROVE StartInv'
  BY <1>0, <1>t, <1>15 DEF Find, AfterTeardown
<1>16. ASSUME NEW c \in Commands, Stop(c) PROVE StartInv'
  <2>0. /\ target[c] \in Commands \cup {None}
        /\ Observed(slot, target[c]).starting = slot.starting
        /\ Observed(slot, target[c]).epoch = slot.epoch
        /\ Observed(slot, target[c]).instance = slot.instance
    BY <1>t, <1>o
  <2>1. slot'.starting => slot.starting /\ slot'.epoch = slot.epoch /\ slot'.instance = slot.instance
    BY <1>16, <2>0 DEF Stop
  <2> QED BY <1>0, <1>t, <1>16, <2>1 DEF Stop
<1>17. ASSUME NEW c \in Commands, Delete(c) PROVE StartInv'
  <2>1. CASE slot.instance = target[c]
    <3>1. ~ WithoutInstance(slot, target[c]).starting
      BY <1>t, <2>1, InstanceStarting
    <3>2. slot' = WithoutInstance(slot, target[c])
      BY <1>17 DEF Delete
    <3> QED BY <3>1, <3>2
  <2>2. CASE slot.instance # target[c]
    <3>1. slot' = slot
      BY <1>t, <1>17, <2>2, InstanceStarting DEF Delete
    <3> QED BY <1>t, <1>17, <3>1 DEF Delete
  <2> QED BY <2>1, <2>2
<1>18. ASSUME NEW c \in Commands, RestoreSMS(c) PROVE StartInv'
  BY <1>0, <1>t, <1>18 DEF RestoreSMS, AfterTeardown
<1>19. ASSUME NEW c \in Commands, WaitReady(c) PROVE StartInv'
  BY <1>0, <1>t, <1>19 DEF WaitReady
<1>20. ASSUME NEW c \in Commands, Gate(c) PROVE StartInv'
  BY <1>0, <1>t, <1>20 DEF Gate
<1>21. ASSUME NEW c \in Commands, BeginStart(c) PROVE StartInv'
  <2>1. CASE slot.instance # None \/ slot.starting
    BY <1>t, <1>21, <2>1 DEF BeginStart
  <2>2. CASE slot.instance = None /\ ~ slot.starting
    <3>1. /\ [slot EXCEPT !.starting = TRUE, !.failed = FALSE].instance = slot.instance
          /\ [slot EXCEPT !.starting = TRUE, !.failed = FALSE].epoch = slot.epoch
      BY DEF Slots
    <3>2. /\ slot'.instance = None /\ pc'[c] = "prepare" /\ startEpoch'[c] = slot'.epoch
      BY <1>t, <1>21, <2>2, <3>1 DEF BeginStart
    <3> QED BY <3>2
  <2> QED BY <2>1, <2>2
<1>22. ASSUME NEW c \in Commands, PrepareStart(c) PROVE StartInv'
  <2>0. /\ WithStartupState(slot).starting = slot.starting
        /\ WithStartupState(slot).epoch = slot.epoch
        /\ WithStartupState(slot).instance = slot.instance
    BY <1>0, StoreStarting, StoreInstance
  <2>1. slot'.starting => slot.starting /\ slot'.epoch = slot.epoch /\ slot'.instance = slot.instance
    BY <1>22, <2>0 DEF PrepareStart
  <2> QED BY <1>0, <1>t, <1>22, <2>1 DEF PrepareStart
<1>23. ASSUME NEW c \in Commands, Check(c) PROVE StartInv'
  BY <1>0, <1>t, <1>23 DEF Check
<1>24. ASSUME NEW c \in Commands, BeforeStart(c) PROVE StartInv'
  <2>1. slot'.starting => slot.starting /\ slot'.epoch = slot.epoch /\ slot'.instance = slot.instance
    BY <1>0, <1>t, <1>24, StoreStarting, StoreInstance DEF BeforeStart
  <2> QED BY <1>0, <1>t, <1>24, <2>1 DEF BeforeStart
<1>25. ASSUME NEW c \in Commands, Tunnel(c) PROVE StartInv'
  BY <1>0, <1>t, <1>25 DEF Tunnel
<1>26. ASSUME NEW c \in Commands, AddObserver(c) PROVE StartInv'
  <2>0. /\ Observed(slot, c).starting = slot.starting
        /\ Observed(slot, c).epoch = slot.epoch
        /\ Observed(slot, c).instance = slot.instance
    BY <1>o
  <2>1. slot'.starting => slot.starting /\ slot'.epoch = slot.epoch /\ slot'.instance = slot.instance
    BY <1>26, <2>0 DEF AddObserver
  <2> QED BY <1>0, <1>t, <1>26, <2>1 DEF AddObserver
<1>27. ASSUME NEW c \in Commands, ClaimStarted(c) PROVE StartInv'
  <2>1. CASE Claimable(slot, startEpoch[c])
    <3>1. Claimed(slot, c).starting = FALSE
      BY InstanceStarting
    <3>2. slot' = Claimed(slot, c)
      BY <1>27, <2>1 DEF ClaimStarted
    <3> QED BY <3>1, <3>2
  <2>2. CASE ~ Claimable(slot, startEpoch[c])
    BY <1>0, <1>t, <1>27, <2>2 DEF ClaimStarted, Claimable
  <2> QED BY <2>1, <2>2
<1>28. ASSUME NEW c \in Commands, MarkRuntimeStarted(c) PROVE StartInv'
  BY <1>0, <1>t, <1>28 DEF MarkRuntimeStarted
<1>29. ASSUME NEW c \in Commands, StopStale(c) PROVE StartInv'
  <2>0. /\ Observed(slot, c).starting = slot.starting
        /\ Observed(slot, c).epoch = slot.epoch
        /\ Observed(slot, c).instance = slot.instance
    BY <1>o
  <2>1. slot'.starting => slot.starting /\ slot'.epoch = slot.epoch /\ slot'.instance = slot.instance
    BY <1>29, <2>0 DEF StopStale
  <2> QED BY <1>0, <1>t, <1>29, <2>1 DEF StopStale
<1>30. ASSUME NEW c \in Commands, ClearStartup(c) PROVE StartInv'
  <2>1. slot'.starting => slot.starting /\ slot'.epoch = slot.epoch /\ slot'.instance = slot.instance
    BY <1>0, <1>t, <1>30, StoreStarting, StoreInstance DEF ClearStartup
  <2> QED BY <1>0, <1>t, <1>30, <2>1 DEF ClearStartup
<1>31. ASSUME NEW c \in Commands, HandleStartupError(c) PROVE StartInv'
  <2>1. slot'.starting => slot.starting /\ slot'.epoch = slot.epoch /\ slot'.instance = slot.instance
    BY <1>0, <1>t, <1>31, StoreStarting, StoreInstance DEF HandleStartupError
  <2> QED BY <1>0, <1>t, <1>31, <2>1 DEF HandleStartupError
<1>32. ASSUME NEW c \in Commands, FailStart(c) PROVE StartInv'
  <2>1. CASE slot.epoch = startEpoch[c]
    <3>1. Failed(slot, startEpoch[c]).starting = FALSE
      BY <1>t, <2>1, FailedStarting
    <3>2. slot' = Failed(slot, startEpoch[c])
      BY <1>32 DEF FailStart
    <3> QED BY <3>1, <3>2
  <2>2. CASE slot.epoch # startEpoch[c]
    <3>1. slot' = slot
      BY <1>32, <2>2 DEF FailStart, Failed
    <3> QED BY <1>0, <1>t, <1>32, <2>2, <3>1 DEF FailStart
  <2> QED BY <2>1, <2>2
<1>33. CASE ClearSwitching \/ UNCHANGED vars
  BY <1>33 DEF ClearSwitching, vars
<1> QED
  BY <1>1, <1>2, <1>3, <1>4, <1>5, <1>6, <1>7, <1>8, <1>9, <1>10, <1>11, <1>12, <1>13, <1>14, <1>15, <1>16, <1>17, <1>18, <1>19, <1>20, <1>21, <1>22, <1>23, <1>24, <1>25, <1>26, <1>27, <1>28, <1>29, <1>30, <1>31, <1>32, <1>33 DEF Next, Submit, Step
-----------------------------------------------------------------------------
(* The invariant holds from the start and every step keeps it.             *)
THEOREM Invariant == Spec => []Inv
<1>1. Init => Inv
  BY InitInv
<1>2. Inv /\ [Next]_vars => Inv'
  BY NextType, NextOwn, NextStart DEF Inv
<1> QED BY <1>1, <1>2, PTL DEF Spec

(* The slot, the lifecycle and the commands keep their types; a generation *)
(* in a command's hands was handed out by the lifecycle.                   *)
THEOREM HostTyped == Spec => []TypeOK
<1>1. Inv => TypeOK
  BY DEF Inv
<1> QED BY <1>1, Invariant, PTL

(* However starts, teardowns, switches and restarts interleave, an         *)
(* instance that runs is the registered one or in the hands of the start   *)
(* that will register or stop it: no tunnel is left running unowned.       *)
THEOREM NoInstanceLost == Spec => []LiveIsOwned
<1>1. Inv => LiveIsOwned
  BY DEF Inv, OwnInv
<1> QED BY <1>1, Invariant, PTL

(* What the store registers runs, or is just being removed by the teardown *)
(* that stopped it.                                                        *)
THEOREM RegisteredRuns == Spec => []SlotIsLive
<1>1. Inv => SlotIsLive
  BY DEF Inv, OwnInv
<1> QED BY <1>1, Invariant, PTL

(* A starting mark is never orphaned: the start that set it, or one of the *)
(* same epoch, will clear it.                                              *)
THEOREM MarkHasStart == Spec => []StartingNotStuck
<1>1. Inv => StartingNotStuck
  BY DEF Inv, StartInv
<1> QED BY <1>1, Invariant, PTL
-----------------------------------------------------------------------------
(* What a step of a command does to the slot, and to where commands are.   *)

(* Only clearing the startup state can take the epoch back.                *)
LEMMA StoreEpoch ==
  ASSUME NEW s \in Slots, NEW i \in Commands \cup {None}, NEW e \in Nat
  PROVE  /\ Invalidated(s).epoch = s.epoch + 1
         /\ WithStartupState(s).epoch = s.epoch
         /\ Claimed(s, i).epoch = s.epoch
         /\ Failed(s, e).epoch = s.epoch
         /\ WithoutInstance(s, i).epoch = s.epoch
         /\ Observed(s, i).epoch = s.epoch
<1>1. Invalidated(s).epoch = s.epoch + 1
  <2>1. \A n \in Nat : [s EXCEPT !.epoch = n, !.starting = FALSE,
                                 !.hasState = FALSE, !.failed = FALSE].epoch = n
    BY DEF Slots
  <2>2. s.epoch + 1 \in Nat
    BY DEF Slots
  <2> QED BY <2>1, <2>2 DEF Invalidated
<1>2. WithStartupState(s).epoch = s.epoch
  BY DEF WithStartupState, Slots
<1>3. Claimed(s, i).epoch = s.epoch
  BY DEF Claimed, Slots
<1>4. Failed(s, e).epoch = s.epoch
  BY DEF Failed, Slots
<1>5. WithoutInstance(s, i).epoch = s.epoch
  BY DEF WithoutInstance, FreshSlot, Slots
<1>6. Observed(s, i).epoch = s.epoch
  BY <1>2 DEF Observed
<1> QED BY <1>1, <1>2, <1>3, <1>4, <1>5, <1>6

(* The epoch goes up when the runtime is invalidated, and never down except*)
(* by a start that is over.                                                *)
EpochStep(d) ==
  /\ pc[d] \notin {"clearStarted", "clearStale", "error"} => slot'.epoch >= slot.epoch
  /\ invalidated' \subseteq invalidated \/ slot'.epoch > slot.epoch
  /\ pc[d] = "invalidate" => slot'.epoch > slot.epoch

(* An instance is registered by the claim of its start, under the epoch the*)
(* start began with, and removed by a teardown.                            *)
Claims(d) == pc[d] = "claim" /\ pc'[d] = "clearStarted"
InstanceStep(d) ==
  /\ Claims(d) => /\ slot.instance = None /\ slot'.instance = d
                  /\ slot.epoch = startEpoch[d] /\ slot'.epoch = slot.epoch
  /\ pc[d] = "delete" =>
       slot'.instance = IF slot.instance = target[d] THEN None ELSE slot.instance
  /\ Claims(d) \/ pc[d] = "delete" \/ slot'.instance = slot.instance

(* Steps that leave the slot alone.                                        *)
LEMMA SameSlot ==
  ASSUME slot \in Slots, NEW d \in Commands, slot' = slot, invalidated' \subseteq invalidated,
         pc[d] \notin {"claim", "delete", "invalidate"}
  PROVE  EpochStep(d) /\ InstanceStep(d)
<1>1. slot.epoch \in Nat
  BY SlotFields
<1> QED BY <1>1 DEF EpochStep, InstanceStep, Claims

(* Steps that change neither the epoch nor the instance.                   *)
LEMMA SameFields ==
  ASSUME slot \in Slots, NEW d \in Commands, slot'.epoch = slot.epoch,
         slot'.instance = slot.instance, invalidated' = invalidated,
         pc[d] \notin {"claim", "delete", "invalidate"}
  PROVE  EpochStep(d) /\ InstanceStep(d)
<1>1. slot.epoch \in Nat
  BY SlotFields
<1> QED BY <1>1 DEF EpochStep, InstanceStep, Claims

(* Every step of a command is one of EpochStep and of InstanceStep.        *)
LEMMA SlotSteps ==
  ASSUME TypeOK, NEW d \in Commands, Submit(d) \/ Step(d)
  PROVE  EpochStep(d) /\ InstanceStep(d)
<1>t. slot \in Slots /\ RestTyped
  BY TypeParts
<1>0. slot.epoch \in Nat /\ slot.instance \in Commands \cup {None}
  BY <1>t, SlotFields
<1>s. /\ pc \in [Commands -> Labels] /\ target \in [Commands -> Commands \cup {None}]
      /\ startEpoch \in [Commands -> Nat]
  BY <1>t DEF RestTyped
<1> USE DEF store, local, At, Goto
<1>1. ASSUME SubmitEnable(d) \/ SubmitRecover(d) \/ SubmitSwitchBegin(d) \/ SubmitSwitchEnd(d) \/ SubmitReconnect(d) \/ Admit(d) \/ Number(d) \/ Preempt(d) \/ Bind(d) \/ Run(d) \/ Unbind(d) \/ Unlock(d) \/ Find(d) \/ RestoreSMS(d) \/ WaitReady(d) \/ Gate(d) \/ Check(d) \/ Tunnel(d) \/ MarkRuntimeStarted(d)
      PROVE  EpochStep(d) /\ InstanceStep(d)
  BY <1>t, <1>1, SameSlot DEF SubmitEnable, SubmitRecover, SubmitSwitchBegin, SubmitSwitchEnd, SubmitReconnect, Admit, Number, Preempt, Bind, Run, Unbind, Unlock, Find, RestoreSMS, WaitReady, Gate, Check, Tunnel, MarkRuntimeStarted
<1>2. ASSUME SubmitInvalidating(d) \/ Invalidate(d) PROVE EpochStep(d) /\ InstanceStep(d)
  <2>1. slot' = Invalidated(slot) /\ pc[d] \in {"new", "invalidate"}
    BY <1>2 DEF SubmitInvalidating, Invalidate, InvalidateRuntime
  <2>2. slot'.epoch = slot.epoch + 1 /\ slot'.instance = slot.instance
    BY <1>t, <2>1, StoreEpoch, StoreInstance
  <2> QED BY <1>0, <2>1, <2>2 DEF EpochStep, InstanceStep, Claims
<1>3. ASSUME Stop(d) PROVE EpochStep(d) /\ InstanceStep(d)
  <2>1. slot'.epoch = slot.epoch /\ slot'.instance = slot.instance
    BY <1>t, <1>s, <1>3, StoreEpoch, StoreInstance DEF Stop
  <2> QED BY <1>t, <1>3, <2>1, SameFields DEF Stop
<1>4. ASSUME PrepareStart(d) PROVE EpochStep(d) /\ InstanceStep(d)
  <2>1. slot'.epoch = slot.epoch /\ slot'.instance = slot.instance
    BY <1>t, <1>s, <1>4, StoreEpoch, StoreInstance DEF PrepareStart
  <2> QED BY <1>t, <1>4, <2>1, SameFields DEF PrepareStart
<1>5. ASSUME BeforeStart(d) PROVE EpochStep(d) /\ InstanceStep(d)
  <2>1. slot'.epoch = slot.epoch /\ slot'.instance = slot.instance
    BY <1>t, <1>s, <1>5, StoreEpoch, StoreInstance DEF BeforeStart
  <2> QED BY <1>t, <1>5, <2>1, SameFields DEF BeforeStart
<1>6. ASSUME AddObserver(d) PROVE EpochStep(d) /\ InstanceStep(d)
  <2>1. slot'.epoch = slot.epoch /\ slot'.instance = slot.instance
    BY <1>t, <1>s, <1>6, StoreEpoch, StoreInstance DEF AddObserver
  <2> QED BY <1>t, <1>6, <2>1, SameFields DEF AddObserver
<1>7. ASSUME StopStale(d) PROVE EpochStep(d) /\ InstanceStep(d)
  <2>1. slot'.epoch = slot.epoch /\ slot'.instance = slot.instance
    BY <1>t, <1>s, <1>7, StoreEpoch, StoreInstance DEF StopStale
  <2> QED BY <1>t, <1>7, <2>1, SameFields DEF StopStale
<1>8. ASSUME FailStart(d) PROVE EpochStep(d) /\ InstanceStep(d)
  <2>1. slot'.epoch = slot.epoch /\ slot'.instance = slot.instance
    BY <1>t, <1>s, <1>8, StoreEpoch, StoreInstance DEF FailStart
  <2> QED BY <1>t, <1>8, <2>1, SameFields DEF FailStart
<1>9. ASSUME BeginStart(d) PROVE EpochStep(d) /\ InstanceStep(d)
  <2>1. /\ [slot EXCEPT !.starting = TRUE, !.failed = FALSE].epoch = slot.epoch
        /\ [slot EXCEPT !.starting = TRUE, !.failed = FALSE].instance = slot.instance
    BY <1>t DEF Slots
  <2>2. slot'.epoch = slot.epoch /\ slot'.instance = slot.instance
    BY <1>9, <2>1 DEF BeginStart
  <2> QED BY <1>0, <1>9, <2>2 DEF BeginStart, EpochStep, InstanceStep, Claims
<1>10. ASSUME Delete(d) PROVE EpochStep(d) /\ InstanceStep(d)
  <2>1. /\ slot'.epoch = slot.epoch
        /\ slot'.instance = IF slot.instance = target[d] THEN None ELSE slot.instance
    BY <1>t, <1>s, <1>10, StoreEpoch, StoreInstance DEF Delete
  <2> QED BY <1>0, <1>10, <2>1 DEF Delete, EpochStep, InstanceStep, Claims
<1>11. ASSUME ClaimStarted(d) PROVE EpochStep(d) /\ InstanceStep(d)
  <2>1. CASE Claimable(slot, startEpoch[d])
    <3>1. /\ slot.instance = None /\ slot.epoch = startEpoch[d] /\ slot' = Claimed(slot, d)
          /\ pc'[d] = "clearStarted"
      BY <1>s, <1>11, <2>1 DEF ClaimStarted, Claimable
    <3>2. slot'.epoch = slot.epoch /\ slot'.instance = d
      BY <1>t, <3>1, StoreEpoch, StoreInstance
    <3> QED BY <1>0, <1>11, <3>1, <3>2 DEF ClaimStarted, EpochStep, InstanceStep, Claims
  <2>2. CASE ~ Claimable(slot, startEpoch[d])
    BY <1>0, <1>s, <1>11, <2>2 DEF ClaimStarted, EpochStep, InstanceStep, Claims
  <2> QED BY <2>1, <2>2
<1>12. ASSUME ClearStartup(d) \/ HandleStartupError(d) PROVE EpochStep(d) /\ InstanceStep(d)
  <2>1. slot'.instance = slot.instance
    BY <1>t, <1>12, StoreInstance DEF ClearStartup, HandleStartupError
  <2> QED BY <1>12, <2>1 DEF ClearStartup, HandleStartupError, EpochStep, InstanceStep, Claims
<1> QED BY <1>1, <1>2, <1>3, <1>4, <1>5, <1>6, <1>7, <1>8, <1>9, <1>10, <1>11, <1>12 DEF Submit, Step

(* A step moves one command, and the others keep what they know.           *)
OthersKept(d) ==
  \A c \in Commands : c # d =>
    pc'[c] = pc[c] /\ startEpoch'[c] = startEpoch[c] /\ target'[c] = target[c]

LEMMA OneMoves ==
  ASSUME TypeOK, NEW d \in Commands, Submit(d) \/ Step(d)
  PROVE  OthersKept(d) /\ pc'[d] # "new"
<1>s. /\ pc \in [Commands -> Labels] /\ target \in [Commands -> Commands \cup {None}]
      /\ startEpoch \in [Commands -> Nat]
  BY DEF TypeOK
<1> USE DEF OthersKept, local, At, Goto
<1>1. ASSUME SubmitEnable(d) PROVE OthersKept(d) /\ pc'[d] # "new"
  BY <1>s, <1>1 DEF SubmitEnable
<1>2. ASSUME SubmitInvalidating(d) PROVE OthersKept(d) /\ pc'[d] # "new"
  BY <1>s, <1>2 DEF SubmitInvalidating, Preempts, InvalidateRuntime
<1>3. ASSUME SubmitRecover(d) PROVE OthersKept(d) /\ pc'[d] # "new"
  BY <1>s, <1>3 DEF SubmitRecover
<1>4. ASSUME SubmitSwitchBegin(d) PROVE OthersKept(d) /\ pc'[d] # "new"
  BY <1>s, <1>4 DEF SubmitSwitchBegin
<1>5. ASSUME SubmitSwitchEnd(d) PROVE OthersKept(d) /\ pc'[d] # "new"
  BY <1>s, <1>5 DEF SubmitSwitchEnd
<1>6. ASSUME SubmitReconnect(d) PROVE OthersKept(d) /\ pc'[d] # "new"
  BY <1>s, <1>6 DEF SubmitReconnect
<1>7. ASSUME Admit(d) PROVE OthersKept(d) /\ pc'[d] # "new"
  BY <1>s, <1>7 DEF Admit
<1>8. ASSUME Number(d) PROVE OthersKept(d) /\ pc'[d] # "new"
  BY <1>s, <1>8 DEF Number
<1>9. ASSUME Preempt(d) PROVE OthersKept(d) /\ pc'[d] # "new"
  BY <1>s, <1>9 DEF Preempt
<1>10. ASSUME Bind(d) PROVE OthersKept(d) /\ pc'[d] # "new"
  BY <1>s, <1>10 DEF Bind
<1>11. ASSUME Run(d) PROVE OthersKept(d) /\ pc'[d] # "new"
  <2>1. FirstStep(d) \in {"gate", "find", "unbind", "invalidate"}
    BY DEF FirstStep
  <2> QED BY <1>s, <1>11, <2>1 DEF Run
<1>12. ASSUME Unbind(d) PROVE OthersKept(d) /\ pc'[d] # "new"
  BY <1>s, <1>12 DEF Unbind, Preempts
<1>13. ASSUME Unlock(d) PROVE OthersKept(d) /\ pc'[d] # "new"
  BY <1>s, <1>13 DEF Unlock
<1>14. ASSUME Invalidate(d) PROVE OthersKept(d) /\ pc'[d] # "new"
  BY <1>s, <1>14 DEF Invalidate, InvalidateRuntime
<1>15. ASSUME Find(d) PROVE OthersKept(d) /\ pc'[d] # "new"
  <2>1. AfterTeardown(d) \in {"done", "ready", "unbind"}
    BY DEF AfterTeardown
  <2> QED BY <1>s, <1>15, <2>1 DEF Find
<1>16. ASSUME Stop(d) PROVE OthersKept(d) /\ pc'[d] # "new"
  BY <1>s, <1>16 DEF Stop
<1>17. ASSUME Delete(d) PROVE OthersKept(d) /\ pc'[d] # "new"
  BY <1>s, <1>17 DEF Delete
<1>18. ASSUME RestoreSMS(d) PROVE OthersKept(d) /\ pc'[d] # "new"
  <2>1. AfterTeardown(d) \in {"done", "ready", "unbind"}
    BY DEF AfterTeardown
  <2> QED BY <1>s, <1>18, <2>1 DEF RestoreSMS
<1>19. ASSUME WaitReady(d) PROVE OthersKept(d) /\ pc'[d] # "new"
  BY <1>s, <1>19 DEF WaitReady
<1>20. ASSUME Gate(d) PROVE OthersKept(d) /\ pc'[d] # "new"
  BY <1>s, <1>20 DEF Gate
<1>21. ASSUME BeginStart(d) PROVE OthersKept(d) /\ pc'[d] # "new"
  BY <1>s, <1>21 DEF BeginStart
<1>22. ASSUME PrepareStart(d) PROVE OthersKept(d) /\ pc'[d] # "new"
  BY <1>s, <1>22 DEF PrepareStart
<1>23. ASSUME Check(d) PROVE OthersKept(d) /\ pc'[d] # "new"
  BY <1>s, <1>23 DEF Check
<1>24. ASSUME BeforeStart(d) PROVE OthersKept(d) /\ pc'[d] # "new"
  BY <1>s, <1>24 DEF BeforeStart
<1>25. ASSUME Tunnel(d) PROVE OthersKept(d) /\ pc'[d] # "new"
  BY <1>s, <1>25 DEF Tunnel
<1>26. ASSUME AddObserver(d) PROVE OthersKept(d) /\ pc'[d] # "new"
  BY <1>s, <1>26 DEF AddObserver
<1>27. ASSUME ClaimStarted(d) PROVE OthersKept(d) /\ pc'[d] # "new"
  BY <1>s, <1>27 DEF ClaimStarted
<1>28. ASSUME MarkRuntimeStarted(d) PROVE OthersKept(d) /\ pc'[d] # "new"
  BY <1>s, <1>28 DEF MarkRuntimeStarted
<1>29. ASSUME StopStale(d) PROVE OthersKept(d) /\ pc'[d] # "new"
  BY <1>s, <1>29 DEF StopStale
<1>30. ASSUME ClearStartup(d) PROVE OthersKept(d) /\ pc'[d] # "new"
  BY <1>s, <1>30 DEF ClearStartup
<1>31. ASSUME HandleStartupError(d) PROVE OthersKept(d) /\ pc'[d] # "new"
  BY <1>s, <1>31 DEF HandleStartupError
<1>32. ASSUME FailStart(d) PROVE OthersKept(d) /\ pc'[d] # "new"
  BY <1>s, <1>32 DEF FailStart
<1> QED BY <1>1, <1>2, <1>3, <1>4, <1>5, <1>6, <1>7, <1>8, <1>9, <1>10, <1>11, <1>12, <1>13, <1>14, <1>15, <1>16, <1>17, <1>18, <1>19, <1>20, <1>21, <1>22, <1>23, <1>24, <1>25, <1>26, <1>27, <1>28, <1>29, <1>30, <1>31, <1>32 DEF Submit, Step

-----------------------------------------------------------------------------
(* Where the commands of each kind go.                                     *)

Teardown == {"new", "invalidate", "find", "stop", "delete", "restoreSMS", "done"}

(* A reconnect only tears down, and so does the command that begins a      *)
(* switch once it has preempted.                                           *)
KindInv ==
  \A c \in Commands :
    /\ Kind(c) = "reconnect" => pc[c] \in Teardown
    /\ Kind(c) = "switchBegin" =>
         pc[c] \in Teardown \cup {"number", "preempt", "bind", "run", "unbind"}

(* KindInv is inductive.                                                   *)
LEMMA KindsStep ==
  ASSUME TypeOK, KindInv, NEW d \in Commands, Submit(d) \/ Step(d)
  PROVE  KindInv'
<1>s. pc \in [Commands -> Labels]
  BY DEF TypeOK
<1> USE DEF KindInv, Teardown, At, Goto
<1>1. ASSUME SubmitEnable(d) PROVE KindInv'
  BY <1>s, <1>1 DEF SubmitEnable
<1>2. ASSUME SubmitInvalidating(d) PROVE KindInv'
  BY <1>s, <1>2 DEF SubmitInvalidating, Preempts, InvalidateRuntime
<1>3. ASSUME SubmitRecover(d) PROVE KindInv'
  BY <1>s, <1>3 DEF SubmitRecover
<1>4. ASSUME SubmitSwitchBegin(d) PROVE KindInv'
  BY <1>s, <1>4 DEF SubmitSwitchBegin
<1>5. ASSUME SubmitSwitchEnd(d) PROVE KindInv'
  BY <1>s, <1>5 DEF SubmitSwitchEnd
<1>6. ASSUME SubmitReconnect(d) PROVE KindInv'
  BY <1>s, <1>6 DEF SubmitReconnect
<1>7. ASSUME Admit(d) PROVE KindInv'
  BY <1>s, <1>7 DEF Admit
<1>8. ASSUME Number(d) PROVE KindInv'
  BY <1>s, <1>8 DEF Number
<1>9. ASSUME Preempt(d) PROVE KindInv'
  BY <1>s, <1>9 DEF Preempt
<1>10. ASSUME Bind(d) PROVE KindInv'
  BY <1>s, <1>10 DEF Bind
<1>11. ASSUME Run(d) PROVE KindInv'
  <2>1. /\ FirstStep(d) \in {"gate", "find", "unbind", "invalidate"}
        /\ Kind(d) \in {"switchBegin", "restart", "reconnect"} => FirstStep(d) = "invalidate"
    BY DEF FirstStep
  <2> QED BY <1>s, <1>11, <2>1 DEF Run
<1>12. ASSUME Unbind(d) PROVE KindInv'
  BY <1>s, <1>12 DEF Unbind, Preempts
<1>13. ASSUME Unlock(d) PROVE KindInv'
  BY <1>s, <1>13 DEF Unlock
<1>14. ASSUME Invalidate(d) PROVE KindInv'
  BY <1>s, <1>14 DEF Invalidate, InvalidateRuntime
<1>15. ASSUME Find(d) PROVE KindInv'
  <2>1. /\ AfterTeardown(d) \in {"done", "ready", "unbind"}
        /\ Kind(d) = "reconnect" => AfterTeardown(d) = "done"
        /\ Kind(d) = "switchBegin" => AfterTeardown(d) = "unbind"
    BY DEF AfterTeardown
  <2> QED BY <1>s, <1>15, <2>1 DEF Find
<1>16. ASSUME Stop(d) PROVE KindInv'
  BY <1>s, <1>16 DEF Stop
<1>17. ASSUME Delete(d) PROVE KindInv'
  BY <1>s, <1>17 DEF Delete
<1>18. ASSUME RestoreSMS(d) PROVE KindInv'
  <2>1. /\ AfterTeardown(d) \in {"done", "ready", "unbind"}
        /\ Kind(d) = "reconnect" => AfterTeardown(d) = "done"
        /\ Kind(d) = "switchBegin" => AfterTeardown(d) = "unbind"
    BY DEF AfterTeardown
  <2> QED BY <1>s, <1>18, <2>1 DEF RestoreSMS
<1>19. ASSUME WaitReady(d) PROVE KindInv'
  BY <1>s, <1>19 DEF WaitReady
<1>20. ASSUME Gate(d) PROVE KindInv'
  BY <1>s, <1>20 DEF Gate
<1>21. ASSUME BeginStart(d) PROVE KindInv'
  BY <1>s, <1>21 DEF BeginStart
<1>22. ASSUME PrepareStart(d) PROVE KindInv'
  BY <1>s, <1>22 DEF PrepareStart
<1>23. ASSUME Check(d) PROVE KindInv'
  BY <1>s, <1>23 DEF Check
<1>24. ASSUME BeforeStart(d) PROVE KindInv'
  BY <1>s, <1>24 DEF BeforeStart
<1>25. ASSUME Tunnel(d) PROVE KindInv'
  BY <1>s, <1>25 DEF Tunnel
<1>26. ASSUME AddObserver(d) PROVE KindInv'
  BY <1>s, <1>26 DEF AddObserver
<1>27. ASSUME ClaimStarted(d) PROVE KindInv'
  BY <1>s, <1>27 DEF ClaimStarted
<1>28. ASSUME MarkRuntimeStarted(d) PROVE KindInv'
  BY <1>s, <1>28 DEF MarkRuntimeStarted
<1>29. ASSUME StopStale(d) PROVE KindInv'
  BY <1>s, <1>29 DEF StopStale
<1>30. ASSUME ClearStartup(d) PROVE KindInv'
  BY <1>s, <1>30 DEF ClearStartup
<1>31. ASSUME HandleStartupError(d) PROVE KindInv'
  BY <1>s, <1>31 DEF HandleStartupError
<1>32. ASSUME FailStart(d) PROVE KindInv'
  BY <1>s, <1>32 DEF FailStart
<1> QED BY <1>1, <1>2, <1>3, <1>4, <1>5, <1>6, <1>7, <1>8, <1>9, <1>10, <1>11, <1>12, <1>13, <1>14, <1>15, <1>16, <1>17, <1>18, <1>19, <1>20, <1>21, <1>22, <1>23, <1>24, <1>25, <1>26, <1>27, <1>28, <1>29, <1>30, <1>31, <1>32 DEF Submit, Step

(* Without restarts, the commands that queue run one at a time, and only   *)
(* they start the runtime.                                                 *)
Queues(c) == Kind(c) \in {"enable", "disable", "recover", "switchEnd"}
Claiming == {"prepare", "check", "before", "tunnel", "observe", "claim"}
OneRuns ==
  \A c \in Commands : Queues(c) /\ pc[c] \notin {"new", "queue", "done"} => runMu = c

(* OneRuns is inductive as long as nothing restarts: runMu is handed on    *)
(* only by its holder.                                                     *)
LEMMA RunsStep ==
  ASSUME TypeOK, KindInv, OneRuns, NEW d \in Commands, Kind(d) # "restart", Submit(d) \/ Step(d)
  PROVE  OneRuns'
<1>s. pc \in [Commands -> Labels]
  BY DEF TypeOK
<1>k. Queues(d) \/ Kind(d) \in {"switchBegin", "reconnect"}
  BY DEF Queues, Kind, Kinds
<1> USE DEF KindInv, Teardown, OneRuns, control, At, Goto
<1>1. ASSUME SubmitEnable(d) PROVE OneRuns'
  BY <1>s, <1>1 DEF SubmitEnable
<1>2. ASSUME SubmitInvalidating(d) PROVE OneRuns'
  BY <1>s, <1>2 DEF SubmitInvalidating, Preempts, InvalidateRuntime, Queues
<1>3. ASSUME SubmitRecover(d) PROVE OneRuns'
  BY <1>s, <1>3 DEF SubmitRecover
<1>4. ASSUME SubmitSwitchBegin(d) PROVE OneRuns'
  BY <1>s, <1>4 DEF SubmitSwitchBegin, Queues
<1>5. ASSUME SubmitSwitchEnd(d) PROVE OneRuns'
  BY <1>s, <1>5 DEF SubmitSwitchEnd
<1>6. ASSUME SubmitReconnect(d) PROVE OneRuns'
  BY <1>s, <1>6 DEF SubmitReconnect, Queues
<1>7. ASSUME Admit(d) PROVE OneRuns'
  BY <1>s, <1>7 DEF Admit
<1>8. ASSUME Number(d) PROVE OneRuns'
  BY <1>s, <1>8 DEF Number
<1>9. ASSUME Preempt(d) PROVE OneRuns'
  BY <1>s, <1>9 DEF Preempt
<1>10. ASSUME Bind(d) PROVE OneRuns'
  BY <1>s, <1>10 DEF Bind
<1>11. ASSUME Run(d) PROVE OneRuns'
  <2>1. FirstStep(d) \in {"gate", "find", "unbind", "invalidate"}
    BY DEF FirstStep
  <2> QED BY <1>s, <1>11, <2>1 DEF Run
<1>12. ASSUME Unbind(d) PROVE OneRuns'
  BY <1>s, <1>12 DEF Unbind, Preempts
<1>13. ASSUME Unlock(d) PROVE OneRuns'
  <2>1. Queues(d) /\ runMu = d
    BY <1>k, <1>13 DEF Unlock
  <2> QED BY <1>s, <1>13, <2>1 DEF Unlock
<1>14. ASSUME Invalidate(d) PROVE OneRuns'
  BY <1>s, <1>14 DEF Invalidate, InvalidateRuntime
<1>15. ASSUME Find(d) PROVE OneRuns'
  <2>1. AfterTeardown(d) \in {"done", "ready", "unbind"}
    BY DEF AfterTeardown
  <2> QED BY <1>s, <1>15, <2>1 DEF Find
<1>16. ASSUME Stop(d) PROVE OneRuns'
  BY <1>s, <1>16 DEF Stop
<1>17. ASSUME Delete(d) PROVE OneRuns'
  BY <1>s, <1>17 DEF Delete
<1>18. ASSUME RestoreSMS(d) PROVE OneRuns'
  <2>1. AfterTeardown(d) \in {"done", "ready", "unbind"}
    BY DEF AfterTeardown
  <2> QED BY <1>s, <1>18, <2>1 DEF RestoreSMS
<1>19. ASSUME WaitReady(d) PROVE OneRuns'
  BY <1>s, <1>19 DEF WaitReady
<1>20. ASSUME Gate(d) PROVE OneRuns'
  BY <1>s, <1>20 DEF Gate
<1>21. ASSUME BeginStart(d) PROVE OneRuns'
  BY <1>s, <1>21 DEF BeginStart
<1>22. ASSUME PrepareStart(d) PROVE OneRuns'
  BY <1>s, <1>22 DEF PrepareStart
<1>23. ASSUME Check(d) PROVE OneRuns'
  BY <1>s, <1>23 DEF Check
<1>24. ASSUME BeforeStart(d) PROVE OneRuns'
  BY <1>s, <1>24 DEF BeforeStart
<1>25. ASSUME Tunnel(d) PROVE OneRuns'
  BY <1>s, <1>25 DEF Tunnel
<1>26. ASSUME AddObserver(d) PROVE OneRuns'
  BY <1>s, <1>26 DEF AddObserver
<1>27. ASSUME ClaimStarted(d) PROVE OneRuns'
  BY <1>s, <1>27 DEF ClaimStarted
<1>28. ASSUME MarkRuntimeStarted(d) PROVE OneRuns'
  BY <1>s, <1>28 DEF MarkRuntimeStarted
<1>29. ASSUME StopStale(d) PROVE OneRuns'
  BY <1>s, <1>29 DEF StopStale
<1>30. ASSUME ClearStartup(d) PROVE OneRuns'
  BY <1>s, <1>30 DEF ClearStartup
<1>31. ASSUME HandleStartupError(d) PROVE OneRuns'
  BY <1>s, <1>31 DEF HandleStartupError
<1>32. ASSUME FailStart(d) PROVE OneRuns'
  BY <1>s, <1>32 DEF FailStart
<1> QED BY <1>1, <1>2, <1>3, <1>4, <1>5, <1>6, <1>7, <1>8, <1>9, <1>10, <1>11, <1>12, <1>13, <1>14, <1>15, <1>16, <1>17, <1>18, <1>19, <1>20, <1>21, <1>22, <1>23, <1>24, <1>25, <1>26, <1>27, <1>28, <1>29, <1>30, <1>31, <1>32 DEF Submit, Step

(* How a command comes to start the runtime, and what it starts under.     *)
StartFlow(d) ==
  /\ pc'[d] = "begin" => pc[d] = "gate" /\ ~ BlockedBySwitch(d)
  /\ pc'[d] = "prepare" =>
       /\ pc[d] = "begin" /\ startEpoch'[d] = slot.epoch
       /\ slot'.epoch = slot.epoch /\ d \notin invalidated'
  /\ pc'[d] = "check" => pc[d] = "prepare" /\ startEpoch'[d] = startEpoch[d]
  /\ pc'[d] = "before" =>
       pc[d] = "check" /\ ShouldRun(d) /\ startEpoch'[d] = startEpoch[d]
  /\ pc'[d] \in {"tunnel", "observe", "claim"} =>
       pc[d] \in {"before", "tunnel", "observe"} /\ startEpoch'[d] = startEpoch[d]
  /\ cancelled \subseteq cancelled'

(* Every step of a command is one of StartFlow.                            *)
LEMMA StartSteps ==
  ASSUME TypeOK, NEW d \in Commands, Submit(d) \/ Step(d)
  PROVE  StartFlow(d)
<1>t. slot \in Slots
  BY TypeParts
<1>s. pc \in [Commands -> Labels] /\ startEpoch \in [Commands -> Nat] /\ cancelled \subseteq Commands
  BY DEF TypeOK
<1> USE DEF StartFlow, control, local, At, Goto
<1>1. ASSUME SubmitEnable(d) PROVE StartFlow(d)
  BY <1>s, <1>1 DEF SubmitEnable
<1>2. ASSUME SubmitInvalidating(d) PROVE StartFlow(d)
  BY <1>s, <1>2 DEF SubmitInvalidating, Preempts, InvalidateRuntime
<1>3. ASSUME SubmitRecover(d) PROVE StartFlow(d)
  BY <1>s, <1>3 DEF SubmitRecover
<1>4. ASSUME SubmitSwitchBegin(d) PROVE StartFlow(d)
  BY <1>s, <1>4 DEF SubmitSwitchBegin
<1>5. ASSUME SubmitSwitchEnd(d) PROVE StartFlow(d)
  BY <1>s, <1>5 DEF SubmitSwitchEnd
<1>6. ASSUME SubmitReconnect(d) PROVE StartFlow(d)
  BY <1>s, <1>6 DEF SubmitReconnect
<1>7. ASSUME Admit(d) PROVE StartFlow(d)
  BY <1>s, <1>7 DEF Admit
<1>8. ASSUME Number(d) PROVE StartFlow(d)
  BY <1>s, <1>8 DEF Number
<1>9. ASSUME Preempt(d) PROVE StartFlow(d)
  BY <1>s, <1>9 DEF Preempt
<1>10. ASSUME Bind(d) PROVE StartFlow(d)
  BY <1>s, <1>10 DEF Bind
<1>11. ASSUME Run(d) PROVE StartFlow(d)
  <2>1. FirstStep(d) \in {"gate", "find", "unbind", "invalidate"}
    BY DEF FirstStep
  <2> QED BY <1>s, <1>11, <2>1 DEF Run
<1>12. ASSUME Unbind(d) PROVE StartFlow(d)
  BY <1>s, <1>12 DEF Unbind, Preempts
<1>13. ASSUME Unlock(d) PROVE StartFlow(d)
  BY <1>s, <1>13 DEF Unlock
<1>14. ASSUME Invalidate(d) PROVE StartFlow(d)
  BY <1>s, <1>14 DEF Invalidate, InvalidateRuntime
<1>15. ASSUME Find(d) PROVE StartFlow(d)
  <2>1. AfterTeardown(d) \in {"done", "ready", "unbind"}
    BY DEF AfterTeardown
  <2> QED BY <1>s, <1>15, <2>1 DEF Find
<1>16. ASSUME Stop(d) PROVE StartFlow(d)
  BY <1>s, <1>16 DEF Stop
<1>17. ASSUME Delete(d) PROVE StartFlow(d)
  BY <1>s, <1>17 DEF Delete
<1>18. ASSUME RestoreSMS(d) PROVE StartFlow(d)
  <2>1. AfterTeardown(d) \in {"done", "ready", "unbind"}
    BY DEF AfterTeardown
  <2> QED BY <1>s, <1>18, <2>1 DEF RestoreSMS
<1>19. ASSUME WaitReady(d) PROVE StartFlow(d)
  BY <1>s, <1>19 DEF WaitReady
<1>20. ASSUME Gate(d) PROVE StartFlow(d)
  BY <1>s, <1>20 DEF Gate
<1>21. ASSUME BeginStart(d) PROVE StartFlow(d)
  <2>1. [slot EXCEPT !.starting = TRUE, !.failed = FALSE].epoch = slot.epoch
    BY <1>t DEF Slots
  <2>2. slot'.epoch = slot.epoch
    BY <1>21, <2>1 DEF BeginStart
  <2> QED BY <1>s, <1>21, <2>2 DEF BeginStart
<1>22. ASSUME PrepareStart(d) PROVE StartFlow(d)
  BY <1>s, <1>22 DEF PrepareStart
<1>23. ASSUME Check(d) PROVE StartFlow(d)
  BY <1>s, <1>23 DEF Check
<1>24. ASSUME BeforeStart(d) PROVE StartFlow(d)
  BY <1>s, <1>24 DEF BeforeStart
<1>25. ASSUME Tunnel(d) PROVE StartFlow(d)
  BY <1>s, <1>25 DEF Tunnel
<1>26. ASSUME AddObserver(d) PROVE StartFlow(d)
  BY <1>s, <1>26 DEF AddObserver
<1>27. ASSUME ClaimStarted(d) PROVE StartFlow(d)
  BY <1>s, <1>27 DEF ClaimStarted
<1>28. ASSUME MarkRuntimeStarted(d) PROVE StartFlow(d)
  BY <1>s, <1>28 DEF MarkRuntimeStarted
<1>29. ASSUME StopStale(d) PROVE StartFlow(d)
  BY <1>s, <1>29 DEF StopStale
<1>30. ASSUME ClearStartup(d) PROVE StartFlow(d)
  BY <1>s, <1>30 DEF ClearStartup
<1>31. ASSUME HandleStartupError(d) PROVE StartFlow(d)
  BY <1>s, <1>31 DEF HandleStartupError
<1>32. ASSUME FailStart(d) PROVE StartFlow(d)
  BY <1>s, <1>32 DEF FailStart
<1> QED BY <1>1, <1>2, <1>3, <1>4, <1>5, <1>6, <1>7, <1>8, <1>9, <1>10, <1>11, <1>12, <1>13, <1>14, <1>15, <1>16, <1>17, <1>18, <1>19, <1>20, <1>21, <1>22, <1>23, <1>24, <1>25, <1>26, <1>27, <1>28, <1>29, <1>30, <1>31, <1>32 DEF Submit, Step

(* Only the command that runs clears the startup state.                    *)
LEMMA ClearsAlone ==
  ASSUME TypeOK, KindInv, NoRestart, OneRuns, NEW c \in Commands, NEW d \in Commands, c # d,
         pc[c] \in Claiming \cup {"begin"}
  PROVE  Queues(c) /\ pc[d] \notin {"clearStarted", "clearStale", "error"}
<1> USE DEF KindInv, Teardown, NoRestart, Submitted, At, Queues, Kind, Kinds
<1>1. Queues(c)
  BY DEF Claiming
<1>2. ASSUME pc[d] \in {"clearStarted", "clearStale", "error"} PROVE FALSE
  <2>1. Queues(d)
    BY <1>2
  <2> QED BY <1>1, <1>2, <2>1 DEF OneRuns, Claiming
<1> QED BY <1>1, <1>2

(* A start knows by its epoch that the runtime was invalidated under it.   *)
FreshInv ==
  \A c \in Commands : pc[c] \in Claiming =>
    startEpoch[c] <= slot.epoch /\ (c \in invalidated => startEpoch[c] < slot.epoch)

(* FreshInv is inductive as long as nothing restarts.                      *)
LEMMA FreshStep ==
  ASSUME TypeOK, TypeOK', KindInv, NoRestart, OneRuns, FreshInv,
         NEW d \in Commands, Submit(d) \/ Step(d)
  PROVE  FreshInv'
<1>0. /\ slot.epoch \in Nat /\ slot'.epoch \in Nat
      /\ startEpoch \in [Commands -> Nat] /\ startEpoch' \in [Commands -> Nat]
  BY TypeParts, SlotFields DEF TypeOK
<1>1. EpochStep(d) /\ OthersKept(d) /\ StartFlow(d)
  BY SlotSteps, OneMoves, StartSteps
<1>2. ASSUME NEW c \in Commands, c # d, pc'[c] \in Claiming
      PROVE  startEpoch'[c] <= slot'.epoch /\ (c \in invalidated' => startEpoch'[c] < slot'.epoch)
  <2>1. pc[c] \in Claiming /\ startEpoch'[c] = startEpoch[c]
    BY <1>1, <1>2 DEF OthersKept
  <2>2. slot'.epoch >= slot.epoch
    BY <1>1, <1>2, <2>1, ClearsAlone DEF EpochStep
  <2> QED BY <1>0, <1>1, <2>1, <2>2 DEF EpochStep, FreshInv
<1>3. ASSUME pc'[d] \in Claiming
      PROVE  startEpoch'[d] <= slot'.epoch /\ (d \in invalidated' => startEpoch'[d] < slot'.epoch)
  <2>1. CASE pc'[d] = "prepare"
    BY <1>0, <1>1, <2>1 DEF StartFlow
  <2>2. CASE pc'[d] # "prepare"
    <3>1. pc[d] \in Claiming /\ startEpoch'[d] = startEpoch[d]
      BY <1>1, <1>3, <2>2 DEF StartFlow, Claiming
    <3>2. slot'.epoch >= slot.epoch
      BY <1>1, <3>1 DEF EpochStep, Claiming
    <3> QED BY <1>0, <1>1, <3>1, <3>2 DEF EpochStep, FreshInv
  <2> QED BY <2>1, <2>2
<1> QED BY <1>2, <1>3 DEF FreshInv

(* No command is taken back once it is submitted.                          *)
LEMMA SubmittedGrows ==
  ASSUME TypeOK, NEW d \in Commands, Submit(d) \/ Step(d)
  PROVE  Submitted \subseteq Submitted' /\ d \in Submitted'
BY OneMoves DEF OthersKept, Submitted, At

(* What was not submitted after a step was not before it.                  *)
LEMMA FewerConditions ==
  TypeOK /\ [Next]_vars =>
    (NoRestart' => NoRestart) /\ (OneSwitch' => OneSwitch) /\ (Serial' => Serial)
<1> SUFFICES ASSUME TypeOK, [Next]_vars
    PROVE (NoRestart' => NoRestart) /\ (OneSwitch' => OneSwitch) /\ (Serial' => Serial)
  OBVIOUS
<1>1. Submitted \subseteq Submitted'
  <2>1. CASE ClearSwitching \/ UNCHANGED vars
    BY <2>1 DEF ClearSwitching, vars, Submitted, At
  <2> QED BY <2>1, SubmittedGrows DEF Next
<1> QED BY <1>1 DEF NoRestart, OneSwitch, Serial

RunInv == KindInv /\ (NoRestart => OneRuns /\ FreshInv)

(* Who runs, and under which epoch, is an inductive invariant.             *)
LEMMA NextRun == TypeOK /\ TypeOK' /\ RunInv /\ [Next]_vars => RunInv'
<1> SUFFICES ASSUME TypeOK, TypeOK', RunInv, [Next]_vars PROVE RunInv'
  OBVIOUS
<1>1. ASSUME NEW d \in Commands, Submit(d) \/ Step(d) PROVE RunInv'
  <2>1. KindInv /\ KindInv'
    BY <1>1, KindsStep DEF RunInv
  <2>2. ASSUME NoRestart' PROVE OneRuns' /\ FreshInv'
    <3>1. NoRestart /\ OneRuns /\ FreshInv
      BY <2>2, FewerConditions DEF RunInv
    <3>2. Kind(d) # "restart"
      BY <1>1, <2>2, SubmittedGrows DEF NoRestart
    <3> QED BY <1>1, <2>1, <3>1, <3>2, RunsStep, FreshStep
  <2> QED BY <2>1, <2>2 DEF RunInv
<1>2. CASE ClearSwitching \/ UNCHANGED vars
  BY <1>2 DEF ClearSwitching, vars, control, store, local, RunInv, KindInv, NoRestart, Submitted, OneRuns,
     FreshInv, At
<1> QED BY <1>1, <1>2 DEF Next

(* RunInv holds of every reachable state, whatever is submitted.           *)
LEMMA RunsInOrder == Spec => []RunInv
<1>1. Init => RunInv
  BY DEF Init, RunInv, KindInv, OneRuns, FreshInv, Teardown, Claiming
<1> QED BY <1>1, NextRun, HostTyped, PTL DEF Spec

(* Until something restarts, ClaimStarted never registers a start that an  *)
(* invalidation has overtaken: the epoch the start holds is an old one.    *)
THEOREM NoStaleClaim == Spec => ClaimIsFreshNoRestart
<1>1. TypeOK /\ RunInv /\ [Next]_vars => (NoRestart => ClaimsAreFresh)
  <2> SUFFICES ASSUME TypeOK, RunInv, [Next]_vars, NoRestart, NEW c \in Commands,
                      At(c, "claim"), pc'[c] = "clearStarted"
               PROVE  c \notin invalidated
    BY DEF ClaimsAreFresh
  <2>1. PICK d \in Commands : Submit(d) \/ Step(d)
    BY DEF Next, ClearSwitching, vars, At
  <2>2. d = c
    BY <2>1, OneMoves DEF OthersKept, At
  <2>3. slot.epoch = startEpoch[c]
    BY <2>1, <2>2, SlotSteps DEF InstanceStep, Claims, At
  <2>4. c \in invalidated => startEpoch[c] < slot.epoch
    BY DEF RunInv, FreshInv, Claiming, At
  <2> QED BY <2>3, <2>4, TypeParts, SlotFields
<1>2. TypeOK /\ RunInv /\ [Next]_vars => [NoRestart => ClaimsAreFresh]_vars
  BY <1>1
<1> QED BY <1>2, HostTyped, RunsInOrder, PTL DEF Spec, ClaimIsFreshNoRestart

-----------------------------------------------------------------------------
(* The SMS mode.                                                           *)

(* How a command comes to remove or to register an instance, and when it   *)
(* sets the mode.                                                          *)
SmsFlow(d) ==
  /\ pc'[d] = "stop" => target'[d] = slot.instance
  /\ pc'[d] = "delete" => pc[d] = "stop" /\ target'[d] = target[d]
  /\ pc'[d] = "restoreSMS" => pc[d] = "delete" \/ (pc[d] = "find" /\ slot.instance = None)
  /\ pc[d] = "delete" => pc'[d] = "restoreSMS"
  /\ pc'[d] = "clearStarted" => Claims(d)
  /\ pc'[d] = "mark" <=> pc[d] = "clearStarted"
  /\ smsMode' = CASE pc[d] = "restoreSMS" -> "native"
                  [] pc[d] = "mark" -> "vowifi"
                  [] OTHER -> smsMode

(* The steps of a command are steps of SmsFlow.                            *)
LEMMA SmsSteps ==
  ASSUME TypeOK, NEW d \in Commands, Submit(d) \/ Step(d)
  PROVE  SmsFlow(d)
<1>s. pc \in [Commands -> Labels] /\ target \in [Commands -> Commands \cup {None}]
  BY DEF TypeOK
<1> USE DEF SmsFlow, Claims, host, local, At, Goto
<1>1. ASSUME SubmitEnable(d) PROVE SmsFlow(d)
  BY <1>s, <1>1 DEF SubmitEnable
<1>2. ASSUME SubmitInvalidating(d) PROVE SmsFlow(d)
  BY <1>s, <1>2 DEF SubmitInvalidating, Preempts, InvalidateRuntime
<1>3. ASSUME SubmitRecover(d) PROVE SmsFlow(d)
  BY <1>s, <1>3 DEF SubmitRecover
<1>4. ASSUME SubmitSwitchBegin(d) PROVE SmsFlow(d)
  BY <1>s, <1>4 DEF SubmitSwitchBegin
<1>5. ASSUME SubmitSwitchEnd(d) PROVE SmsFlow(d)
  BY <1>s, <1>5 DEF SubmitSwitchEnd
<1>6. ASSUME SubmitReconnect(d) PROVE SmsFlow(d)
  BY <1>s, <1>6 DEF SubmitReconnect
<1>7. ASSUME Admit(d) PROVE SmsFlow(d)
  BY <1>s, <1>7 DEF Admit
<1>8. ASSUME Number(d) PROVE SmsFlow(d)
  BY <1>s, <1>8 DEF Number
<1>9. ASSUME Preempt(d) PROVE SmsFlow(d)
  BY <1>s, <1>9 DEF Preempt
<1>10. ASSUME Bind(d) PROVE SmsFlow(d)
  BY <1>s, <1>10 DEF Bind
<1>11. ASSUME Run(d) PROVE SmsFlow(d)
  <2>1. FirstStep(d) \in {"gate", "find", "unbind", "invalidate"}
    BY DEF FirstStep
  <2> QED BY <1>s, <1>11, <2>1 DEF Run
<1>12. ASSUME Unbind(d) PROVE SmsFlow(d)
  BY <1>s, <1>12 DEF Unbind, Preempts
<1>13. ASSUME Unlock(d) PROVE SmsFlow(d)
  BY <1>s, <1>13 DEF Unlock
<1>14. ASSUME Invalidate(d) PROVE SmsFlow(d)
  BY <1>s, <1>14 DEF Invalidate, InvalidateRuntime
<1>15. ASSUME Find(d) PROVE SmsFlow(d)
  <2>1. AfterTeardown(d) \in {"done", "ready", "unbind"}
    BY DEF AfterTeardown
  <2> QED BY <1>s, <1>15, <2>1 DEF Find
<1>16. ASSUME Stop(d) PROVE SmsFlow(d)
  BY <1>s, <1>16 DEF Stop
<1>17. ASSUME Delete(d) PROVE SmsFlow(d)
  BY <1>s, <1>17 DEF Delete
<1>18. ASSUME RestoreSMS(d) PROVE SmsFlow(d)
  <2>1. AfterTeardown(d) \in {"done", "ready", "unbind"}
    BY DEF AfterTeardown
  <2> QED BY <1>s, <1>18, <2>1 DEF RestoreSMS
<1>19. ASSUME WaitReady(d) PROVE SmsFlow(d)
  BY <1>s, <1>19 DEF WaitReady
<1>20. ASSUME Gate(d) PROVE SmsFlow(d)
  BY <1>s, <1>20 DEF Gate
<1>21. ASSUME BeginStart(d) PROVE SmsFlow(d)
  BY <1>s, <1>21 DEF BeginStart
<1>22. ASSUME PrepareStart(d) PROVE SmsFlow(d)
  BY <1>s, <1>22 DEF PrepareStart
<1>23. ASSUME Check(d) PROVE SmsFlow(d)
  BY <1>s, <1>23 DEF Check
<1>24. ASSUME BeforeStart(d) PROVE SmsFlow(d)
  BY <1>s, <1>24 DEF BeforeStart
<1>25. ASSUME Tunnel(d) PROVE SmsFlow(d)
  BY <1>s, <1>25 DEF Tunnel
<1>26. ASSUME AddObserver(d) PROVE SmsFlow(d)
  BY <1>s, <1>26 DEF AddObserver
<1>27. ASSUME ClaimStarted(d) PROVE SmsFlow(d)
  BY <1>s, <1>27 DEF ClaimStarted
<1>28. ASSUME MarkRuntimeStarted(d) PROVE SmsFlow(d)
  BY <1>s, <1>28 DEF MarkRuntimeStarted
<1>29. ASSUME StopStale(d) PROVE SmsFlow(d)
  BY <1>s, <1>29 DEF StopStale
<1>30. ASSUME ClearStartup(d) PROVE SmsFlow(d)
  BY <1>s, <1>30 DEF ClearStartup
<1>31. ASSUME HandleStartupError(d) PROVE SmsFlow(d)
  BY <1>s, <1>31 DEF HandleStartupError
<1>32. ASSUME FailStart(d) PROVE SmsFlow(d)
  BY <1>s, <1>32 DEF FailStart
<1> QED BY <1>1, <1>2, <1>3, <1>4, <1>5, <1>6, <1>7, <1>8, <1>9, <1>10, <1>11, <1>12, <1>13, <1>14, <1>15, <1>16, <1>17, <1>18, <1>19, <1>20, <1>21, <1>22, <1>23, <1>24, <1>25, <1>26, <1>27, <1>28, <1>29, <1>30, <1>31, <1>32 DEF Submit, Step

(* Only the command that runs is between a removal or a claim and the mode *)
(* it sets; when none is, the mode is the one the instance asks for.       *)
Unsettled == {"restoreSMS", "clearStarted", "mark"}
SmsInv ==
  /\ \A c \in Commands :
       /\ pc[c] \in {"stop", "delete"} => target[c] = slot.instance
       /\ pc[c] = "restoreSMS" => slot.instance = None
       /\ pc[c] \in {"clearStarted", "mark"} => slot.instance # None
  /\ (\A c \in Commands : pc[c] \notin Unsettled) => (smsMode = "vowifi" <=> slot.instance # None)

(* SmsInv is inductive while only enables, disables and recovers are       *)
(* submitted.                                                              *)
LEMMA SmsStep ==
  ASSUME TypeOK, OneRuns, Serial, SmsInv, NEW d \in Commands, Kind(d) \in {"enable", "disable", "recover"},
         Submit(d) \/ Step(d)
  PROVE  SmsInv'
<1>1. InstanceStep(d) /\ OthersKept(d) /\ SmsFlow(d)
  BY SlotSteps, OneMoves, SmsSteps
<1>2. ASSUME NEW c \in Commands, c # d, pc[c] \notin {"new", "queue", "done"}
      PROVE  pc[d] \in {"new", "queue", "done"}
  BY <1>2 DEF Serial, Submitted, OneRuns, Queues, At
<1>3. ASSUME NEW c \in Commands
      PROVE  /\ pc'[c] \in {"stop", "delete"} => target'[c] = slot'.instance
             /\ pc'[c] = "restoreSMS" => slot'.instance = None
             /\ pc'[c] \in {"clearStarted", "mark"} => slot'.instance # None
  <2>1. CASE c # d
    BY <1>1, <1>2, <2>1 DEF OthersKept, InstanceStep, Claims, SmsInv
  <2>2. CASE c = d
    <3>1. CASE pc'[d] \in {"stop", "delete"}
      BY <1>1, <2>2, <3>1 DEF InstanceStep, Claims, SmsFlow, SmsInv
    <3>2. CASE pc'[d] = "restoreSMS"
      BY <1>1, <2>2, <3>2 DEF InstanceStep, Claims, SmsFlow, SmsInv
    <3>3. CASE pc'[d] \in {"clearStarted", "mark"}
      BY <1>1, <2>2, <3>3 DEF InstanceStep, Claims, SmsFlow, SmsInv
    <3> QED BY <2>2, <3>1, <3>2, <3>3
  <2> QED BY <2>1, <2>2
<1>4. ASSUME \A c \in Commands : pc'[c] \notin Unsettled
      PROVE  smsMode' = "vowifi" <=> slot'.instance # None
  <2>1. pc[d] # "delete" /\ pc[d] # "clearStarted" /\ ~ Claims(d) /\ slot'.instance = slot.instance
    BY <1>1, <1>4 DEF SmsFlow, InstanceStep, Claims, Unsettled
  <2>2. CASE pc[d] \in {"restoreSMS", "mark"}
    BY <1>1, <2>1, <2>2 DEF SmsFlow, SmsInv
  <2>3. CASE pc[d] \notin {"restoreSMS", "mark"}
    <3>1. \A c \in Commands : pc[c] \notin Unsettled
      BY <1>1, <1>4, <2>1, <2>3 DEF OthersKept, Unsettled
    <3> QED BY <1>1, <2>1, <2>3, <3>1 DEF SmsFlow, SmsInv
  <2> QED BY <2>2, <2>3
<1> QED BY <1>3, <1>4 DEF SmsInv

(* Without switches, restarts and reconnects the commands run one at a time*)
(* and SMS go over VoWiFi exactly when an instance is registered to carry  *)
(* them: RestoreNativeSMS and MarkRuntimeStarted follow the store.         *)
THEOREM SmsFollowsRuntime == Spec => []SmsModeFollowsSerial
<1>1. Init => (Serial => SmsInv)
  BY DEF Init, Serial, SmsInv, Unsettled, FreshSlot
<1>2. TypeOK /\ RunInv /\ (Serial => SmsInv) /\ [Next]_vars => (Serial => SmsInv)'
  <2> SUFFICES ASSUME TypeOK, RunInv, Serial => SmsInv, [Next]_vars, Serial' PROVE SmsInv'
    OBVIOUS
  <2>1. Serial /\ SmsInv
    BY FewerConditions
  <2>2. OneRuns
    BY <2>1 DEF RunInv, Serial, NoRestart
  <2>3. CASE UNCHANGED vars \/ ClearSwitching
    BY <2>1, <2>3 DEF SmsInv, vars, store, host, local, ClearSwitching
  <2>4. ASSUME NEW d \in Commands, Submit(d) \/ Step(d) PROVE SmsInv'
    <3>1. Kind(d) \in {"enable", "disable", "recover"}
      BY <2>4, SubmittedGrows DEF Serial
    <3> QED BY <2>1, <2>2, <2>4, <3>1, SmsStep
  <2> QED BY <2>3, <2>4 DEF Next
<1>3. (Serial => SmsInv) => SmsModeFollowsSerial
  BY DEF SmsInv, SmsModeFollowsSerial, Unsettled
<1> QED BY <1>1, <1>2, <1>3, HostTyped, RunsInOrder, PTL DEF Spec

-----------------------------------------------------------------------------
(* An eSIM switch.                                                         *)

Begins(b) == Kind(b) = "switchBegin"
EndsNew == \A e \in Commands : Kind(e) = "switchEnd" => pc[e] = "new"

(* How the command that begins a switch goes on, and who can be cancelled. *)
SwitchFlow(d) ==
  /\ pc'[d] \in {"number", "preempt"} => pc[d] \in {"new", "number"}
  /\ pc[d] = "new" /\ Queues(d) => pc'[d] = "queue"
  /\ pc[d] = "queue" => pc'[d] \in {"bind", "unlock"}
  /\ pc[d] = "number" => pc'[d] = "preempt"
  /\ pc[d] = "preempt" => pc'[d] = "bind" /\ cancelled' = cancelled \cup ({runCancel} \ {None})
  /\ pc[d] = "bind" => pc'[d] = "run" /\ runCancel' = d
  /\ pc[d] = "unbind" => pc'[d] \in {"unlock", "done"}
  /\ pc[d] \in {"bind", "unbind"} \/ runCancel' = runCancel
  /\ pc'[d] = "bind" => pc[d] \in {"queue", "preempt"}
  /\ pc[d] = "unlock" => pc'[d] = "done"
  /\ pc[d] # "done"
  /\ pc'[d] \in {"stop", "delete"} => target'[d] = IF pc[d] = "find" THEN slot.instance ELSE target[d]

(* The same of a switch's command only, and of the mark of the switch.     *)
BeginFlow(d) ==
  /\ Begins(d) =>
       /\ pc'[d] = "find" => pc[d] = "invalidate"
       /\ pc'[d] = "stop" => pc[d] = "find"
       /\ pc'[d] = "delete" => pc[d] = "stop"
       /\ pc'[d] = "restoreSMS" => pc[d] = "delete" \/ (pc[d] = "find" /\ slot.instance = None)
       /\ pc'[d] = "unbind" => pc[d] = "restoreSMS" \/ (pc[d] = "find" /\ slot.instance = None)
       /\ pc'[d] = "done" => pc[d] = "unbind"
       /\ pc'[d] \in {"run", "invalidate"} => pc[d] \in {"bind", "run"}
       /\ pc[d] = "new" => switching' /\ pc'[d] = "number"
  /\ switching' = (switching \/ (Begins(d) /\ pc[d] = "new"))
  /\ Kind(d) = "switchEnd" /\ pc[d] = "new" => \E b \in Commands : Begins(b) /\ pc[b] = "done"

(* Every step of a command is one of SwitchFlow.                           *)
LEMMA SwitchSteps ==
  ASSUME TypeOK, NEW d \in Commands, Submit(d) \/ Step(d)
  PROVE  SwitchFlow(d)
<1>s. pc \in [Commands -> Labels] /\ target \in [Commands -> Commands \cup {None}]
  BY DEF TypeOK
<1> USE DEF SwitchFlow, control, local, At, Goto
<1>1. ASSUME SubmitEnable(d) PROVE SwitchFlow(d)
  BY <1>s, <1>1 DEF SubmitEnable, Queues, Preempts
<1>2. ASSUME SubmitInvalidating(d) PROVE SwitchFlow(d)
  BY <1>s, <1>2 DEF SubmitInvalidating, Preempts, InvalidateRuntime, Queues
<1>3. ASSUME SubmitRecover(d) PROVE SwitchFlow(d)
  BY <1>s, <1>3 DEF SubmitRecover, Queues, Preempts
<1>4. ASSUME SubmitSwitchBegin(d) PROVE SwitchFlow(d)
  BY <1>s, <1>4 DEF SubmitSwitchBegin, Queues, Preempts
<1>5. ASSUME SubmitSwitchEnd(d) PROVE SwitchFlow(d)
  BY <1>s, <1>5 DEF SubmitSwitchEnd, Queues, Preempts
<1>6. ASSUME SubmitReconnect(d) PROVE SwitchFlow(d)
  BY <1>s, <1>6 DEF SubmitReconnect, Queues, Preempts
<1>7. ASSUME Admit(d) PROVE SwitchFlow(d)
  BY <1>s, <1>7 DEF Admit
<1>8. ASSUME Number(d) PROVE SwitchFlow(d)
  BY <1>s, <1>8 DEF Number
<1>9. ASSUME Preempt(d) PROVE SwitchFlow(d)
  BY <1>s, <1>9 DEF Preempt
<1>10. ASSUME Bind(d) PROVE SwitchFlow(d)
  BY <1>s, <1>10 DEF Bind
<1>11. ASSUME Run(d) PROVE SwitchFlow(d)
  <2>1. FirstStep(d) \in {"gate", "find", "unbind", "invalidate"}
    BY DEF FirstStep
  <2> QED BY <1>s, <1>11, <2>1 DEF Run
<1>12. ASSUME Unbind(d) PROVE SwitchFlow(d)
  BY <1>s, <1>12 DEF Unbind, Preempts
<1>13. ASSUME Unlock(d) PROVE SwitchFlow(d)
  BY <1>s, <1>13 DEF Unlock
<1>14. ASSUME Invalidate(d) PROVE SwitchFlow(d)
  BY <1>s, <1>14 DEF Invalidate, InvalidateRuntime
<1>15. ASSUME Find(d) PROVE SwitchFlow(d)
  <2>1. AfterTeardown(d) \in {"done", "ready", "unbind"}
    BY DEF AfterTeardown
  <2> QED BY <1>s, <1>15, <2>1 DEF Find
<1>16. ASSUME Stop(d) PROVE SwitchFlow(d)
  BY <1>s, <1>16 DEF Stop
<1>17. ASSUME Delete(d) PROVE SwitchFlow(d)
  BY <1>s, <1>17 DEF Delete
<1>18. ASSUME RestoreSMS(d) PROVE SwitchFlow(d)
  <2>1. AfterTeardown(d) \in {"done", "ready", "unbind"}
    BY DEF AfterTeardown
  <2> QED BY <1>s, <1>18, <2>1 DEF RestoreSMS
<1>19. ASSUME WaitReady(d) PROVE SwitchFlow(d)
  BY <1>s, <1>19 DEF WaitReady
<1>20. ASSUME Gate(d) PROVE SwitchFlow(d)
  BY <1>s, <1>20 DEF Gate
<1>21. ASSUME BeginStart(d) PROVE SwitchFlow(d)
  BY <1>s, <1>21 DEF BeginStart
<1>22. ASSUME PrepareStart(d) PROVE SwitchFlow(d)
  BY <1>s, <1>22 DEF PrepareStart
<1>23. ASSUME Check(d) PROVE SwitchFlow(d)
  BY <1>s, <1>23 DEF Check
<1>24. ASSUME BeforeStart(d) PROVE SwitchFlow(d)
  BY <1>s, <1>24 DEF BeforeStart
<1>25. ASSUME Tunnel(d) PROVE SwitchFlow(d)
  BY <1>s, <1>25 DEF Tunnel
<1>26. ASSUME AddObserver(d) PROVE SwitchFlow(d)
  BY <1>s, <1>26 DEF AddObserver
<1>27. ASSUME ClaimStarted(d) PROVE SwitchFlow(d)
  BY <1>s, <1>27 DEF ClaimStarted
<1>28. ASSUME MarkRuntimeStarted(d) PROVE SwitchFlow(d)
  BY <1>s, <1>28 DEF MarkRuntimeStarted
<1>29. ASSUME StopStale(d) PROVE SwitchFlow(d)
  BY <1>s, <1>29 DEF StopStale
<1>30. ASSUME ClearStartup(d) PROVE SwitchFlow(d)
  BY <1>s, <1>30 DEF ClearStartup
<1>31. ASSUME HandleStartupError(d) PROVE SwitchFlow(d)
  BY <1>s, <1>31 DEF HandleStartupError
<1>32. ASSUME FailStart(d) PROVE SwitchFlow(d)
  BY <1>s, <1>32 DEF FailStart
<1> QED BY <1>1, <1>2, <1>3, <1>4, <1>5, <1>6, <1>7, <1>8, <1>9, <1>10, <1>11, <1>12, <1>13, <1>14, <1>15, <1>16, <1>17, <1>18, <1>19, <1>20, <1>21, <1>22, <1>23, <1>24, <1>25, <1>26, <1>27, <1>28, <1>29, <1>30, <1>31, <1>32 DEF Submit, Step

(* Every step of a command is one of BeginFlow.                            *)
LEMMA BeginSteps ==
  ASSUME TypeOK, KindInv, NEW d \in Commands, Submit(d) \/ Step(d)
  PROVE  BeginFlow(d)
<1>s. pc \in [Commands -> Labels] /\ switching \in BOOLEAN
  BY DEF TypeOK
<1> USE DEF BeginFlow, Begins, KindInv, Teardown, host, At, Goto
<1>1. ASSUME SubmitEnable(d) PROVE BeginFlow(d)
  BY <1>s, <1>1 DEF SubmitEnable
<1>2. ASSUME SubmitInvalidating(d) PROVE BeginFlow(d)
  BY <1>s, <1>2 DEF SubmitInvalidating, InvalidateRuntime, Preempts
<1>3. ASSUME SubmitRecover(d) PROVE BeginFlow(d)
  BY <1>s, <1>3 DEF SubmitRecover
<1>4. ASSUME SubmitSwitchBegin(d) PROVE BeginFlow(d)
  BY <1>s, <1>4 DEF SubmitSwitchBegin
<1>5. ASSUME SubmitSwitchEnd(d) PROVE BeginFlow(d)
  BY <1>s, <1>5 DEF SubmitSwitchEnd
<1>6. ASSUME SubmitReconnect(d) PROVE BeginFlow(d)
  BY <1>s, <1>6 DEF SubmitReconnect
<1>7. ASSUME Admit(d) PROVE BeginFlow(d)
  BY <1>s, <1>7 DEF Admit
<1>8. ASSUME Number(d) PROVE BeginFlow(d)
  BY <1>s, <1>8 DEF Number
<1>9. ASSUME Preempt(d) PROVE BeginFlow(d)
  BY <1>s, <1>9 DEF Preempt
<1>10. ASSUME Bind(d) PROVE BeginFlow(d)
  BY <1>s, <1>10 DEF Bind
<1>11. ASSUME Run(d) PROVE BeginFlow(d)
  <2>1. /\ FirstStep(d) \in {"gate", "find", "unbind", "invalidate"}
        /\ Kind(d) \in {"switchBegin", "restart", "reconnect"} => FirstStep(d) = "invalidate"
    BY DEF FirstStep
  <2> QED BY <1>s, <1>11, <2>1 DEF Run
<1>12. ASSUME Unbind(d) PROVE BeginFlow(d)
  BY <1>s, <1>12 DEF Unbind, Preempts
<1>13. ASSUME Unlock(d) PROVE BeginFlow(d)
  BY <1>s, <1>13 DEF Unlock
<1>14. ASSUME Invalidate(d) PROVE BeginFlow(d)
  BY <1>s, <1>14 DEF Invalidate, InvalidateRuntime
<1>15. ASSUME Find(d) PROVE BeginFlow(d)
  <2>1. /\ AfterTeardown(d) \in {"done", "ready", "unbind"}
        /\ Kind(d) = "reconnect" => AfterTeardown(d) = "done"
        /\ Kind(d) = "switchBegin" => AfterTeardown(d) = "unbind"
    BY DEF AfterTeardown
  <2> QED BY <1>s, <1>15, <2>1 DEF Find
<1>16. ASSUME Stop(d) PROVE BeginFlow(d)
  BY <1>s, <1>16 DEF Stop
<1>17. ASSUME Delete(d) PROVE BeginFlow(d)
  BY <1>s, <1>17 DEF Delete
<1>18. ASSUME RestoreSMS(d) PROVE BeginFlow(d)
  <2>1. /\ AfterTeardown(d) \in {"done", "ready", "unbind"}
        /\ Kind(d) = "reconnect" => AfterTeardown(d) = "done"
        /\ Kind(d) = "switchBegin" => AfterTeardown(d) = "unbind"
    BY DEF AfterTeardown
  <2> QED BY <1>s, <1>18, <2>1 DEF RestoreSMS
<1>19. ASSUME WaitReady(d) PROVE BeginFlow(d)
  BY <1>s, <1>19 DEF WaitReady
<1>20. ASSUME Gate(d) PROVE BeginFlow(d)
  BY <1>s, <1>20 DEF Gate
<1>21. ASSUME BeginStart(d) PROVE BeginFlow(d)
  BY <1>s, <1>21 DEF BeginStart
<1>22. ASSUME PrepareStart(d) PROVE BeginFlow(d)
  BY <1>s, <1>22 DEF PrepareStart
<1>23. ASSUME Check(d) PROVE BeginFlow(d)
  BY <1>s, <1>23 DEF Check
<1>24. ASSUME BeforeStart(d) PROVE BeginFlow(d)
  BY <1>s, <1>24 DEF BeforeStart
<1>25. ASSUME Tunnel(d) PROVE BeginFlow(d)
  BY <1>s, <1>25 DEF Tunnel
<1>26. ASSUME AddObserver(d) PROVE BeginFlow(d)
  BY <1>s, <1>26 DEF AddObserver
<1>27. ASSUME ClaimStarted(d) PROVE BeginFlow(d)
  BY <1>s, <1>27 DEF ClaimStarted
<1>28. ASSUME MarkRuntimeStarted(d) PROVE BeginFlow(d)
  BY <1>s, <1>28 DEF MarkRuntimeStarted
<1>29. ASSUME StopStale(d) PROVE BeginFlow(d)
  BY <1>s, <1>29 DEF StopStale
<1>30. ASSUME ClearStartup(d) PROVE BeginFlow(d)
  BY <1>s, <1>30 DEF ClearStartup
<1>31. ASSUME HandleStartupError(d) PROVE BeginFlow(d)
  BY <1>s, <1>31 DEF HandleStartupError
<1>32. ASSUME FailStart(d) PROVE BeginFlow(d)
  BY <1>s, <1>32 DEF FailStart
<1> QED BY <1>1, <1>2, <1>3, <1>4, <1>5, <1>6, <1>7, <1>8, <1>9, <1>10, <1>11, <1>12, <1>13, <1>14, <1>15, <1>16, <1>17, <1>18, <1>19, <1>20, <1>21, <1>22, <1>23, <1>24, <1>25, <1>26, <1>27, <1>28, <1>29, <1>30, <1>31, <1>32 DEF Submit, Step

Preempted == {"bind", "run", "invalidate", "find", "stop", "delete", "restoreSMS", "unbind", "done"}
Past == {"find", "stop", "delete", "restoreSMS", "unbind", "done"}
Unbound == {"new", "queue", "bind", "unlock", "done"}
Waits(b) == pc[b] \in {"new", "number", "preempt", "bind"}

(* Before the switch's command runs, cancelActiveRun hits the command that *)
(* runs.                                                                   *)
BoundInv ==
  (\A b \in Commands : Begins(b) => Waits(b)) =>
    \A c \in Commands : Queues(c) /\ pc[c] \notin Unbound => runCancel = c

(* BoundInv is inductive as long as nothing restarts.                      *)
LEMMA BoundStep ==
  ASSUME TypeOK, KindInv, OneRuns, BoundInv, NEW d \in Commands, Kind(d) # "restart",
         Submit(d) \/ Step(d)
  PROVE  BoundInv'
<1>1. OthersKept(d) /\ pc'[d] # "new" /\ SwitchFlow(d) /\ BeginFlow(d)
  BY OneMoves, SwitchSteps, BeginSteps
<1>k. Queues(d) \/ Begins(d) \/ Kind(d) = "reconnect"
  BY DEF Queues, Begins, Kind, Kinds
<1> SUFFICES ASSUME \A b \in Commands : Begins(b) => Waits(b)',
                    NEW c \in Commands, Queues(c), pc'[c] \notin Unbound
             PROVE  runCancel' = c
  BY DEF BoundInv, Begins, Queues
<1>2. \A b \in Commands : Begins(b) => Waits(b)
  <2> SUFFICES ASSUME NEW b \in Commands, Begins(b) PROVE Waits(b)
    OBVIOUS
  <2>1. CASE b # d
    BY <1>1, <2>1 DEF OthersKept, Waits
  <2>2. CASE b = d
    BY <1>1, <2>2 DEF SwitchFlow, BeginFlow, Waits, KindInv, Teardown, Begins
  <2> QED BY <2>1, <2>2
<1>3. CASE c # d
  <2>1. runCancel = c /\ runMu = c
    BY <1>1, <1>2, <1>3 DEF OthersKept, BoundInv, OneRuns, Unbound
  <2>2. pc[d] \notin {"bind", "unbind"}
    <3>1. CASE Queues(d)
      BY <1>3, <2>1, <3>1 DEF OneRuns
    <3>2. CASE Begins(d)
      BY <1>1, <1>2, <3>2 DEF SwitchFlow, Waits
    <3>3. CASE Kind(d) = "reconnect"
      BY <3>3 DEF KindInv, Teardown
    <3> QED BY <1>k, <3>1, <3>2, <3>3
  <2> QED BY <1>1, <2>1, <2>2 DEF SwitchFlow
<1>4. CASE c = d
  <2>1. pc[d] \notin {"new", "queue", "unbind", "done"}
    BY <1>1, <1>4 DEF SwitchFlow, Unbound
  <2>2. CASE pc[d] = "bind"
    BY <1>1, <1>4, <2>2 DEF SwitchFlow
  <2>3. CASE pc[d] \notin Unbound
    BY <1>1, <1>2, <1>4, <2>1, <2>3 DEF SwitchFlow, BoundInv, Unbound
  <2>4. pc[d] # "unlock"
    BY <1>4 , <1>1 DEF SwitchFlow, Unbound
  <2> QED BY <2>1, <2>2, <2>3, <2>4 DEF Unbound
<1> QED BY <1>3, <1>4

(* The switch is marked while its command is under way, and it ends after. *)
MarkInv ==
  /\ \A b \in Commands : Begins(b) /\ pc[b] \notin {"new", "done"} => switching
  /\ ~ EndsNew => \E b \in Commands : Begins(b) /\ pc[b] = "done"

(* What the switch has done to the other commands, and to the slot, by the *)
(* time its command is where it is: a start that passed the gate before is *)
(* cancelled, or holds an epoch that the teardown has made old.            *)
LeftBehind(c) ==
  /\ pc[c] \in {"prepare", "check"} => c \in cancelled \/ startEpoch[c] < slot.epoch
  /\ pc[c] \in {"before", "tunnel", "observe", "claim"} => startEpoch[c] < slot.epoch
TornDown(b) ==
  /\ pc[b] \in Preempted => \A c \in Commands : pc[c] = "begin" => c \in cancelled
  /\ pc[b] \in Past => \A c \in Commands : LeftBehind(c)
  /\ pc[b] \in {"stop", "delete"} => slot.instance \in {target[b], None}
  /\ pc[b] \in {"restoreSMS", "unbind", "done"} => slot.instance = None
DownInv == switching /\ EndsNew => \A b \in Commands : Begins(b) => TornDown(b)

SwitchInv == BoundInv /\ MarkInv /\ DownInv

(* MarkInv is inductive while there is one switch.                         *)
LEMMA MarkStep ==
  ASSUME TypeOK, KindInv, MarkInv, OneSwitch', NEW d \in Commands, Submit(d) \/ Step(d)
  PROVE  MarkInv'
<1>1. OthersKept(d) /\ pc'[d] # "new" /\ SwitchFlow(d) /\ BeginFlow(d)
  BY OneMoves, SwitchSteps, BeginSteps
<1>2. ASSUME NEW b \in Commands, Begins(b), pc'[b] \notin {"new", "done"} PROVE switching'
  BY <1>1, <1>2 DEF MarkInv, OthersKept, SwitchFlow, BeginFlow
<1>3. ASSUME ~ EndsNew' PROVE \E b \in Commands : Begins(b) /\ pc'[b] = "done"
  <2>1. \E b \in Commands : Begins(b) /\ pc[b] = "done"
    <3>1. CASE EndsNew
      <4>1. Kind(d) = "switchEnd" /\ pc[d] = "new"
        BY <1>1, <1>3, <3>1 DEF EndsNew, OthersKept
      <4> QED BY <1>1, <4>1 DEF BeginFlow
    <3>2. CASE ~ EndsNew
      BY <3>2 DEF MarkInv
    <3> QED BY <3>1, <3>2
  <2>2. PICK b \in Commands : Begins(b) /\ pc[b] = "done"
    BY <2>1
  <2> QED BY <1>1, <2>2 DEF SwitchFlow, OthersKept
<1> QED BY <1>2, <1>3 DEF MarkInv, Begins

(* The command that begins the switch moves.                               *)
LEMMA BeginsDown ==
  ASSUME TypeOK, TypeOK', KindInv, NoRestart, OneRuns, FreshInv, BoundInv, MarkInv, DownInv,
         OneSwitch', NEW b \in Commands, Begins(b), EndsNew, Submit(b) \/ Step(b)
  PROVE  TornDown(b)'
<1>1. OthersKept(b) /\ pc'[b] # "new" /\ SwitchFlow(b) /\ BeginFlow(b) /\ StartFlow(b)
      /\ EpochStep(b) /\ InstanceStep(b)
  BY OneMoves, SwitchSteps, BeginSteps, StartSteps, SlotSteps
<1>e. slot.epoch \in Nat /\ slot'.epoch \in Nat /\ startEpoch \in [Commands -> Nat]
  BY TypeParts, SlotFields DEF TypeOK
<1>p. pc[b] \in Teardown \cup {"number", "preempt", "bind", "run", "unbind"}
  BY DEF KindInv, Begins
<1>2. CASE pc[b] \in {"new", "number"}
  <2>1. pc'[b] \notin Preempted
    BY <1>1, <1>2 DEF SwitchFlow, BeginFlow, Preempted
  <2> QED BY <2>1 DEF TornDown, Preempted, Past
<1>3. CASE pc[b] \notin {"new", "number"}
  <2>1. switching /\ TornDown(b)
    BY <1>1, <1>3 DEF MarkInv, DownInv, SwitchFlow
  <2>2. \A c \in Commands : c # b => pc'[c] = pc[c] /\ startEpoch'[c] = startEpoch[c]
    BY <1>1 DEF OthersKept
  <2>b. pc'[b] \notin {"begin", "prepare", "check", "before", "tunnel", "observe", "claim"}
    BY <1>1, <1>p DEF StartFlow, Teardown
  <2>3. ASSUME NEW c \in Commands, pc'[c] = "begin", pc'[b] \in Preempted PROVE c \in cancelled'
    <3>1. c # b /\ pc[c] = "begin"
      BY <2>2, <2>3, <2>b
    <3>2. CASE pc[b] = "preempt"
      <4>1. \A a \in Commands : Begins(a) => Waits(a)
        BY <1>1, <3>2 DEF OneSwitch, Submitted, At, Begins, Waits, OthersKept
      <4>2. runCancel = c
        BY <3>1, <4>1, ClearsAlone DEF BoundInv, Unbound
      <4> QED BY <1>1, <3>2, <4>2 DEF SwitchFlow
    <3>3. CASE pc[b] # "preempt"
      <4>1. pc[b] \in Preempted
        BY <1>1, <1>3, <1>p, <3>3 DEF Preempted, Teardown
      <4> QED BY <1>1, <2>1, <3>1, <4>1 DEF TornDown, StartFlow
    <3> QED BY <3>2, <3>3
  <2>4. ASSUME NEW c \in Commands, pc'[b] \in Past PROVE LeftBehind(c)'
    <3>1. CASE pc[b] = "invalidate"
      <4>1. slot'.epoch > slot.epoch
        BY <1>1, <3>1 DEF EpochStep
      <4>2. CASE pc'[c] \in Claiming
        <5>1. c # b
          BY <2>b, <4>2 DEF Claiming
        <5>2. startEpoch'[c] = startEpoch[c] /\ startEpoch[c] <= slot.epoch
          BY <2>2, <4>2, <5>1 DEF FreshInv
        <5> QED BY <1>e, <4>1, <5>2 DEF LeftBehind
      <4>3. CASE pc'[c] \notin Claiming
        BY <4>3 DEF LeftBehind, Claiming
      <4> QED BY <4>2, <4>3
    <3>2. CASE pc[b] # "invalidate"
      <4>1. pc[b] \in Past
        BY <1>1, <2>4, <3>2 DEF BeginFlow, Past
      <4>2. LeftBehind(c) /\ slot'.epoch >= slot.epoch
        BY <1>1, <1>p, <2>1, <4>1 DEF TornDown, EpochStep, Teardown
      <4>3. CASE c # b
        BY <1>1, <1>e, <2>2, <4>2, <4>3 DEF LeftBehind, StartFlow
      <4>4. CASE c = b
        BY <2>b, <4>4 DEF LeftBehind
      <4> QED BY <4>3, <4>4
    <3> QED BY <3>1, <3>2
  <2>i. ~ Claims(b) /\ pc[b] # "claim"
    BY <1>p DEF Claims, Teardown
  <2>5. ASSUME pc'[b] \in {"stop", "delete"} PROVE slot'.instance \in {target'[b], None}
    BY <1>1, <2>1, <2>5, <2>i DEF SwitchFlow, BeginFlow, InstanceStep, TornDown
  <2>6. ASSUME pc'[b] \in {"restoreSMS", "unbind", "done"} PROVE slot'.instance = None
    BY <1>1, <2>1, <2>6, <2>i DEF BeginFlow, InstanceStep, TornDown
  <2> QED BY <2>3, <2>4, <2>5, <2>6 DEF TornDown
<1> QED BY <1>2, <1>3

(* Another command moves.                                                  *)
LEMMA OthersDown ==
  ASSUME TypeOK, TypeOK', KindInv, NoRestart, OneRuns, switching, EndsNew',
         NEW b \in Commands, Begins(b), TornDown(b), NEW d \in Commands, d # b, Submit(d) \/ Step(d)
  PROVE  TornDown(b)'
<1>1. OthersKept(d) /\ pc'[d] # "new" /\ StartFlow(d) /\ EpochStep(d) /\ InstanceStep(d)
  BY OneMoves, StartSteps, SlotSteps
<1>2. pc'[b] = pc[b] /\ target'[b] = target[b] /\ cancelled \subseteq cancelled'
  BY <1>1 DEF OthersKept, StartFlow
<1>e. slot.epoch \in Nat /\ slot'.epoch \in Nat /\ startEpoch \in [Commands -> Nat]
      /\ startEpoch' \in [Commands -> Nat]
  BY TypeParts, SlotFields DEF TypeOK
<1>3. ASSUME NEW c \in Commands, pc'[c] = "begin", pc[b] \in Preempted PROVE c \in cancelled'
  <2>1. CASE c = d
    <3>1. Kind(d) # "switchEnd"
      BY <1>1 DEF EndsNew
    <3> QED BY <1>1, <1>3, <2>1, <3>1 DEF StartFlow, BlockedBySwitch
  <2>2. CASE c # d
    BY <1>1, <1>2, <1>3, <2>2 DEF OthersKept, TornDown
  <2> QED BY <2>1, <2>2
<1>4. ASSUME NEW c \in Commands, pc[b] \in Past PROVE LeftBehind(c)'
  <2>0. LeftBehind(c)
    BY <1>4 DEF TornDown
  <2>1. CASE c = d
    <3>1. CASE pc'[d] = "prepare"
      BY <1>1, <1>2, <1>4, <2>1, <3>1 DEF StartFlow, TornDown, Past, Preempted, LeftBehind
    <3>2. CASE pc'[d] = "check"
      <4>1. pc[d] = "prepare" /\ startEpoch'[d] = startEpoch[d] /\ slot'.epoch >= slot.epoch
        BY <1>1, <3>2 DEF StartFlow, EpochStep
      <4> QED BY <1>2, <1>e, <2>0, <2>1, <3>2, <4>1 DEF LeftBehind
    <3>3. CASE pc'[d] = "before"
      BY <1>1, <1>e, <2>0, <2>1, <3>3 DEF StartFlow, ShouldRun, LeftBehind
    <3>4. CASE pc'[d] \in {"tunnel", "observe", "claim"}
      <4>1. /\ pc[d] \in {"before", "tunnel", "observe"} /\ startEpoch'[d] = startEpoch[d]
            /\ slot'.epoch >= slot.epoch
        BY <1>1, <3>4 DEF StartFlow, EpochStep
      <4> QED BY <1>e, <2>0, <2>1, <3>4, <4>1 DEF LeftBehind
    <3>5. CASE pc'[d] \notin Claiming
      BY <2>1, <3>5 DEF LeftBehind, Claiming
    <3> QED BY <3>1, <3>2, <3>3, <3>4, <3>5 DEF Claiming
  <2>2. CASE c # d
    <3>1. pc'[c] = pc[c] /\ startEpoch'[c] = startEpoch[c]
      BY <1>1, <2>2 DEF OthersKept
    <3>2. CASE pc[c] \in Claiming
      <4>1. slot'.epoch >= slot.epoch
        BY <1>1, <2>2, <3>2, ClearsAlone DEF EpochStep
      <4> QED BY <1>2, <1>e, <2>0, <3>1, <4>1 DEF LeftBehind
    <3>3. CASE pc[c] \notin Claiming
      BY <3>1, <3>3 DEF LeftBehind, Claiming
    <3> QED BY <3>2, <3>3
  <2> QED BY <2>1, <2>2
<1>5. pc[b] \in Past => ~ Claims(d)
  BY <1>1, <1>e DEF TornDown, LeftBehind, InstanceStep, Claims
<1>6. ASSUME pc[b] \in {"stop", "delete"} PROVE slot'.instance \in {target[b], None}
  BY <1>1, <1>5, <1>6 DEF InstanceStep, TornDown, Past
<1>7. ASSUME pc[b] \in {"restoreSMS", "unbind", "done"} PROVE slot'.instance = None
  BY <1>1, <1>5, <1>7 DEF InstanceStep, TornDown, Past
<1> QED BY <1>2, <1>3, <1>4, <1>6, <1>7 DEF TornDown

(* The three parts of SwitchInv are inductive together.                    *)
LEMMA SwitchStep ==
  ASSUME TypeOK, TypeOK', RunInv, NoRestart, SwitchInv, NoRestart', OneSwitch',
         NEW d \in Commands, Submit(d) \/ Step(d)
  PROVE  SwitchInv'
<1>r. KindInv /\ OneRuns /\ FreshInv
  BY DEF RunInv
<1>k. Kind(d) # "restart"
  BY SubmittedGrows DEF NoRestart
<1>1. BoundInv' /\ MarkInv'
  BY <1>r, <1>k, BoundStep, MarkStep DEF SwitchInv
<1>2. OthersKept(d) /\ pc'[d] # "new" /\ BeginFlow(d)
  BY <1>r, OneMoves, BeginSteps
<1>3. ASSUME switching', EndsNew', NEW b \in Commands, Begins(b) PROVE TornDown(b)'
  <2>1. EndsNew
    BY <1>2, <1>3 DEF EndsNew, OthersKept
  <2>2. CASE b = d
    BY <1>r, <1>3, <2>1, <2>2, BeginsDown DEF SwitchInv
  <2>3. CASE b # d
    <3>1. CASE switching
      BY <1>r, <1>3, <2>1, <2>3, <3>1, OthersDown DEF SwitchInv, DownInv
    <3>2. CASE ~ switching
      <4>1. Begins(d)
        BY <1>2, <1>3, <3>2 DEF BeginFlow
      <4>2. pc'[b] = "new"
        BY <1>2, <1>3, <2>3, <4>1 DEF OneSwitch, Submitted, At, Begins
      <4> QED BY <4>2 DEF TornDown, Preempted, Past
    <3> QED BY <3>1, <3>2
  <2> QED BY <2>2, <2>3
<1> QED BY <1>1, <1>3 DEF SwitchInv, DownInv, Begins

(* Without restarts, and with one switch, nothing registers an instance    *)
(* between the teardown before an eSIM switch and the switch's end: the    *)
(* gate, the cancelled context and the epoch together close every way in.  *)
THEOREM SwitchIsDown == Spec => [](NoRestart /\ OneSwitch => SwitchKeepsDown)
<1>1. Init => SwitchInv
  <2>1. Init => BoundInv /\ MarkInv
    BY DEF Init, BoundInv, MarkInv, EndsNew, Unbound
  <2>2. Init => DownInv
    BY DEF Init, DownInv
  <2> QED BY <2>1, <2>2 DEF SwitchInv
<1>2. TypeOK /\ TypeOK' /\ RunInv /\ (NoRestart /\ OneSwitch => SwitchInv) /\ [Next]_vars
        => (NoRestart /\ OneSwitch => SwitchInv)'
  <2> SUFFICES ASSUME TypeOK, TypeOK', RunInv, NoRestart /\ OneSwitch => SwitchInv, [Next]_vars,
                      NoRestart', OneSwitch'
               PROVE  SwitchInv'
    OBVIOUS
  <2>1. NoRestart /\ OneSwitch /\ SwitchInv
    BY FewerConditions
  <2>2. ASSUME NEW d \in Commands, Submit(d) \/ Step(d) PROVE SwitchInv'
    BY <2>1, <2>2, SwitchStep
  <2>3. CASE UNCHANGED vars
    BY <2>1, <2>3 DEF vars, store, control, host, local, SwitchInv, BoundInv, MarkInv, DownInv,
       EndsNew, Waits, TornDown, LeftBehind
  <2>4. CASE ClearSwitching
    <3>1. /\ ~ switching' /\ pc' = pc /\ runCancel' = runCancel
          /\ \A b \in Commands : Begins(b) => pc[b] \in {"new", "done"}
      BY <2>4 DEF ClearSwitching, control, Begins
    <3>2. BoundInv' /\ MarkInv'
      BY <2>1, <3>1 DEF SwitchInv, BoundInv, MarkInv, EndsNew, Waits
    <3>3. DownInv'
      BY <3>1 DEF DownInv
    <3> QED BY <3>2, <3>3 DEF SwitchInv
  <2> QED BY <2>2, <2>3, <2>4 DEF Next
<1>3. (NoRestart /\ OneSwitch => SwitchInv) => (NoRestart /\ OneSwitch => SwitchKeepsDown)
  <2> SUFFICES ASSUME SwitchInv PROVE SwitchKeepsDown
    OBVIOUS
  <2> SUFFICES ASSUME switching, NEW b \in Commands, Begins(b), pc[b] = "done", EndsNew
               PROVE  slot.instance = None
    BY DEF SwitchKeepsDown, EndsNew, Begins, At
  <2> QED BY DEF SwitchInv, DownInv, TornDown
<1> QED BY <1>1, <1>2, <1>3, HostTyped, RunsInOrder, PTL DEF Spec

=============================================================================
