---------------------------- MODULE Device_proofs ----------------------------
(* What the run of MCDevice checks, proved for any number of switches,      *)
(* recovers, scans, calls and workers: the theorems of the modules that a   *)
(* behaviour of MCDevice is made of, and of the scan for operators, taken   *)
(* together.  The switch's variables are in s1 to s14, as MCDevice has      *)
(* them, and so are those of the others; of the scan s1 is what the worker  *)
(* keeps, s2 that it is overdue, s3 its goroutines, s6 what is shown, s9    *)
(* the connection and s13 that the stream is wanted.                        *)
EXTENDS MCDevice, TLAPS

Switched == INSTANCE ESIMSwitch_proofs WITH
    NoSwitch <- None, Absent <- None,
    mark <- s1, desired <- s2, airplane <- s3, runtime <- s4, radio <- s5,
    store <- s6, candidate <- s7, recovers <- s8, seq <- s9, opMu <- s10,
    at <- s11, token <- s12, flight <- s13, timers <- s14

(* What goes on at a device is there whether it is switched or not.         *)
Reconciled == INSTANCE ESIMSwitch_proofs WITH
    Recovers <- Reconciles, NoSwitch <- None, Absent <- None,
    mark <- s1, desired <- s2, airplane <- s3, runtime <- s4, radio <- s5,
    store <- s6, candidate <- s7, recovers <- s8, seq <- s9, opMu <- s10,
    at <- s11, token <- s12, flight <- s13, timers <- s14

Pooled == INSTANCE WorkerPool_proofs WITH
    Scans <- Rescans,
    backend <- s1, worker <- s2, running <- s3, rebuilding <- s4,
    recovering <- s5, active <- s6, calls <- s7, retrying <- s8, early <- s9
-----------------------------------------------------------------------------
(* The scan for operators.  A result is of the scan it is filed under,      *)
(* however late its goroutine: runOperatorScan() looks whether its scan is  *)
(* the current one and runs.                                                *)
NoLateResult == Scanning!ResultIsOwn /\ s1 \in Scanning!States /\ s3 \subseteq Scans

(* What the worker keeps changes with three operations only.                *)
LEMMA StartKeeps ==
    ASSUME NoLateResult, Scanning!StartOrGet
    PROVE  NoLateResult'
<1>1. CASE Scanning!Running(s1)
  <2>1. s1' \in {s1, Scanning!Failed(s1)} /\ s3' = s3
    BY <1>1 DEF Scanning!StartOrGet, Scanning!Expired
  <2>2. CASE s1' = s1
    BY <2>1, <2>2 DEF NoLateResult, Scanning!ResultIsOwn, Scanning!Running
  <2>3. CASE s1' = Scanning!Failed(s1)
    BY <2>1, <2>3 DEF NoLateResult, Scanning!ResultIsOwn, Scanning!Running,
         Scanning!Failed, Scanning!States
  <2> QED BY <2>1, <2>2, <2>3
<1>2. CASE ~ Scanning!Running(s1)
  <2>1. PICK id \in Scans \ (s3 \cup {s1.id}) :
            /\ s1' = [id |-> id, status |-> "running", of |-> None]
            /\ s3' = s3 \cup {id}
    BY <1>2 DEF Scanning!StartOrGet
  <2> QED BY <2>1 DEF NoLateResult, Scanning!ResultIsOwn, Scanning!Running, Scanning!States
<1> QED BY <1>1, <1>2

LEMMA RunnerKeeps ==
    ASSUME NoLateResult, NEW id \in s3, Scanning!RunEnds(id)
    PROVE  NoLateResult'
<1>1. s3' = s3 \ {id}
  BY DEF Scanning!RunEnds
<1>2. CASE Scanning!Running(s1) /\ s1.id = id
  <2>1. s1' = Scanning!Failed(s1) \/ s1' = [s1 EXCEPT !.status = "complete", !.of = id]
    BY <1>2 DEF Scanning!RunEnds
  <2> QED BY <1>1, <1>2, <2>1 DEF NoLateResult, Scanning!ResultIsOwn, Scanning!Running,
       Scanning!Failed, Scanning!States
<1>3. CASE ~ (Scanning!Running(s1) /\ s1.id = id)
  <2>1. s1' = s1
    BY <1>3 DEF Scanning!RunEnds
  <2> QED BY <1>1, <1>3, <2>1 DEF NoLateResult, Scanning!ResultIsOwn, Scanning!Running
<1> QED BY <1>2, <1>3

LEMMA TickKeeps ==
    ASSUME NoLateResult, Scanning!Tick
    PROVE  NoLateResult'
<1>1. s1' \in {s1, Scanning!Failed(s1)} /\ s3' = s3
  BY DEF Scanning!Tick, Scanning!Expired
<1>2. CASE s1' = s1
  BY <1>1, <1>2 DEF NoLateResult, Scanning!ResultIsOwn, Scanning!Running
<1>3. CASE s1' = Scanning!Failed(s1)
  BY <1>1, <1>3 DEF NoLateResult, Scanning!ResultIsOwn, Scanning!Running, Scanning!Failed,
       Scanning!States
<1> QED BY <1>1, <1>2, <1>3

LEMMA ResultStays ==
    ASSUME NoLateResult, Scanning!Next \/ UNCHANGED Scanning!vars
    PROVE  NoLateResult'
<1>1. CASE UNCHANGED Scanning!worker
  BY <1>1 DEF Scanning!worker, NoLateResult, Scanning!ResultIsOwn, Scanning!Running
<1>2. CASE Scanning!TimePasses
  BY <1>2 DEF Scanning!TimePasses, NoLateResult, Scanning!ResultIsOwn, Scanning!Running
<1>3. CASE Scanning!Serve \/ Scanning!ServeLate
  BY <1>3, StartKeeps DEF Scanning!Serve, Scanning!ServeLate
<1>4. CASE Scanning!Tick
  BY <1>4, TickKeeps
<1>5. CASE \E id \in s3 : Scanning!RunEnds(id)
  BY <1>5, RunnerKeeps
<1>6. CASE Scanning!Refuse \/ Scanning!Open \/ Scanning!Deliver \/ Scanning!Break
     \/ Scanning!Reconnect \/ Scanning!SeeAbort \/ Scanning!Start \/ Scanning!Resume
     \/ Scanning!Clear
  BY <1>1, <1>6 DEF Scanning!Refuse, Scanning!Open, Scanning!Deliver, Scanning!Break,
       Scanning!Reconnect, Scanning!SeeAbort, Scanning!Start, Scanning!Resume,
       Scanning!Follow, Scanning!Clear
<1>7. CASE UNCHANGED Scanning!vars
  BY <1>1, <1>7 DEF Scanning!vars, Scanning!worker
<1> QED BY <1>2, <1>3, <1>4, <1>5, <1>6, <1>7 DEF Scanning!Next

(* A connection that may still deliver belongs to a stream that is wanted.  *)
Followed == Scanning!RunningIsFollowed /\ (s9 \in {"fetching", "reading"} => s13)

LEMMA ScanStaysFollowed ==
    ASSUME Followed, Scanning!Next \/ UNCHANGED Scanning!vars
    PROVE  Followed'
<1> USE DEF Followed, Scanning!RunningIsFollowed, Scanning!Running
<1>1. CASE s6' = s6 /\ UNCHANGED Scanning!streamVars
  BY <1>1 DEF Scanning!streamVars
<1>2. CASE Scanning!TimePasses \/ Scanning!Serve \/ Scanning!Refuse
     \/ Scanning!ServeLate \/ Scanning!Tick \/ \E id \in s3 : Scanning!RunEnds(id)
  BY <1>1, <1>2 DEF Scanning!TimePasses, Scanning!Serve, Scanning!Refuse,
       Scanning!ServeLate, Scanning!Tick, Scanning!RunEnds
<1>3. CASE Scanning!Open \/ Scanning!Break \/ Scanning!SeeAbort
  BY <1>3 DEF Scanning!Open, Scanning!Break, Scanning!SeeAbort, Scanning!stream!Open,
       Scanning!stream!Fail, Scanning!stream!Malformed, Scanning!stream!Lost,
       Scanning!stream!SeeAbort
<1>4. CASE Scanning!Reconnect
  BY <1>4 DEF Scanning!Reconnect, Scanning!stream!TimerFires, Scanning!stream!ConnectWith
<1>5. CASE Scanning!Start \/ Scanning!Resume
  BY <1>5 DEF Scanning!Start, Scanning!Resume, Scanning!Follow, Scanning!stream!SetPaused,
       Scanning!stream!ConnectWith
<1>6. CASE Scanning!Deliver
  <2>1. CASE Scanning!Running(Head(s5))
    BY <1>6, <2>1 DEF Scanning!Deliver, Scanning!streamVars
  <2>2. CASE ~ Scanning!Running(Head(s5))
    BY <1>6, <2>2 DEF Scanning!Deliver, Scanning!stream!SetPaused,
         Scanning!stream!ConnectWith
  <2> QED BY <2>1, <2>2
<1>7. CASE Scanning!Clear
  BY <1>7 DEF Scanning!Clear, Scanning!Idle
<1>8. CASE UNCHANGED Scanning!vars
  BY <1>1, <1>8 DEF Scanning!vars, Scanning!streamVars
<1> QED BY <1>2, <1>3, <1>4, <1>5, <1>6, <1>7, <1>8 DEF Scanning!Next

LEMMA ScanBegins == Scanning!Init => NoLateResult /\ Followed
BY DEF Scanning!Init, Scanning!Idle, NoLateResult, Scanning!ResultIsOwn, Scanning!Running, Scanning!States,
     Followed, Scanning!RunningIsFollowed, Scanning!stream!Init

-----------------------------------------------------------------------------
(* A step of MCDevice is a step of the module whose theorems are used, for  *)
(* both are instances with the same variables.                              *)

LEMMA SwitchSteps == Switching!Next => Switched!Next
BY DEF
     Switching!switchVars, Switching!policy, Switching!recoverVars, Switching!vars,
     Switching!Switches, Switching!Finalising, Switching!Places, Switching!InFlight,
     Switching!Goto, Switching!Ends, Switching!Current, Switching!Radio, Switching!Capture,
     Switching!Begin, Switching!SwitchBegin, Switching!EnableProfile,
     Switching!RestoreRadio, Switching!Failed, Switching!Undo, Switching!Waits,
     Switching!CoreReady, Switching!Converge, Switching!Online, Switching!Identity,
     Switching!Gate, Switching!Restore, Switching!Clear, Switching!Timeout,
     Switching!Finalise, Switching!Next, Switching!device!recoverVars,
     Switching!device!policy, Switching!device!vars, Switching!device!Switching,
     Switching!device!States, Switching!device!InFlight, Switching!device!Waiting,
     Switching!device!Prepared, Switching!device!Up, Switching!device!FailsToStart,
     Switching!device!ScheduleDesiredRecover, Switching!device!Clear,
     Switching!device!ApplyPolicy, Switching!device!ShouldReconcile,
     Switching!device!Reconcile, Switching!device!RecoverSucceeds,
     Switching!device!RecoverEnds, Switching!device!RecoverResult,
     Switching!device!DelayPasses, Switching!device!RuntimeLost,
     Switching!device!EnableVoWiFi, Switching!device!DisableVoWiFi,
     Switching!device!SetFlightMode, Switching!device!Next, Switched!switchVars,
     Switched!policy, Switched!recoverVars, Switched!vars, Switched!Switches,
     Switched!Finalising, Switched!Places, Switched!InFlight, Switched!Goto, Switched!Ends,
     Switched!Current, Switched!Radio, Switched!Capture, Switched!Begin,
     Switched!SwitchBegin, Switched!EnableProfile, Switched!RestoreRadio, Switched!Failed,
     Switched!Undo, Switched!Waits, Switched!CoreReady, Switched!Converge, Switched!Online,
     Switched!Identity, Switched!Gate, Switched!Restore, Switched!Clear, Switched!Timeout,
     Switched!Finalise, Switched!Next, Switched!device!recoverVars, Switched!device!policy,
     Switched!device!vars, Switched!device!Switching, Switched!device!States,
     Switched!device!InFlight, Switched!device!Waiting, Switched!device!Prepared,
     Switched!device!Up, Switched!device!FailsToStart,
     Switched!device!ScheduleDesiredRecover, Switched!device!Clear,
     Switched!device!ApplyPolicy, Switched!device!ShouldReconcile,
     Switched!device!Reconcile, Switched!device!RecoverSucceeds,
     Switched!device!RecoverEnds, Switched!device!RecoverResult,
     Switched!device!DelayPasses, Switched!device!RuntimeLost,
     Switched!device!EnableVoWiFi, Switched!device!DisableVoWiFi,
     Switched!device!SetFlightMode, Switched!device!Next

LEMMA RecoverSteps == Recovering!Next => Reconciled!device!Next
BY DEF
     Recovering!recoverVars, Recovering!policy, Recovering!vars, Recovering!Switching,
     Recovering!States, Recovering!InFlight, Recovering!Waiting, Recovering!Prepared,
     Recovering!Up, Recovering!FailsToStart, Recovering!ScheduleDesiredRecover,
     Recovering!Clear, Recovering!ApplyPolicy, Recovering!ShouldReconcile,
     Recovering!Reconcile, Recovering!RecoverSucceeds, Recovering!RecoverEnds,
     Recovering!RecoverResult, Recovering!DelayPasses, Recovering!RuntimeLost,
     Recovering!EnableVoWiFi, Recovering!DisableVoWiFi, Recovering!SetFlightMode,
     Recovering!Next, Reconciled!device!recoverVars, Reconciled!device!policy,
     Reconciled!device!vars, Reconciled!device!Switching, Reconciled!device!States,
     Reconciled!device!InFlight, Reconciled!device!Waiting, Reconciled!device!Prepared,
     Reconciled!device!Up, Reconciled!device!FailsToStart,
     Reconciled!device!ScheduleDesiredRecover, Reconciled!device!Clear,
     Reconciled!device!ApplyPolicy, Reconciled!device!ShouldReconcile,
     Reconciled!device!Reconcile, Reconciled!device!RecoverSucceeds,
     Reconciled!device!RecoverEnds, Reconciled!device!RecoverResult,
     Reconciled!device!DelayPasses, Reconciled!device!RuntimeLost,
     Reconciled!device!EnableVoWiFi, Reconciled!device!DisableVoWiFi,
     Reconciled!device!SetFlightMode, Reconciled!device!Next

LEMMA PoolSteps == Pooling!Next => Pooled!Next
BY DEF
     Pooling!ports, Pooling!CoreRetries, Pooling!RetrySucceeds, Pooling!RetryEnds, Pooling!Retry,
     Pooling!Opening,
     Pooling!registry, Pooling!marks, Pooling!vars, Pooling!Calls, Pooling!Idle,
     Pooling!Starting, Pooling!At, Pooling!Held, Pooling!Free, Pooling!Doing, Pooling!Goto,
     Pooling!Plan, Pooling!Fresh, Pooling!Rest, Pooling!RestOfFailed,
     Pooling!BeginRebuildAttempt, Pooling!StartIsRefused, Pooling!Build,
     Pooling!BuildFails, Pooling!Register, Pooling!CoreStarts, Pooling!CoreFails,
     Pooling!EndRebuildAttempt, Pooling!Watchdog, Pooling!Start, Pooling!RemoveWorker,
     Pooling!Settled, Pooling!SettlingTimesOut, Pooling!StopWorker, Pooling!Remove,
     Pooling!Tick, Pooling!ScanPlans, Pooling!Rescan, Pooling!RebuildWorker,
     Pooling!ReleaseRebuilding, Pooling!DeleteDevice, Pooling!ScheduleByEvent,
     Pooling!Schedule, Pooling!Scheduled, Pooling!Rounds, Pooling!BeginRecovery,
     Pooling!SkipRecovery, Pooling!Round, Pooling!Refresh, Pooling!FinishRecovery,
     Pooling!FinishTransport, Pooling!Recovery, Pooling!Step, Pooling!Next,
     Pooled!ports, Pooled!CoreRetries, Pooled!RetrySucceeds, Pooled!RetryEnds, Pooled!Retry,
     Pooled!Opening,
     Pooled!registry, Pooled!marks, Pooled!vars, Pooled!Calls, Pooled!Idle,
     Pooled!Starting, Pooled!At, Pooled!Held, Pooled!Free, Pooled!Doing, Pooled!Goto,
     Pooled!Plan, Pooled!Fresh, Pooled!Rest, Pooled!RestOfFailed,
     Pooled!BeginRebuildAttempt, Pooled!StartIsRefused, Pooled!Build, Pooled!BuildFails,
     Pooled!Register, Pooled!CoreStarts, Pooled!CoreFails, Pooled!EndRebuildAttempt,
     Pooled!Watchdog, Pooled!Start, Pooled!RemoveWorker, Pooled!Settled,
     Pooled!SettlingTimesOut, Pooled!StopWorker, Pooled!Remove, Pooled!Tick,
     Pooled!ScanPlans, Pooled!Rescan, Pooled!RebuildWorker, Pooled!ReleaseRebuilding,
     Pooled!DeleteDevice, Pooled!ScheduleByEvent, Pooled!Schedule, Pooled!Scheduled,
     Pooled!Rounds, Pooled!BeginRecovery, Pooled!SkipRecovery, Pooled!Round,
     Pooled!Refresh, Pooled!FinishRecovery, Pooled!FinishTransport, Pooled!Recovery,
     Pooled!Step, Pooled!Next

LEMMA SwitchShows ==
    Switched!GateInv /\ Switched!device!InFlightIsOut
        => Switching!GateHeld /\ Switching!device!InFlightIsOut
BY DEF Switched!GateInv, Switched!GateHeld, Switched!Switches, Switching!GateHeld, Switching!Switches,
     Switched!device!InFlightIsOut, Switched!device!InFlight,
     Switching!device!InFlightIsOut, Switching!device!InFlight

LEMMA RecoverShows == Reconciled!device!InFlightIsOut => Recovering!InFlightIsOut
BY DEF Reconciled!device!InFlightIsOut, Reconciled!device!InFlight,
     Recovering!InFlightIsOut, Recovering!InFlight

LEMMA PoolShows ==
    Pooled!Owned => Pooling!NoWorkerLost /\ Pooling!MarkIsOwned /\ Pooling!RecoveryMarks
<1>1. Pooled!Owned => Pooled!NoWorkerLost /\ Pooled!MarkIsOwned /\ Pooled!RecoveryMarks
  BY Pooled!OwnedShows
<1>2. Pooled!NoWorkerLost => Pooling!NoWorkerLost
  BY DEF Pooled!NoWorkerLost, Pooling!NoWorkerLost, Pooled!Held, Pooling!Held, Pooled!Calls, Pooling!Calls
<1>3. Pooled!MarkIsOwned => Pooling!MarkIsOwned
  BY DEF Pooled!MarkIsOwned, Pooling!MarkIsOwned, Pooled!At, Pooling!At, Pooled!Calls, Pooling!Calls,
       Pooled!Starting, Pooling!Starting
<1>4. Pooled!RecoveryMarks => Pooling!RecoveryMarks
  BY DEF Pooled!RecoveryMarks, Pooling!RecoveryMarks, Pooled!At, Pooling!At, Pooled!Free, Pooling!Free,
       Pooled!Scheduled, Pooling!Scheduled
<1> QED BY <1>1, <1>2, <1>3, <1>4

-----------------------------------------------------------------------------
(* All parts together.                                                      *)
DeviceInv ==
    /\ part = "switch" => Switched!TypeOK /\ Switched!GateInv /\ Switched!device!InFlightIsOut
    /\ part = "recover" => Reconciled!device!TypeOK /\ Reconciled!device!InFlightIsOut
    /\ part = "scan" => NoLateResult /\ Followed
    /\ part = "pool" => Pooled!Owned

LEMMA DeviceBegins == Init => DeviceInv
<1> SUFFICES ASSUME Init PROVE DeviceInv
  OBVIOUS
<1>1. CASE part = "switch" /\ Switching!Init
  <2>1. Switched!Init
    BY <1>1 DEF Switching!Init, Switched!Init, Switching!device!Init, Switched!device!Init,
         Switching!Switches, Switched!Switches
  <2> QED BY <1>1, <2>1, Switched!InitType, Switched!InitGate DEF DeviceInv
<1>2. CASE part = "recover" /\ Recovering!Init
  BY <1>2 DEF DeviceInv, Recovering!Init, Reconciled!device!TypeOK, Reconciled!device!InFlightIsOut,
       Reconciled!device!InFlight, Reconciled!device!States
<1>3. CASE part = "scan" /\ Scanning!Init
  BY <1>3, ScanBegins DEF DeviceInv
<1>4. CASE part = "pool" /\ Pooling!Init
  <2>1. Pooled!Init
    BY <1>4 DEF Pooling!Init, Pooled!Init, Pooling!Calls, Pooled!Calls, Pooling!Idle, Pooled!Idle,
         Pooling!Away, Pooled!Away
  <2>2. Pooled!Parameters
    BY NumbersAssumption, WorkerAssumption DEF Pooled!Parameters
  <2> QED BY <1>4, <2>1, <2>2, Pooled!OwnedInit DEF DeviceInv
<1> QED BY <1>1, <1>2, <1>3, <1>4 DEF Init

LEMMA DeviceGoesOn == DeviceInv /\ [Next]_vars => DeviceInv'
<1> SUFFICES ASSUME DeviceInv, [Next]_vars PROVE DeviceInv'
  OBVIOUS
<1>0. part' = part
  BY DEF Next, SwitchStep, RecoverStep, ScanStep, PoolStep, rest, vars
<1>1. CASE part = "switch"
  <2>1. [Switched!Next]_(Switched!vars)
    BY <1>1, SwitchSteps DEF Next, SwitchStep, RecoverStep, ScanStep, PoolStep, vars, slots,
         Switched!vars, Switched!policy, Switched!recoverVars, Switched!switchVars
  <2>2. Switched!Bounded
    BY NumbersAssumption DEF Switched!Bounded
  <2>3. Switched!TypeOK /\ Switched!GateInv /\ Switched!device!InFlightIsOut
    BY <1>1 DEF DeviceInv
  <2>4. Switched!TypeOK' /\ Switched!GateInv' /\ Switched!device!InFlightIsOut'
    BY <2>1, <2>2, <2>3, Switched!NextType, Switched!NextGate, Switched!NextInFlight
  <2> QED BY <1>0, <1>1, <2>4 DEF DeviceInv
<1>2. CASE part = "recover"
  <2>1. Reconciled!device!Next \/ UNCHANGED <<s1, s2, s3, s4, s5, s6, s7, s8>>
    BY <1>2, RecoverSteps DEF Next, SwitchStep, RecoverStep, ScanStep, PoolStep, vars, slots
  <2>2. Reconciled!device!TypeOK /\ Reconciled!device!InFlightIsOut
    BY <1>2 DEF DeviceInv
  <2>3. CASE Reconciled!device!Next
    <3>1. Reconciled!device!TypeOK' /\ Reconciled!device!InFlightIsOut'
      BY <2>2, <2>3, Reconciled!DeviceType, Reconciled!DeviceInFlight
    <3> QED BY <1>0, <1>2, <3>1 DEF DeviceInv
  <2>4. CASE UNCHANGED <<s1, s2, s3, s4, s5, s6, s7, s8>>
    BY <1>0, <1>2, <2>2, <2>4 DEF DeviceInv, Reconciled!device!TypeOK, Reconciled!device!InFlightIsOut,
         Reconciled!device!InFlight
  <2> QED BY <2>1, <2>3, <2>4
<1>3. CASE part = "scan"
  <2>1. Scanning!Next \/ UNCHANGED Scanning!vars
    BY <1>3 DEF Next, SwitchStep, RecoverStep, ScanStep, PoolStep, vars, slots, Scanning!vars
  <2>2. NoLateResult' /\ Followed'
    BY <1>3, <2>1, ResultStays, ScanStaysFollowed DEF DeviceInv
  <2> QED BY <1>0, <1>3, <2>2 DEF DeviceInv
<1>4. CASE part = "pool"
  <2>1. [Pooled!Next]_(Pooled!vars)
    BY <1>4, PoolSteps DEF Next, SwitchStep, RecoverStep, ScanStep, PoolStep, vars, slots,
         Pooled!vars, Pooled!registry, Pooled!ports, Pooled!marks
  <2>2. Pooled!Parameters
    BY NumbersAssumption, WorkerAssumption DEF Pooled!Parameters
  <2>3. Pooled!Owned'
    BY <1>4, <2>1, <2>2, Pooled!OwnedNext DEF DeviceInv
  <2> QED BY <1>0, <1>4, <2>3 DEF DeviceInv
<1>5. CASE part \notin {"switch", "recover", "scan", "pool"}
  BY <1>0, <1>5 DEF DeviceInv
<1> QED BY <1>1, <1>2, <1>3, <1>4, <1>5

LEMMA DeviceHolds == Spec => []DeviceInv
BY DeviceBegins, DeviceGoesOn, PTL DEF Spec

(* However many switches overlap, fail, hang or are finalised late, the     *)
(* device stays marked for the latest until it has been dealt with or its   *)
(* two minutes are over; and no device is left in flight in the store: a    *)
(* recover is out whose result takes the mark back, whatever a switch does  *)
(* to the device meanwhile (beginESIMSwitch(), clearESIMSwitchIfToken(),    *)
(* Begin() and MarkFailed() of recover_state.go).                           *)
THEOREM MarksStayOwned == Spec => []MarksAreOwned
<1>1. DeviceInv => MarksAreOwned
  BY SwitchShows, RecoverShows DEF DeviceInv, MarksAreOwned
<1> QED BY <1>1, DeviceHolds, PTL

(* A finished scan holds what its own goroutine found, however many         *)
(* goroutines of older scans are still out, and one that runs has its       *)
(* goroutine (runOperatorScan(), operator_selection.go).                    *)
THEOREM LateResultsAreDropped == Spec => []ResultIsOwn
<1>1. DeviceInv => ResultIsOwn
  BY DEF DeviceInv, NoLateResult, ResultIsOwn
<1> QED BY <1>1, DeviceHolds, PTL

(* A scan that is shown to run is followed, whatever breaks or is dropped:  *)
(* doScan() wants the stream, and only what ends the scan, or takes it off  *)
(* the page, gives it up (onEvent(), clearOperatorScan()).                  *)
THEOREM ShownScansAreFollowed == Spec => []RunningIsFollowed
<1>1. DeviceInv => RunningIsFollowed
  BY DEF DeviceInv, Followed, RunningIsFollowed
<1> QED BY <1>1, DeviceHolds, PTL

(* Whatever starts, removals, rebuilds, recoveries and watchdogs do beside  *)
(* each other: the core of no QMI worker is open that nobody knows, unless  *)
(* the worker was stopped while the core was starting, and no mark is held  *)
(* that nobody will release (AddWorkerFromConfig(),                         *)
(* startQMICoreWithStartupBudget(), RemoveWorker(), RebuildWorker(),        *)
(* startBootstrapWatchdog(), runModemRebootRecovery()).                     *)
THEOREM WorkersStayOwned == Spec => []WorkersAreOwned
<1>1. DeviceInv => WorkersAreOwned
  BY PoolShows DEF DeviceInv, WorkersAreOwned
<1> QED BY <1>1, DeviceHolds, PTL
=============================================================================
