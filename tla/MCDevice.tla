------------------------------ MODULE MCDevice ------------------------------
(* Instances for TLC of what goes on at a device beside the APDU arbiter    *)
(* and the VoWiFi host: two switches of a profile while VoWiFi recovers,    *)
(* the recovers by themselves, the scan for operators, and the worker that  *)
(* is started, removed and recovered.  A behaviour shows one of them, part, *)
(* whose variables are held by s1 to s14; those it does not need are Off.   *)
EXTENDS Naturals, Sequences

CONSTANTS
    None, Off,
    MaxSwitches, Recovers, RadioCycle, RadioFails,  \* of a switch and its device
    Reconciles,                             \* recovers of a device by itself
    Scans, MaxFaults, MaxDying,             \* of a scan for operators
    Ticks, Rescans, Users, Recoveries,      \* of a worker: who calls
    Groups, Tokens, MaxRounds

(* Nobody is none of those who are somebody, and the bounds are numbers; a  *)
(* recovery is a goroutine of its own (pool_reboot_recovery.go).            *)
ASSUME NumbersAssumption == MaxSwitches \in Nat /\ MaxRounds \in Nat
ASSUME WorkerAssumption ==
    None \notin Tokens /\ Recoveries \cap (Ticks \cup Rescans \cup Users) = {}

VARIABLES part, s1, s2, s3, s4, s5, s6, s7, s8, s9, s10, s11, s12, s13, s14

slots == <<s1, s2, s3, s4, s5, s6, s7, s8, s9, s10, s11, s12, s13, s14>>
vars == <<part, slots>>
rest == <<part, s9, s10, s11, s12, s13, s14>>

Switching == INSTANCE ESIMSwitch WITH
    NoSwitch <- None, Absent <- None,
    mark <- s1, desired <- s2, airplane <- s3, runtime <- s4, radio <- s5,
    store <- s6, candidate <- s7, recovers <- s8, seq <- s9, opMu <- s10,
    at <- s11, token <- s12, flight <- s13, timers <- s14

Recovering == INSTANCE DesiredRecover WITH
    Recovers <- Reconciles, Absent <- None,
    mark <- s1, desired <- s2, airplane <- s3, runtime <- s4, radio <- s5,
    store <- s6, candidate <- s7, recovers <- s8

Scanning == INSTANCE OperatorScan WITH
    NoScan <- None,
    scan <- s1, overdue <- s2, runners <- s3, serving <- s4, wire <- s5,
    shown <- s6, faults <- s7, paused <- s8, connection <- s9, dying <- s10,
    timer <- s11, connected <- s12, wanted <- s13

Pooling == INSTANCE WorkerPool WITH
    Scans <- Rescans,
    backend <- s1, worker <- s2, running <- s3, rebuilding <- s4,
    recovering <- s5, active <- s6, calls <- s7, retrying <- s8, early <- s9

idle == <<s10, s11, s12, s13, s14>>

Init ==
    \/ part = "switch" /\ Switching!Init
    \/ /\ part = "recover" /\ Recovering!Init
       /\ s9 = Off /\ s10 = Off /\ s11 = Off /\ s12 = Off /\ s13 = Off /\ s14 = Off
    \/ part = "scan" /\ Scanning!Init /\ s14 = Off
    \/ /\ part = "pool" /\ Pooling!Init
       /\ s10 = Off /\ s11 = Off /\ s12 = Off /\ s13 = Off /\ s14 = Off

SwitchStep == part = "switch" /\ Switching!Next /\ UNCHANGED part
RecoverStep ==
    part = "recover" /\ Recovering!Next /\ UNCHANGED rest
ScanStep == part = "scan" /\ Scanning!Next /\ UNCHANGED <<part, s14>>
PoolStep == part = "pool" /\ Pooling!Next /\ UNCHANGED <<part, idle>>

Next == SwitchStep \/ RecoverStep \/ ScanStep \/ PoolStep

(* The reconciler looks every half minute, a recover ends, a delay passes,  *)
(* and so do the two minutes of a switch.  Of the switch itself nothing     *)
(* need ever go on.                                                         *)
SwitchFairness ==
    /\ WF_vars(part = "switch" /\ Switching!device!ShouldReconcile /\ UNCHANGED rest)
    /\ WF_vars(part = "switch" /\ Switching!device!Reconcile /\ UNCHANGED rest)
    /\ WF_vars(part = "switch" /\ Switching!device!DelayPasses /\ UNCHANGED rest)
    /\ \A r \in Recovers :
          /\ WF_vars(part = "switch" /\ Switching!device!RecoverEnds(r) /\ UNCHANGED rest)
          /\ WF_vars(part = "switch" /\ Switching!device!RecoverResult(r) /\ UNCHANGED rest)
    /\ \A n \in 1..MaxSwitches :
          WF_vars(part = "switch" /\ n \in s14 /\ Switching!Timeout(n) /\ UNCHANGED part)

(* That of OperatorScan.                                                    *)
ScanFairness ==
    /\ WF_vars(part = "scan" /\ Scanning!TimePasses /\ UNCHANGED <<part, s14>>)
    /\ WF_vars(part = "scan" /\ Scanning!Serve /\ UNCHANGED <<part, s14>>)
    /\ WF_vars(part = "scan" /\ Scanning!Tick /\ UNCHANGED <<part, s14>>)
    /\ WF_vars(part = "scan" /\ Scanning!Open /\ UNCHANGED <<part, s14>>)
    /\ WF_vars(part = "scan" /\ Scanning!Deliver /\ UNCHANGED <<part, s14>>)
    /\ WF_vars(part = "scan" /\ Scanning!Reconnect /\ UNCHANGED <<part, s14>>)
    /\ WF_vars(part = "scan" /\ Scanning!SeeAbort /\ UNCHANGED <<part, s14>>)
    /\ \A id \in Scans :
          WF_vars(part = "scan" /\ id \in s3 /\ Scanning!RunEnds(id) /\ UNCHANGED <<part, s14>>)

(* Calls go on (GoesOn of WorkerPool), and the goroutine that starts a core *)
(* ends when its worker has been stopped.                                   *)
PoolFairness ==
    /\ \A c \in Pooling!Calls :
          WF_vars(part = "pool" /\ Pooling!GoesOn(c) /\ UNCHANGED <<part, idle>>)
    /\ \A w \in Tokens :
          WF_vars(part = "pool" /\ Pooling!Retry(w) /\ UNCHANGED <<part, idle>>)

(* What is tried again and again succeeds at last: a recover, and the start *)
(* of a worker.                                                             *)
Succeeds ==
    \/ /\ part = "switch" /\ UNCHANGED rest
       /\ \E r \in Recovers : Switching!device!RecoverSucceeds(r)
    \/ part = "pool" /\ Pooling!StartSucceeds /\ UNCHANGED <<part, idle>>

Spec == Init /\ [][Next]_vars
FairSpec ==
    /\ Spec
    /\ SwitchFairness /\ ScanFairness /\ PoolFairness /\ SF_vars(Succeeds)
-----------------------------------------------------------------------------
(* A device is marked for the latest switch until that has been dealt with  *)
(* or its two minutes are over, and in flight in the store only while a     *)
(* recover is out that will release it (clearESIMSwitchIfToken() and the    *)
(* clean-up of beginESIMSwitch(), pool_esim_switch.go; Begin(), MarkFailed() *)
(* and Clear(), recover_state.go).                                          *)
MarksAreOwned ==
    /\ part = "switch" => Switching!GateHeld /\ Switching!device!InFlightIsOut
    /\ part = "recover" => Recovering!InFlightIsOut

(* VoWiFi comes back, or is no longer wanted, whatever became of a switch:  *)
(* one that hangs releases the device in the end, and a failed recover does *)
(* not keep the next from being tried (pool_vowifi_reconcile.go).           *)
VoWiFiReturns == []<>(part = "switch" => s4 = "up" \/ ~ s2)

(* A scan that is shown to run is followed to its end (doScan() of          *)
(* Devices.vue and onEvent()).                                              *)
RunningIsFollowed == part = "scan" => Scanning!RunningIsFollowed

(* A scan that is complete holds what its own goroutine found, and one that *)
(* runs has its goroutine (runOperatorScan(), operator_selection.go).       *)
ResultIsOwn == part = "scan" => Scanning!ResultIsOwn

ScanShown == part = "scan" /\ s6.status = "running"

(* A scan that is shown to run is shown to have ended, or not shown         *)
(* (StartOrGetOperatorScan(), streamOperatorScan(), useEventStream.ts).     *)
ScanIsConcluded == ScanShown ~> ~ ScanShown

(* A QMI worker whose core is open is registered or in the hands of a call, *)
(* but for one that was stopped while its core was starting; the mark of a  *)
(* device is held by a call that will release it, and so are the two marks  *)
(* of a recovery (AddWorkerFromConfig(), startQMICoreWithStartupBudget(),   *)
(* RemoveWorker(), RebuildWorker(), runModemRebootRecovery()).              *)
WorkersAreOwned ==
    part = "pool" => Pooling!NoWorkerLost /\ Pooling!MarkIsOwned /\ Pooling!RecoveryMarks

(* A start that hangs does not keep the device for ever, a recovery ends,   *)
(* and a device that is left alone has a worker again                       *)
(* (startBootstrapWatchdog(), runHealthCheckTick()).                        *)
WorkerComesBack ==
    /\ []<>(part = "pool" => ~ s4)
    /\ []<>(part = "pool" => ~ s5 \/ Pooling!UserIsAtWork)
    /\ []<>(part = "pool" /\ Pooling!HealthIsChecked
             => s2 # None \/ s5 \/ Pooling!UserIsAtWork)
=============================================================================
