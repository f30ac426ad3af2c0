----------------------------- MODULE WorkerPool -----------------------------
(* The worker of one device (device/pool.go, pool_bootstrap.go,             *)
(* pool_reboot_recovery.go, transport_recovery_controller.go): the starts,  *)
(* removals and rebuilds that share the mark rebuilding, the watchdog that  *)
(* takes the mark from a start that hangs, the number by which such a start *)
(* learns that it has been overtaken, and the recoveries with their two     *)
(* marks.  A call works through its plan; a start or a removal is a step of *)
(* the call that makes it.  Health and the budget of rebuilds are a choice  *)
(* of whoever calls; VoWiFi is that of VoWiFiHost and DesiredRecover.       *)
EXTENDS Naturals, Sequences

CONSTANTS
    Ticks,        \* the starts of the health check
    Scans,        \* rescans: udev, the interface, the health check
    Users,        \* handlers of the interface that rebuild or delete
    Recoveries,   \* goroutines of runModemRebootRecovery()
    Groups,       \* bound: the calls that are made beside each other
    None,
    Tokens,       \* bound: workers told apart, numbered
    MaxRounds     \* bound: rounds of a recovery

VARIABLES
    backend,      \* of the device: "qmi", "mbim" or "at"
    worker,       \* Pool.workers
    running,      \* the workers whose QMI core is open
    retrying,     \* the workers of startQMICoreRetryLoop()
    early,        \* history: those stopped while their core was starting
    rebuilding,   \* Pool.rebuilding
    recovering,   \* Pool.modemRebootRecovering
    active,       \* TransportRecoveryController.active
    calls

ports == <<running, retrying, early>>
registry == <<backend, worker, ports, rebuilding>>
marks == <<recovering, active>>
vars == <<registry, marks, calls>>

Calls == Ticks \cup Scans \cup Users \cup Recoveries
Idle == [at |-> "plan", plan |-> <<>>, token |-> None,
         watched |-> FALSE, current |-> FALSE, own |-> FALSE]
Away == [Idle EXCEPT !.at = "away"]
Starting == {"building", "checked", "starting", "ending"}

Init ==
    /\ backend \in {"qmi", "mbim", "at"}
    /\ worker = None /\ rebuilding = FALSE
    /\ running = {} /\ retrying = {} /\ early = {}
    /\ recovering = FALSE /\ active = FALSE
    /\ \E group \in Groups :
          calls = [c \in Calls |-> IF c \in group THEN Idle ELSE Away]

At(c, place) == calls[c].at = place
Held(c) == calls[c].token
Free(c) == At(c, "plan") /\ calls[c].plan = <<>>
Doing(c, step) == At(c, "plan") /\ calls[c].plan # <<>> /\ Head(calls[c].plan) = step
Goto(c, place) == calls' = [calls EXCEPT ![c].at = place]
Plan(c, plan) == calls' = [calls EXCEPT ![c].at = "plan", ![c].plan = plan]
Fresh == Tokens \ ({worker} \cup {Held(c) : c \in Calls} \cup retrying)

(* What the step at hand leaves to do when it is done; a replacement whose  *)
(* removal fails does not start anything ("continue").                      *)
Rest(c) == Tail(calls[c].plan)
RestOfFailed(c) ==
    IF Head(calls[c].plan) = "replace" THEN Tail(Rest(c)) ELSE Rest(c)
-----------------------------------------------------------------------------
(* AddWorkerFromConfig(): whoever begins overtakes the starts before it,    *)
(* which is what the numbers of beginRebuildAttemptLocked() are for.  The   *)
(* number of a worker nobody knows of any more may be given again.          *)
BeginRebuildAttempt(c) ==
    /\ Doing(c, "add") /\ worker = None /\ ~ rebuilding /\ Fresh # {}
    /\ rebuilding' = TRUE
    /\ LET new == CHOOSE t \in Fresh : TRUE
       IN  /\ running' = running \ {new} /\ early' = early \ {new}
           /\ calls' = [d \in Calls |->
                 IF d = c THEN [calls[c] EXCEPT !.at = "building", !.token = new,
                                                !.watched = TRUE, !.current = TRUE]
                 ELSE [calls[d] EXCEPT !.current = FALSE]]
    /\ UNCHANGED <<backend, worker, retrying, marks>>

StartIsRefused(c) ==
    /\ Doing(c, "add") /\ (worker # None \/ rebuilding)
    /\ Plan(c, Rest(c)) /\ UNCHANGED <<registry, marks>>

(* The worker is built, which may hang, and opens the ports of MBIM and AT; *)
(* those of QMI are opened by its core.  Then the start asks whether it is  *)
(* still the latest (isRebuildAttemptCurrent()).                            *)
Build(c) ==
    /\ At(c, "building")
    /\ Goto(c, IF calls[c].current THEN "checked" ELSE "ending")
    /\ UNCHANGED <<registry, marks>>
BuildFails(c) ==
    /\ At(c, "building") /\ Goto(c, "ending") /\ UNCHANGED <<registry, marks>>

(* Mutant: QMI, too, registers without a look at who is there.              *)
RegisterMutant(c) ==
    /\ At(c, "checked")
    /\ worker' = Held(c)
    /\ Goto(c, IF backend = "qmi" THEN "starting" ELSE "ending")
    /\ UNCHANGED <<backend, ports, rebuilding, marks>>

(* registerWorkerStarting(), for QMI, which has opened nothing yet and gives *)
(* up for a worker that is there; the others register what they have.       *)
Register(c) ==
    /\ At(c, "checked")
    /\ IF backend = "qmi" /\ worker # None
       THEN Goto(c, "ending") /\ UNCHANGED worker
       ELSE /\ worker' = Held(c)
            /\ Goto(c, IF backend = "qmi" THEN "starting" ELSE "ending")
    /\ UNCHANGED <<backend, ports, rebuilding, marks>>

(* startQMICoreWithStartupBudget() of a worker that is registered, and may  *)
(* be removed meanwhile: the core is open, is left to a goroutine that      *)
(* tries again, or cannot be had and the worker is given up.                *)
CoreStarts(c) ==
    /\ At(c, "starting") /\ Goto(c, "ending")
    /\ running' = running \cup {Held(c)}
    /\ UNCHANGED <<backend, worker, retrying, early, rebuilding, marks>>
CoreRetries(c) ==
    /\ At(c, "starting") /\ Goto(c, "ending")
    /\ retrying' = retrying \cup {Held(c)}
    /\ UNCHANGED <<backend, worker, running, early, rebuilding, marks>>
CoreFails(c) ==
    /\ At(c, "starting") /\ Goto(c, "ending")
    /\ worker' = IF worker = Held(c) THEN None ELSE worker
    /\ running' = running \ {Held(c)}
    /\ UNCHANGED <<backend, retrying, early, rebuilding, marks>>

(* startQMICoreRetryLoop(): an attempt succeeds, though the worker may have *)
(* been stopped since it began, or the loop sees that it was.               *)
RetrySucceeds(w) ==
    /\ w \in retrying
    /\ running' = running \cup {w} /\ retrying' = retrying \ {w}
    /\ UNCHANGED <<backend, worker, early, rebuilding, marks, calls>>
RetryEnds(w) ==
    /\ w \in retrying /\ w # worker /\ \A c \in Calls : Held(c) # w
    /\ retrying' = retrying \ {w}
    /\ UNCHANGED <<backend, worker, running, early, rebuilding, marks, calls>>

(* endRebuildAttemptIfCurrent().                                            *)
EndRebuildAttempt(c) ==
    /\ At(c, "ending")
    /\ rebuilding' = (rebuilding /\ ~ calls[c].current)
    /\ calls' = [calls EXCEPT ![c].at = "plan", ![c].plan = Rest(c), ![c].token = None,
                              ![c].watched = FALSE, ![c].current = FALSE]
    /\ UNCHANGED <<backend, worker, ports, marks>>

(* Mutant: the watchdog keeps the mark.                                     *)
WatchdogMutant(c) ==
    /\ calls[c].at \in {"building", "starting"} /\ calls[c].watched
    /\ calls' = [calls EXCEPT ![c].watched = FALSE]
    /\ UNCHANGED <<registry, marks>>

(* startBootstrapWatchdog(): a minute and a half pass before a start has    *)
(* ended.                                                                   *)
Watchdog(c) ==
    /\ calls[c].at \in {"building", "starting"} /\ calls[c].watched
    /\ rebuilding' = (rebuilding /\ ~ calls[c].current)
    /\ calls' = [calls EXCEPT ![c].watched = FALSE]
    /\ UNCHANGED <<backend, worker, ports, marks>>

Start(c) ==
    \/ BeginRebuildAttempt(c) \/ StartIsRefused(c) \/ Build(c) \/ BuildFails(c)
    \/ Register(c) \/ CoreStarts(c) \/ CoreRetries(c) \/ CoreFails(c)
    \/ EndRebuildAttempt(c) \/ Watchdog(c)
-----------------------------------------------------------------------------
(* RemoveWorker(): it takes the mark unless another holds it, and waits for *)
(* a start that has nothing registered yet.                                 *)
RemoveWorker(c) ==
    /\ Doing(c, "remove") \/ Doing(c, "replace")
    /\ IF worker # None
       THEN /\ worker' = None /\ rebuilding' = TRUE
            /\ calls' = [calls EXCEPT ![c].at = "stopping", ![c].token = worker,
                                      ![c].own = ~ rebuilding]
       ELSE /\ UNCHANGED <<worker, rebuilding>>
            /\ IF rebuilding THEN Goto(c, "settling") ELSE Plan(c, RestOfFailed(c))
    /\ UNCHANGED <<backend, ports, marks>>

(* waitWorkerInitSettled(): ten seconds at most.                            *)
Settled(c) ==
    /\ At(c, "settling") /\ (worker # None \/ ~ rebuilding)
    /\ Goto(c, "plan") /\ UNCHANGED <<registry, marks>>
SettlingTimesOut(c) ==
    /\ At(c, "settling") /\ Plan(c, RestOfFailed(c)) /\ UNCHANGED <<registry, marks>>

(* Stop() of a core that is still starting does not keep it from opening.   *)
Opening(w) == w \in retrying \/ \E c \in Calls : At(c, "starting") /\ Held(c) = w
StopWorker(c) ==
    /\ At(c, "stopping")
    /\ running' = running \ {Held(c)}
    /\ early' = IF Opening(Held(c)) THEN early \cup {Held(c)} ELSE early
    /\ rebuilding' = (rebuilding /\ ~ calls[c].own)
    /\ calls' = [calls EXCEPT ![c].at = "plan", ![c].plan = Rest(c), ![c].token = None,
                              ![c].own = FALSE]
    /\ UNCHANGED <<backend, worker, retrying, marks>>

Remove(c) == RemoveWorker(c) \/ Settled(c) \/ SettlingTimesOut(c) \/ StopWorker(c)
-----------------------------------------------------------------------------
(* runHealthCheckTick(), of a device it finds without a worker: it starts   *)
(* it, or asks for a scan that does.                                        *)
Tick(c) ==
    /\ c \in Ticks /\ Free(c)
    /\ worker = None /\ ~ rebuilding /\ ~ recovering
    /\ Plan(c, <<"add">>) /\ UNCHANGED <<registry, marks>>

(* rescanAndReconnect(): the modem is found or not, where it was or         *)
(* elsewhere, and its worker is well or not.                                *)
ScanPlans ==
    IF worker = None THEN {<<>>, <<"add">>}
    ELSE {<<>>, <<"remove">>, <<"remove", "add">>, <<"replace", "add">>}
Rescan(c) ==
    /\ c \in Scans /\ Free(c)
    /\ \E plan \in ScanPlans : Plan(c, plan)
    /\ UNCHANGED <<registry, marks>>

(* RebuildWorker(), which may find no configuration, and what deletes a     *)
(* device, which stays configured here, as where that fails or it is added  *)
(* again.                                                                   *)
RebuildWorker(c) ==
    /\ c \in Users /\ Free(c)
    /\ rebuilding' = TRUE
    /\ \E plan \in {<<"release">>, <<"remove", "release", "add">>} : Plan(c, plan)
    /\ UNCHANGED <<backend, worker, ports, marks>>
ReleaseRebuilding(c) ==
    /\ Doing(c, "release")
    /\ rebuilding' = FALSE /\ Plan(c, Rest(c))
    /\ UNCHANGED <<backend, worker, ports, marks>>
DeleteDevice(c) ==
    /\ c \in Users /\ Free(c)
    /\ Plan(c, <<"remove">>) /\ UNCHANGED <<registry, marks>>
-----------------------------------------------------------------------------
(* scheduleWorkerRecoveryWithTransportEvent() of an event that Observe()    *)
(* takes: of the latest generation, and while no other is active.           *)
ScheduleByEvent(c) ==
    /\ c \in Recoveries /\ Free(c) /\ ~ active
    /\ active' = TRUE /\ Goto(c, "observed")
    /\ UNCHANGED <<registry, recovering>>

(* ScheduleModemRebootRecovery() and scheduleATDisconnectRecovery().        *)
Schedule(c) ==
    /\ c \in Recoveries /\ Free(c)
    /\ Goto(c, "scheduled") /\ UNCHANGED <<registry, marks>>

(* beginModemRebootRecovery(): one that finds another at work finishes the  *)
(* transport's mark if it has observed it, and ends.                        *)
Scheduled(c) == At(c, "scheduled") \/ At(c, "observed")
Rounds == [i \in 1..MaxRounds |-> "round"]
BeginRecovery(c) ==
    /\ Scheduled(c) /\ ~ recovering
    /\ recovering' = TRUE
    /\ \E plan \in {<<"remove">> \o Rounds, Rounds} : Plan(c, plan \o <<"finish">>)
    /\ UNCHANGED <<registry, active>>
SkipRecovery(c) ==
    /\ Scheduled(c) /\ recovering
    /\ active' = (active /\ ~ At(c, "observed"))
    /\ Goto(c, "plan")
    /\ UNCHANGED <<registry, recovering>>

(* A round: the modem is not there yet, or a scan, after which the SIM is   *)
(* read.                                                                    *)
Round(c) ==
    /\ Doing(c, "round")
    /\ \E plan \in {<<>>} \cup {scan \o <<"refresh">> : scan \in ScanPlans} :
          Plan(c, plan \o Rest(c))
    /\ UNCHANGED <<registry, marks>>

(* refreshModemRebootRecoveredIdentity(): without a worker, or with one     *)
(* that cannot be read yet, the next round; with one that is to be rebuilt, *)
(* its removal first; with one that is well, or whose control is, the end.  *)
Refresh(c) ==
    /\ Doing(c, "refresh")
    /\ \/ Plan(c, Rest(c))
       \/ worker # None /\ Plan(c, <<"remove">> \o Rest(c))
       \/ worker # None /\ Plan(c, <<"finish">>)
    /\ UNCHANGED <<registry, marks>>

(* The deferred finishModemRebootRecovery() and, after it, Finish().        *)
FinishRecovery(c) ==
    /\ Doing(c, "finish")
    /\ recovering' = FALSE
    /\ calls' = [calls EXCEPT ![c].at = "finishing", ![c].plan = <<>>]
    /\ UNCHANGED <<registry, active>>
FinishTransport(c) ==
    /\ At(c, "finishing")
    /\ active' = FALSE /\ Goto(c, "plan")
    /\ UNCHANGED <<registry, recovering>>

Recovery(c) ==
    \/ ScheduleByEvent(c) \/ Schedule(c) \/ BeginRecovery(c) \/ SkipRecovery(c)
    \/ Round(c) \/ Refresh(c) \/ FinishRecovery(c) \/ FinishTransport(c)

Step(c) ==
    \/ Start(c) \/ Remove(c) \/ Recovery(c)
    \/ Tick(c) \/ Rescan(c) \/ RebuildWorker(c) \/ ReleaseRebuilding(c)
    \/ DeleteDevice(c)
Retry(w) == RetrySucceeds(w) \/ RetryEnds(w)
Next == (\E c \in Calls : Step(c)) \/ (\E w \in Tokens : Retry(w))

(* What goes on by itself: everything but the requests of users, scans and  *)
(* recoveries, and a start that hangs.  Those of the health check and of a  *)
(* recovery are taken to end at last, for the check would make another, and *)
(* a recovery that hangs keeps the device for ever.                         *)
Builds(c) ==
    /\ calls[c].watched \/ c \in Ticks \cup Recoveries
    /\ Build(c) \/ BuildFails(c)
GoesOn(c) ==
    \/ BeginRebuildAttempt(c) \/ StartIsRefused(c) \/ Builds(c) \/ Register(c)
    \/ CoreStarts(c) \/ CoreRetries(c) \/ CoreFails(c)
    \/ EndRebuildAttempt(c) \/ Watchdog(c)
    \/ Remove(c) \/ Tick(c) \/ ReleaseRebuilding(c)
    \/ BeginRecovery(c) \/ SkipRecovery(c) \/ Round(c) \/ Refresh(c)
    \/ FinishRecovery(c) \/ FinishTransport(c)
StartSucceeds == \E c \in Calls : calls[c].watched /\ Build(c)
-----------------------------------------------------------------------------
(* The mark of a device is held by a call that will release it.             *)
MarkIsOwned ==
    rebuilding => \E c \in Calls :
        \/ calls[c].at \in Starting /\ calls[c].current
        \/ At(c, "stopping") /\ calls[c].own
        \/ \E i \in DOMAIN calls[c].plan : calls[c].plan[i] = "release"

(* A worker whose QMI core is open is registered or in the hands of a call, *)
(* unless it was stopped while the core was still starting: that core may   *)
(* open with nobody left to close it.                                       *)
NoWorkerLost ==
    \A w \in running \ early : w = worker \/ \E c \in Calls : Held(c) = w

(* One recovery works at a time, and neither of the two marks outlives the  *)
(* recoveries that are out.                                                 *)
RecoveryMarks ==
    LET Out == {c \in Recoveries : ~ Free(c) /\ ~ At(c, "away")}
        Working == {c \in Out : ~ Scheduled(c) /\ ~ At(c, "finishing")}
    IN  /\ recovering => Working # {}
        /\ \A c, d \in Working : c = d
        /\ active => Out # {}
(* A user who rebuilds or deletes the device.                               *)
UserIsAtWork == \E c \in Users : ~ Free(c) /\ ~ At(c, "away")

(* Whether the health check is among the calls of this behaviour.           *)
HealthIsChecked == \E c \in Ticks : ~ At(c, "away")
=============================================================================
