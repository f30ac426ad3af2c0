----------------------------- MODULE VoWiFiHost -----------------------------
(***************************************************************************)
(* The VoWiFi runtime of one device, internal/vowifihost: the lifecycle    *)
(* controller that orders the commands, the runtime store with its epoch,  *)
(* and the start and teardown sequences the commands run.  Each member of  *)
(* Commands is one call that goes through the Manager once:                *)
(*                                                                         *)
(*   enable, disable, restart, recover   the user's and the pool's commands*)
(*   switchBegin, switchEnd              before and after an eSIM switch   *)
(*   reconnect                           TeardownForReconnect, which does  *)
(*                                       not go through the controller     *)
(*                                                                         *)
(* Disable and restart, and every command that is not switchBegin, restart *)
(* or reconnect, queue on runMu; switchBegin and restart preempt.          *)
(* A slot that is deleted and a slot that was never made read the same, so *)
(* deleting is resetting to FreshSlot.                                     *)
(***************************************************************************)
EXTENDS Naturals, FiniteSets

CONSTANTS Commands, None,
          KindOf       \* [Commands -> Kinds]

Kinds == {"enable", "disable", "restart", "recover", "switchBegin", "switchEnd", "reconnect"}

ASSUME CommandsAssumption == None \notin Commands
ASSUME KindAssumption == KindOf \in [Commands -> Kinds]

VARIABLES
    slot,        \* Store.slots[device]
    generation,  \* deviceLifecycle.generation
    runMu,       \* the command that holds deviceLifecycle.runMu, or None
    runCancel,   \* the command whose context deviceLifecycle.runCancel cancels, or None
    cancelled,   \* the commands whose run context is cancelled
    pc,
    cmdGen,      \* LifecycleCommand.Generation, 0 when it has none
    startEpoch,  \* StartClaim.Epoch of the start a command runs
    target,      \* the instance a teardown is stopping
    live,        \* the instances that run, each named by the command that started it
    smsMode,     \* Worker.smsMode
    switching,   \* Pool.IsESIMSwitching
    busyGens,    \* the generations scheduleVoWiFiAPDUBusyRecover retries with
    invalidated  \* ghost: the starts the runtime was invalidated under

store == <<slot, live>>
control == <<generation, runMu, runCancel, cancelled, cmdGen>>
host == <<smsMode, switching, busyGens>>
local == <<startEpoch, target, invalidated>>
vars == <<store, control, host, local, pc>>

FreshSlot == [epoch |-> 0, instance |-> None, starting |-> FALSE,
              hasState |-> FALSE, failed |-> FALSE]

Init ==
    /\ slot = FreshSlot
    /\ generation = 0 /\ runMu = None /\ runCancel = None /\ cancelled = {}
    /\ pc = [c \in Commands |-> "new"]
    /\ cmdGen = [c \in Commands |-> 0]
    /\ startEpoch = [c \in Commands |-> 0]
    /\ target = [c \in Commands |-> None]
    /\ live = {} /\ smsMode = "native" /\ switching = FALSE
    /\ busyGens = {} /\ invalidated = {}

Kind(c) == KindOf[c]
Preempts(c) == Kind(c) \in {"switchBegin", "restart"}

Goto(c, label) == pc' = [pc EXCEPT ![c] = label]
At(c, label) == pc[c] = label

-----------------------------------------------------------------------------
(* The runtime store.                                                      *)

Invalidated(s) ==
    [s EXCEPT !.epoch = @ + 1, !.starting = FALSE, !.hasState = FALSE, !.failed = FALSE]

WithStartupState(s) == IF s.instance = None THEN [s EXCEPT !.hasState = TRUE] ELSE s

ClearedStartupState(s) ==
    IF ~ s.hasState THEN s
    ELSE IF s.instance = None /\ ~ s.starting /\ ~ s.failed THEN FreshSlot
    ELSE [s EXCEPT !.hasState = FALSE]

(* Mutant: a start is claimed without looking at the epoch.                *)
ClaimableMutant(s, epoch) == s.instance = None

Claimable(s, epoch) == s.epoch = epoch /\ s.instance = None

Claimed(s, inst) ==
    [s EXCEPT !.instance = inst, !.starting = FALSE, !.hasState = FALSE, !.failed = FALSE]

Failed(s, epoch) ==
    IF s.epoch # epoch THEN s
    ELSE [s EXCEPT !.starting = FALSE, !.hasState = TRUE, !.failed = TRUE]

WithoutInstance(s, inst) ==
    IF s.instance # inst THEN s
    ELSE IF s.epoch = 0 THEN FreshSlot
    ELSE [FreshSlot EXCEPT !.epoch = s.epoch]

InvalidateRuntime ==
    /\ slot' = Invalidated(slot)
    /\ invalidated' = Commands

(* The observer the host adds to an instance: an event of an instance that *)
(* is not the current one is recorded as a startup state.                  *)
Observed(s, inst) == IF s.instance = inst THEN s ELSE WithStartupState(s)

-----------------------------------------------------------------------------
(* The lifecycle controller.                                               *)

(* Disable and Restart invalidate the runtime before they submit; an eSIM  *)
(* switch marks the device before it asks for the teardown; a recover may  *)
(* carry the generation of the start whose APDU channel was busy.          *)
SubmitEnable(c) ==
    /\ At(c, "new") /\ Kind(c) = "enable"
    /\ Goto(c, "queue")
    /\ UNCHANGED <<store, control, host, local>>

SubmitInvalidating(c) ==
    /\ At(c, "new") /\ Kind(c) \in {"disable", "restart"}
    /\ InvalidateRuntime
    /\ Goto(c, IF Preempts(c) THEN "number" ELSE "queue")
    /\ UNCHANGED <<live, control, host, startEpoch, target>>

SubmitRecover(c) ==
    /\ At(c, "new") /\ Kind(c) = "recover"
    /\ \/ UNCHANGED cmdGen
       \/ /\ slot.instance = None
          /\ \E g \in busyGens : cmdGen' = [cmdGen EXCEPT ![c] = g]
    /\ Goto(c, "queue")
    /\ UNCHANGED <<store, generation, runMu, runCancel, cancelled, host, local>>

SubmitSwitchBegin(c) ==
    /\ At(c, "new") /\ Kind(c) = "switchBegin"
    /\ switching' = TRUE
    /\ Goto(c, "number")
    /\ UNCHANGED <<store, control, smsMode, busyGens, local>>

SubmitSwitchEnd(c) ==
    /\ At(c, "new") /\ Kind(c) = "switchEnd"
    /\ \E b \in Commands : Kind(b) = "switchBegin" /\ At(b, "done")
    /\ Goto(c, "queue")
    /\ UNCHANGED <<store, control, host, local>>

SubmitReconnect(c) ==
    /\ At(c, "new") /\ Kind(c) = "reconnect"
    /\ Goto(c, "invalidate")
    /\ UNCHANGED <<store, control, host, local>>

(* The switch is finalized, or its mark times out.                         *)
ClearSwitching ==
    /\ switching
    /\ \A b \in Commands : Kind(b) = "switchBegin" => pc[b] \in {"new", "done"}
    /\ switching' = FALSE
    /\ UNCHANGED <<store, control, smsMode, busyGens, local, pc>>

Stale(c) == cmdGen[c] # 0 /\ generation # 0 /\ cmdGen[c] # generation

(* Submit with runMu held: drop the command or give it a generation.       *)
Admit(c) ==
    /\ At(c, "queue") /\ runMu = None
    /\ runMu' = c
    /\ LET drop == Stale(c) \/ (Kind(c) = "enable" /\ slot.instance # None)
       IN /\ Goto(c, IF drop THEN "unlock" ELSE "bind")
          /\ IF drop \/ cmdGen[c] # 0
             THEN UNCHANGED <<generation, cmdGen>>
             ELSE /\ generation' = generation + 1
                  /\ cmdGen' = [cmdGen EXCEPT ![c] = generation + 1]
    /\ UNCHANGED <<store, runCancel, cancelled, host, local>>

(* Mutant: the next generation is read but not taken.                      *)
NumberMutant(c) ==
    /\ At(c, "number")
    /\ cmdGen' = [cmdGen EXCEPT ![c] = generation + 1]
    /\ Goto(c, "preempt")
    /\ UNCHANGED <<store, generation, runMu, runCancel, cancelled, host, local>>

(* submitPreempting.                                                       *)
Number(c) ==
    /\ At(c, "number")
    /\ generation' = generation + 1
    /\ cmdGen' = [cmdGen EXCEPT ![c] = generation + 1]
    /\ Goto(c, "preempt")
    /\ UNCHANGED <<store, runMu, runCancel, cancelled, host, local>>

(* Mutant: a preempting command leaves the running one alone.              *)
PreemptMutant(c) ==
    /\ At(c, "preempt")
    /\ Goto(c, "bind")
    /\ UNCHANGED <<store, control, host, local>>

(* cancelActiveRun.                                                        *)
Preempt(c) ==
    /\ At(c, "preempt")
    /\ cancelled' = cancelled \cup ({runCancel} \ {None})
    /\ Goto(c, "bind")
    /\ UNCHANGED <<store, generation, runMu, runCancel, cmdGen, host, local>>

FirstStep(c) ==
    CASE Kind(c) \in {"enable", "switchEnd"} -> "gate"
      [] Kind(c) = "disable" -> "find"
      [] Kind(c) = "recover" /\ (slot.instance # None \/ slot.starting) -> "unbind"
      [] OTHER -> "invalidate"

(* bindRunContext, and the entry of runLifecycleCommand.                   *)
Bind(c) ==
    /\ At(c, "bind")
    /\ runCancel' = c
    /\ Goto(c, "run")
    /\ UNCHANGED <<store, generation, runMu, cancelled, cmdGen, host, local>>

Run(c) ==
    /\ At(c, "run")
    /\ Goto(c, FirstStep(c))
    /\ UNCHANGED <<store, control, host, local>>

(* clearRun; then the deferred Unlock of runMu.                            *)
Unbind(c) ==
    /\ At(c, "unbind")
    /\ runCancel' = IF runCancel = c THEN None ELSE runCancel
    /\ Goto(c, IF Preempts(c) THEN "done" ELSE "unlock")
    /\ UNCHANGED <<store, generation, runMu, cancelled, cmdGen, host, local>>

(* Mutant: the early return of a dropped command keeps the lock.           *)
UnlockMutant(c) ==
    /\ At(c, "unlock")
    /\ runMu' = IF cmdGen[c] = 0 THEN c ELSE None
    /\ Goto(c, "done")
    /\ UNCHANGED <<store, generation, runCancel, cancelled, cmdGen, host, local>>

Unlock(c) ==
    /\ At(c, "unlock")
    /\ runMu' = None
    /\ Goto(c, "done")
    /\ UNCHANGED <<store, generation, runCancel, cancelled, cmdGen, host, local>>

-----------------------------------------------------------------------------
(* The teardown sequence, TeardownSession.                                 *)

Invalidate(c) ==
    /\ At(c, "invalidate")
    /\ InvalidateRuntime
    /\ Goto(c, "find")
    /\ UNCHANGED <<live, control, host, startEpoch, target>>

AfterTeardown(c) ==
    CASE Kind(c) = "reconnect" -> "done"
      [] Kind(c) \in {"restart", "recover"} -> "ready"
      [] OTHER -> "unbind"

(* Without an instance only disableRuntime restores the SMS mode.          *)
Find(c) ==
    /\ At(c, "find")
    /\ target' = [target EXCEPT ![c] = slot.instance]
    /\ Goto(c, IF slot.instance # None THEN "stop"
               ELSE IF Kind(c) \in {"disable", "restart"} THEN "restoreSMS"
               ELSE AfterTeardown(c))
    /\ UNCHANGED <<store, control, host, startEpoch, invalidated>>

(* Mutant: the instance is dropped from the store but never stopped.       *)
StopMutant(c) ==
    /\ At(c, "stop")
    /\ Goto(c, "delete")
    /\ UNCHANGED <<store, control, host, local>>

Stop(c) ==
    /\ At(c, "stop")
    /\ live' = live \ {target[c]}
    /\ slot' = Observed(slot, target[c])
    /\ Goto(c, "delete")
    /\ UNCHANGED <<control, host, local>>

Delete(c) ==
    /\ At(c, "delete")
    /\ slot' = WithoutInstance(slot, target[c])
    /\ Goto(c, "restoreSMS")
    /\ UNCHANGED <<live, control, host, local>>

(* Mutant: a teardown leaves the SMS mode to whoever comes next.           *)
RestoreSMSMutant(c) ==
    /\ At(c, "restoreSMS")
    /\ Goto(c, AfterTeardown(c))
    /\ UNCHANGED <<store, control, host, local>>

RestoreSMS(c) ==
    /\ At(c, "restoreSMS")
    /\ smsMode' = "native"
    /\ Goto(c, AfterTeardown(c))
    /\ UNCHANGED <<store, control, switching, busyGens, local>>

-----------------------------------------------------------------------------
(* The start sequence, enableWhenReady and enableRuntime.                  *)

WaitReady(c) ==
    /\ At(c, "ready")
    /\ pc' \in {[pc EXCEPT ![c] = l] : l \in {"gate", "unbind"}}
    /\ UNCHANGED <<store, control, host, local>>

BlockedBySwitch(c) == switching /\ Kind(c) # "switchEnd"

Gate(c) ==
    /\ At(c, "gate")
    /\ Goto(c, IF BlockedBySwitch(c) THEN "unbind" ELSE "begin")
    /\ UNCHANGED <<store, control, host, local>>

BeginStart(c) ==
    /\ At(c, "begin")
    /\ IF slot.instance # None \/ slot.starting
       THEN Goto(c, "unbind") /\ UNCHANGED <<slot, startEpoch, invalidated>>
       ELSE /\ slot' = [slot EXCEPT !.starting = TRUE, !.failed = FALSE]
            /\ startEpoch' = [startEpoch EXCEPT ![c] = slot.epoch]
            /\ invalidated' = invalidated \ {c}
            /\ Goto(c, "prepare")
    /\ UNCHANGED <<live, control, host, target>>

PrepareStart(c) ==
    /\ At(c, "prepare")
    /\ \/ Goto(c, "fail") /\ UNCHANGED slot
       \/ Goto(c, "check") /\ slot' = WithStartupState(slot)
    /\ UNCHANGED <<live, control, host, local>>

ShouldRun(c) == c \notin cancelled /\ slot.epoch = startEpoch[c]

(* runtimehost.Start: asks ShouldRun once, runs BeforeStart, which probes  *)
(* the proxy and records a startup state, and establishes the tunnel.  A   *)
(* cancelled context makes it fail sooner or later, if it is not too late. *)
Check(c) ==
    /\ At(c, "check")
    /\ Goto(c, IF ShouldRun(c) THEN "before" ELSE "error")
    /\ UNCHANGED <<store, control, host, local>>

BeforeStart(c) ==
    /\ At(c, "before")
    /\ slot' = WithStartupState(slot)
    /\ pc' \in {[pc EXCEPT ![c] = l] : l \in {"tunnel", "error"}}
    /\ UNCHANGED <<live, control, host, local>>

Tunnel(c) ==
    /\ At(c, "tunnel")
    /\ \/ Goto(c, "error") /\ UNCHANGED live
       \/ Goto(c, "observe") /\ live' = live \cup {c}
    /\ UNCHANGED <<slot, control, host, local>>

AddObserver(c) ==
    /\ At(c, "observe")
    /\ slot' = Observed(slot, c)
    /\ Goto(c, "claim")
    /\ UNCHANGED <<live, control, host, local>>

ClaimStarted(c) ==
    /\ At(c, "claim")
    /\ IF Claimable(slot, startEpoch[c])
       THEN slot' = Claimed(slot, c) /\ Goto(c, "clearStarted")
       ELSE Goto(c, "stopStale") /\ UNCHANGED slot
    /\ UNCHANGED <<live, control, host, local>>

MarkRuntimeStarted(c) ==
    /\ At(c, "mark")
    /\ smsMode' = "vowifi"
    /\ Goto(c, "unbind")
    /\ UNCHANGED <<store, control, switching, busyGens, local>>

StopStale(c) ==
    /\ At(c, "stopStale")
    /\ live' = live \ {c}
    /\ slot' = Observed(slot, c)
    /\ Goto(c, "clearStale")
    /\ UNCHANGED <<control, host, local>>

(* ClearStartupStateAndBroadcast, after a claim and after a stale stop.    *)
ClearStartup(c) ==
    /\ pc[c] \in {"clearStarted", "clearStale"}
    /\ slot' = ClearedStartupState(slot)
    /\ Goto(c, IF At(c, "clearStarted") THEN "mark" ELSE "unbind")
    /\ UNCHANGED <<live, control, host, local>>

(* HandleStartupError: an APDU channel that was busy is retried with the   *)
(* same generation, and the startup state is cleared.                      *)
HandleStartupError(c) ==
    /\ At(c, "error")
    /\ busyGens' \in {busyGens, busyGens \cup {cmdGen[c]}}
    /\ slot' = ClearedStartupState(slot)
    /\ Goto(c, "fail")
    /\ UNCHANGED <<live, control, smsMode, switching, local>>

(* Mutant: a failed start leaves its mark on the slot.                     *)
FailStartMutant(c) ==
    /\ At(c, "fail")
    /\ Goto(c, "unbind")
    /\ UNCHANGED <<store, control, host, local>>

FailStart(c) ==
    /\ At(c, "fail")
    /\ slot' = Failed(slot, startEpoch[c])
    /\ Goto(c, "unbind")
    /\ UNCHANGED <<live, control, host, local>>

-----------------------------------------------------------------------------
Submit(c) ==
    \/ SubmitEnable(c) \/ SubmitInvalidating(c) \/ SubmitRecover(c)
    \/ SubmitSwitchBegin(c) \/ SubmitSwitchEnd(c) \/ SubmitReconnect(c)

Step(c) ==
    \/ Admit(c) \/ Number(c) \/ Preempt(c) \/ Bind(c) \/ Run(c) \/ Unbind(c) \/ Unlock(c)
    \/ Invalidate(c) \/ Find(c) \/ Stop(c) \/ Delete(c) \/ RestoreSMS(c)
    \/ WaitReady(c) \/ Gate(c) \/ BeginStart(c) \/ PrepareStart(c) \/ Check(c)
    \/ BeforeStart(c) \/ Tunnel(c) \/ AddObserver(c) \/ ClaimStarted(c)
    \/ MarkRuntimeStarted(c) \/ StopStale(c) \/ ClearStartup(c)
    \/ HandleStartupError(c) \/ FailStart(c)

Next == ClearSwitching \/ \E c \in Commands : Submit(c) \/ Step(c)

Spec == Init /\ [][Next]_vars

(* Every command goroutine runs on: the waits, the tunnel and the stop of  *)
(* an instance have timeouts.  runMu is handed over in arrival order when  *)
(* contended (sync.Mutex starvation mode), hence strong fairness of Admit. *)
Fairness == \A c \in Commands : WF_vars(Step(c)) /\ SF_vars(Admit(c))

FairSpec == Spec /\ Fairness
-----------------------------------------------------------------------------
Labels == {"new", "queue", "number", "preempt", "bind", "run", "unbind", "unlock", "done",
           "invalidate", "find", "stop", "delete", "restoreSMS",
           "ready", "gate", "begin", "prepare", "check", "before", "tunnel", "observe",
           "claim", "clearStarted", "mark", "stopStale", "clearStale", "error", "fail"}

(* Types of the slot, of the lifecycle and of the commands' local state.   *)
TypeOK ==
    /\ slot \in [epoch : Nat, instance : Commands \cup {None}, starting : BOOLEAN,
                 hasState : BOOLEAN, failed : BOOLEAN]
    /\ generation \in Nat /\ busyGens \subseteq 0..generation
    /\ runMu \in Commands \cup {None} /\ runCancel \in Commands \cup {None}
    /\ cancelled \subseteq Commands /\ live \subseteq Commands /\ invalidated \subseteq Commands
    /\ pc \in [Commands -> Labels]
    /\ cmdGen \in [Commands -> 0..generation] /\ startEpoch \in [Commands -> Nat]
    /\ target \in [Commands -> Commands \cup {None}]
    /\ smsMode \in {"native", "vowifi"} /\ switching \in BOOLEAN

(* No instance is lost: one that runs is the registered one, or the start  *)
(* that made it has yet to register or to stop it.                         *)
LiveIsOwned ==
    \A i \in live : slot.instance = i \/ pc[i] \in {"observe", "claim", "stopStale"}

(* The registered instance runs, unless a teardown that has stopped it is  *)
(* about to remove it.                                                     *)
SlotIsLive ==
    slot.instance \in live \cup {None}
      \/ \E c \in Commands : At(c, "delete") /\ target[c] = slot.instance

(* The starting mark belongs to a start that is still running under the    *)
(* slot's epoch.  A mark left behind would refuse every later start, and   *)
(* the desired-state reconciler would skip the device for good.            *)
StartingNotStuck ==
    slot.starting =>
      \E c \in Commands :
        /\ pc[c] \in {"prepare", "check", "before", "tunnel", "observe", "claim", "error", "fail"}
        /\ startEpoch[c] = slot.epoch

ClaimsAreFresh ==
    \A c \in Commands : At(c, "claim") /\ pc'[c] = "clearStarted" => c \notin invalidated

(* No start becomes the runtime after the runtime was invalidated under it *)
(* (by a disable, a restart, a switch, a recover or a reconnect).          *)
ClaimIsFresh == [][ClaimsAreFresh]_vars

(* The conditions under which more is promised: which commands have been   *)
(* submitted so far.                                                       *)
Submitted == {c \in Commands : ~ At(c, "new")}
NoRestart == \A c \in Submitted : Kind(c) # "restart"
OneSwitch == \A a, b \in Submitted : Kind(a) = "switchBegin" /\ Kind(b) = "switchBegin" => a = b
Serial == \A c \in Submitted : Kind(c) \in {"enable", "disable", "recover"}

(* Until something restarts the runtime, no start becomes the runtime after*)
(* a disable, a switch, a recover or a reconnect has invalidated it.       *)
ClaimIsFreshNoRestart == [][NoRestart => ClaimsAreFresh]_vars

(* From the teardown before an eSIM switch to the switch's end no instance *)
(* comes up, although enables and recovers may be on their way.            *)
SwitchKeepsDown ==
    (/\ switching
     /\ \E b \in Commands : Kind(b) = "switchBegin" /\ At(b, "done")
     /\ \A e \in Commands : Kind(e) = "switchEnd" => At(e, "new"))
      => slot.instance = None

(* Without switches, restarts and reconnects SMS go over VoWiFi exactly    *)
(* when an instance is registered to carry them, once no command is under  *)
(* way.                                                                    *)
SmsModeFollowsSerial ==
    Serial /\ (\A c \in Commands : pc[c] \in {"new", "done"})
      => (smsMode = "vowifi" <=> slot.instance # None)

(* Every submitted command returns: runMu is always handed on.             *)
CommandsReturn == \A c \in Commands : (~ At(c, "new")) ~> At(c, "done")
=============================================================================
