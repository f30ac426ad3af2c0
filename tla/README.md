# vohive: TLA+ specifications

vohive drives a rack of cellular modems (AT, QMI and MBIM), switches eSIM
profiles on them, brings up VoWiFi over ePDG tunnels, bridges circuit-switched
calls to SIP clients, relays SMS and publishes per-modem proxies; a Vue
application is its console. This directory holds specifications of the parts in
which several things go on at once: in the Go backend, goroutines that share the
SIM card, the VoWiFi runtime, the proxies, the eSIM switch and the scan for
operators; in the console, requests, streams, timers and polls that overlap while
the user goes on to something else. TLC checks them on small instances and TLAPS
proves the main invariants for every value of the constants.

- [Inventory](#inventory)
- [The modules](#the-modules)
- [The runs](#the-runs)
- [Fairness](#fairness)
- [What is proved](#what-is-proved)
- [Where code and description disagree](#where-code-and-description-disagree)
- [Known not to hold](#known-not-to-hold)
- [What is not modelled](#what-is-not-modelled)

To check: `tlc -config ApduArbiter_safety.cfg MCApduArbiter.tla` (each run's
module and configuration are in `PROJECT.json`), `tlapm ApduArbiter_proofs.tla`.

## Inventory

Backend paths are under `src/internal`, those of the console under `src/web/src`.

| Component | State | Operations | What is hard | Module |
|---|---|---|---|---|
| **APDU arbiter** `apduarbiter/arbiter.go` | FIFO of tickets, active one-shot, sessions, transports and barriers, notification channel, counters | `AcquireOneShot/Session/Transport`, `BeginBarrier`, `Touch`, `Release`, watchdog, `WaitIdle` | blocking with contexts, wake-ups by closing a channel, priorities that age, leases taken away | `ApduArbiter`, `LeaseLock` |
| **SIM authentication gate** `apduarbiter/simauth_ready.go` | generation, ready, the probe in progress | `WaitSIMAuthReady`, `InvalidateSIMAuthReady` | answers that an invalidation has overtaken, coalesced callers | `SIMAuthReady` |
| **VoWiFi host** `vowifihost/`, `device/vowifi_start_*.go` | per device: runtime slot, `runMu`, generation, running command; SMS mode | enable, disable, restart, recover, switch begin and end, teardown for a reconnect | preemption and cancellation of starts, teardowns between a start's steps | `VoWiFiHost` |
| **Desired-state recovery** `vowifihost/recover_state.go`, `reconcile.go`, `device/pool_vowifi_reconcile.go` | in-flight mark and delay per device | reconcile, begin, failed, clear; enable, disable, flight mode | recovers that race a policy change, a switch or each other | `DesiredRecover` |
| **eSIM switch** `esim/manager.go`, `device/pool_esim_switch.go`, `post_switch_convergence.go` | mark, token, snapshot, `opMu` | before, after, failed, two-minute clean-up | a finalisation that outlives its mark, checks that are stale when acted upon | `ESIMSwitch` |
| **Device pool, worker recovery** `device/pool.go`, `pool_bootstrap.go`, `pool_reboot_recovery.go`, `transport_recovery_controller.go` | per device: worker, `rebuilding`, number of the latest start, two recovery marks | start, remove, rebuild, scan, health check, recover | starts that hang and are overtaken, one mark held by turns by starts, removals and rebuilds | `WorkerPool` |
| **Operator selection** `device/operator_selection.go`, its API and dialog | scan and its id, goroutines that run one, stream, mode in modem and configuration | start or join, stream, conclude, lock, unlock | late results, streams that break, two writers of two places | `OperatorScan`, `OperatorMode` |
| **Proxy instances** `proxy/server/`, `api/proxy.go` | configurations, instances, servers with their goroutines | start, stop, restart, sync, shutdown | stop returns before the server has gone; time-outs while a server comes up | `ProxyManager` |
| **E911 websheets** `websheet/`, `components/CarrierWebsheetDialog.vue` | sessions, callbacks, the dialog | open, callback, complete, close | one event over three channels, late and in copies | `Websheet` |
| **Streams and polls** `composables/` | connection, timer, pause; timer, running task, interval | connect, disconnect, lose, retry; tick, end, enable | aborted connections that notice late, timers beside them | `EventStream`, `PollScheduler` |
| **Message centre** `views/Sms.vue`, `stores/sms.ts` | threads, selection, messages shown, sequence numbers | poll, select, history, send, delete | replies that a newer request has overtaken | `SmsView` |
| **Devices page** `views/Devices.vue` | list, selection, details, editor, live readings, analysis | select, refresh, edit, add | the selection changes while requests for the last one are out | `DevicesView`, `DeviceLive`, `AddDevice` |
| **eSIM tab, card policy** | overview, profiles, notifications; three switches with rules | load, switch, delete, download; toggle | operations that outlive the tab or the device | `EsimTab`, `CardPolicy` |
| **Proxy, upstream, settings pages** | lists, drawers, forms | load, edit, save, act | a reply that lands on a drawer or a form opened since | `ProxyView`, `UpstreamView`, `SettingsView` |
| **USSD, logs, dashboard, session** | session id and rounds; entries and stream; analysis and chart; token, route, redirect | send, cancel; pause, clear; choose a span; log in, 401 | one flag for several requests, several callers of one import, several 401s | `UssdTab`, `LogsView`, `DashboardView`, `Session` |
| Calls, SMS delivery and codec, drivers, database, notifications, the rest | see [What is not modelled](#what-is-not-modelled) | | | |

How they interact. Everything that talks to the card takes a lease from the
arbiter; a switch of a profile holds its barrier and runs the card's commands
under it (`InnerCalls` of `ApduArbiter`). A switch marks the device, takes VoWiFi
down with a preempting command of the VoWiFi host, and brings it back by way of
the policy (`DesiredRecover`), whose recovers are commands of the host. A VoWiFi
start waits at the authentication gate. The scan for operators is one protocol
from the worker's goroutine over a server-sent stream to the page. The pages
meet the backend through requests whose replies come in any order.

The hazards, one per line of code where something can go wrong that a test would
hardly reach, are in `PROJECT.json` with the properties that cover them.

## The modules

| Module | Models | Instances for TLC | Proofs |
|---|---|---|---|
| `ApduArbiter` | `apduarbiter/arbiter.go`, the barrier of `esim/manager.go` | `MCApduArbiter` | `ApduArbiter_proofs` |
| `LeaseLock` | abstract: what the arbiter promises | as a property of `ApduArbiter` | `ApduArbiter_proofs` |
| `SIMAuthReady` | `apduarbiter/simauth_ready.go` | itself | `SIMAuthReady_proofs` |
| `VoWiFiHost` | `vowifihost/`, `device/vowifi_start_*.go` | `MCVoWiFiHost` | `VoWiFiHost_proofs` |
| `ProxyManager` | `proxy/server/`, `api/proxy.go` | `MCProxyManager` | `ProxyManager_proofs` |
| `DesiredRecover` | recovery of VoWiFi, policy changes | `MCDevice` | with `ESIMSwitch_proofs`, `Device_proofs` |
| `ESIMSwitch` | the eSIM switch, over `DesiredRecover` | `MCDevice`, itself | `ESIMSwitch_proofs`, `Device_proofs` |
| `OperatorScan` | the scan, over `EventStream` | `MCDevice` | `Device_proofs` |
| `WorkerPool` | the worker of a device, its starts and recoveries | `MCDevice` | `WorkerPool_proofs`, `Device_proofs` |
| `EventStream` | `useEventStream.ts` | in `LogsView`, `OperatorScan` | `WebConsole_proofs`, `Device_proofs` |
| `Session` | login, guard, 401, disclaimer | `MCWebConsole` | `WebConsole_proofs` |
| `PollScheduler`, `SmsView`, `DevicesView`, `DeviceLive`, `AddDevice`, `EsimTab`, `CardPolicy`, `ProxyView`, `UpstreamView`, `SettingsView`, `UssdTab`, `LogsView`, `DashboardView`, `OperatorMode`, `Websheet` | one page or composable each | `MCWebConsole` | `WebConsole_proofs` |

`PROJECT.json` maps each definition to the lines it stands for.

### ApduArbiter and LeaseLock

A *call* is one use of the arbiter: it makes a request, waits in `acquire` or
gets its lease at once, may touch it, and releases it. `pc` says where the call
is; `ticket` is its normalised request (`Normalize` is `normalizeRequest` and
`normalizeTransportScope`: class, scope and channel after defaults and after
`qmi_channel` has been dropped where it does not apply). `queue` is `a.queue`,
the `active` variables are the maps and fields of the same names. A call sleeps
with `pc` at "wait" and is "woken" once `signalLocked` (`Signal`) has closed the
notification channel it sleeps on. `BuildTicket` is what `acquire` and
`BeginBarrier` do before they take the lock, the ticket with its number and its
time; `Enqueue` is the first round of the loop, with the lock, `Retry` each later
one, `Leave` the branch of the ended context. Since anybody may come in between,
the order of the queue need not be the order of the tickets' times, which the
history variable `older` keeps.

The clock is two sets. `due` holds the leases whose deadline has passed since
their last touch; `aged` the tickets that are `transportPriorityAging` old, which
they may be before they are queued. Both change whenever time likes, but tickets
age in the order of their times. A timer that has gone off is counted in
`firing` until `releaseExpired` gets the lock: by then the lease may have been
touched, in which case the timer is armed again (`armed`), or released.

`InnerCalls` and `MayRunUnder` give the nested calls of
`SwitchProfileWithResult`: while it holds the barrier (`outer`), the program makes
the transport requests its comment allows, and the barrier ends after they have.

`LeaseLock` is the promise without queue, priorities, timers and wake-ups: a
lease is granted to a call that does not believe to hold one, and only where the
leases in use and the barriers allow it; it is given back once; it is taken away
only from a call that has held it for too long, and that call goes on believing
to hold it. Under the refinement mapping (`Lock`) `holds` is the calls at "held",
`granted` what the arbiter has recorded as active, `late` is `due`. Every step
of the arbiter is a step of `LeaseLock` or leaves its variables alone.

### SIMAuthReady

A call of `WaitSIMAuthReady` looks at the state under the lock, and then returns,
sleeps on the channel of the probe in progress, or becomes the prober itself.
The probe runs without the lock: an invalidation in between raises `generation`
and closes the channel, and the answer is thrown away by its prober, who looks
again. `answeredIn`, the generation of the probe that opened the gate, is a
history variable.

### VoWiFiHost

One device, since the controller keeps its state per device. Each command goes
through the manager once: submit, wait for `runMu` (or, for a restart and a
switch begin, cancel the running command and go ahead), run the steps of
`runLifecycleCommand`, unlock. The steps are those between which the code gives
the lock of the store away: `BeginStart`, preparing, the check before and after
the tunnel, the tunnel, adding the observer, `ClaimStarted`,
`MarkRuntimeStarted`, and for a teardown invalidate, find, stop, delete, restore
SMS.

`slot` is `runtimeSlot` (`FreshSlot` is a deleted or absent one; the epoch is a
field of the slot and goes with it), `generation` the counter that makes
waiting commands stale, `runCancel` the command whose context would be
cancelled, `busyGens` the generations a recover may carry because a start that
found the card busy has scheduled it. An instance is named after the command
that started it; `live` holds the tunnels that run. `invalidated` holds the
starts under which the runtime was invalidated, a history variable. Failures are
choices: preparation, the tunnel or the registration may fail, the context may
have been cancelled. The retries and waits inside a start are one step, and the
restore of the data plane after a disable is left out.

### ProxyManager

A *call* is a request to the manager: start, stop, restart, a configuration
sync or the final shutdown. Each works off four lists: instances to stop,
runtimes to forget, instances to restart, instances to start; the single
requests are lists of one. A server is named after the call that made it and its
instance; `phase` is what its goroutine does (about to listen, listening,
closing, exited). `instances[id]` is `rt.srv`; `closing` the servers whose
`Shutdown` is about to run. A `Start` sees its server running (`SeesRunning`, no
lock held) and registers it (`Register`, whatever has happened since), sees it
fail, or gives up (`StartTimesOut`: three seconds or the context). `displaced`, a
history variable, holds the servers whose entry a server has taken that had died
between the two.
`watchServerExit` is a step of its own, at any time after the exit. The
parameters of a configuration are a `Setting`: the port decides whether two
servers get in each other's way (`PortInUse`), the rest only whether a sync sees
a change.

### DesiredRecover and ESIMSwitch

`DesiredRecover` is the device: what the policy of its card wants (`desired`,
`airplane`), whether VoWiFi is up, the radio's mode, and the store that keeps one
recover in flight. The reconciler looks and schedules in two steps, because the
code collects devices first; a recover is submitted, run and reported in three,
because its result is taken back after the command has returned. A start is one
step here; its insides are those of `VoWiFiHost`.

`ESIMSwitch` is made over it: `device == INSTANCE DesiredRecover`, and the mark
that `DesiredRecover` only reads is set and cleared here. A switch goes from its
snapshot (`Capture`) over the mark (`Begin`), the teardown and the command to a
failure or to the hook that finalises it *after the manager is free again*, so
that a second request may begin at any point of the first one's finalisation.
Each wait of the finalisation has a look at the token on both sides; what happens
after the last look happens whatever the token is by then (`Converge`,
`Restore`, `Undo`). `Timeout` is the two-minute clean-up.

### WorkerPool

One device of the pool. `worker` is its entry in `Pool.workers`, by number;
`running` are the workers whose QMI core is open, `retrying` those whose core a
goroutine tries again to open, and `early`, a history variable, those that were
stopped while their core was starting; `rebuilding`, `recovering` and
`active` are the three marks of a device. `calls` are the goroutines at work: the
health check, a scan (udev, the interface), a user who rebuilds or deletes the
device, and recoveries. `RescanAndReconnect`, `RebuildWorker` and
`runModemRebootRecovery` are sequences of the same few operations, so a call has
a `plan` (`add`, `remove`, `round`, `refresh`, …) that it works through; `add` is
`AddWorkerFromConfig` (`BeginRebuildAttempt` to `EndRebuildAttempt`), `remove` is
`RemoveWorker`. A start carries whether it is still the latest (`current`: what
comparing its number with `rebuildAttempt` tells) and whether its watchdog is
still to fire (`watched`). What a modem answers, whether a worker is well and
whether hardware is found are choices. QMI devices register first, and only if
nobody is there, and open their core then (`CoreStarts`), so that a removal may
come in between; MBIM and AT devices open their ports while they are built and
register in any case. Their ports are not followed.

### OperatorScan, OperatorMode and EventStream

`EventStream` is `useEventStream`: a connection, the aborted ones that have not
noticed yet (`dying`), and the timer that connects again. `OperatorScan` and
`LogsView` use it by INSTANCE, over their own variables. In `OperatorScan` the
worker's scan, the goroutines still out (`runners`), the stream's
server side, what is on the wire and what the page shows are apart; scans have
ids, and a late goroutine must find that its id is no longer the scan's.
`OperatorMode` has the mode three times: in the modem, in the configuration and
in the dialog.

### The pages

A module per page. Its variables are the refs and store fields that decide what
is shown, and the requests in flight as suspended calls: a call remembers what
the code remembers across its `await` (the thread, the device, the sequence
number) and nothing else. Its actions are what the browser runs without giving
control back: a click or a route change up to the first `await`, and from a
reply to the next. Replies come in any order and may fail. A message, a list, a
profile is the thread, device or card it belongs to, since what can go wrong is
that it is shown for another. Where a sequence number or an `AbortController`
decides, the call carries whether it is still the current one.

`MCWebConsole` instantiates all of them in one specification: `part` says which
page a behaviour shows, the slots `s1` to `s13` are its variables. They share no
state of their own, so nothing is lost by not interleaving them, and one run
checks all. `MCDevice` does the same for the switch, the recovers, the
scan and the worker. All their sets and bounds are constants, given in
`WebConsole.cfg` and `Device.cfg`, so that what is proved about these two modules
is proved of pages and devices of any size.

## The runs

| Run | Instance | Checks |
|---|---|---|
| `arbiter_safety` | three calls, every kind of request, two sessions, a window of two with three channels, one touch | types, `Exclusion`, `BarrierExcludes`, `QueueHoldsWaiters`, `WatchdogAlive`, `OverlapOnlyAfterTimeout`, `ImplementsLock`, `BarrierNotOvertaken`, `ExclusiveNotOvertaken` |
| `arbiter_live` | three calls, one `WaitIdle`: transports for authentication and for the eUICC, the switch barrier and what it nests | `NoMissedWakeup`, `QueueDrains` |
| `arbiter_aging` | three calls, eUICC and authentication | `AgingPreventsStarvation`: **violated** |
| `simauth` | four calls, two invalidations | `ReadyIsFresh`, `SleeperHasProbe`, `OkMeansReady`, `CallsReturn` |
| `vowifi` | two enables, disable, recover; or enable, recover, switch begin and end, reconnect | `StartingNotStuck`, `SwitchKeepsDown`, `SmsModeFollowsSerial`, `ClaimIsFreshNoRestart` |
| `vowifi_restart` | enable, disable, restart | types, `LiveIsOwned`, `CommandsReturn` |
| `vowifi_epoch` | enable, restart, switch begin | `ClaimIsFresh`: **violated** |
| `proxy` | a start, a stop and a restart of one instance; or two syncs and a shutdown over two instances, with plans that swap ports, delete, disable | `NoOrphan`, `DisabledIsDown`, `ExitIsWatched`, `RunningStaysListed` |
| `proxy_restart` | a start, a restart | `RestartRunsAgain`: **violated** |
| `device` | two switches with a recover; two recovers; three scans with two faults; a worker under two of the health check, a scan, a user, two recoveries | `MarksAreOwned`, `RunningIsFollowed`, `ResultIsOwn`, `WorkersAreOwned`, `VoWiFiReturns`, `ScanIsConcluded`, `WorkerComesBack` |
| `esim_policy` | one switch, the default configuration | `PolicyFollowed`: **violated** |
| `web` | each page, two devices, threads, cards, … and two or three requests in flight | `SpinnersEnd`, `ShownIsSelected`, `RepliesLand`, `SelectionKept`, `StreamsLive`, `SessionHolds`, `FinishedOnce` |

Why the bounds are enough. Three calls are a holder, a waiter and one that comes
later, the smallest number at which somebody can be overtaken or woken in vain:
three channels against a window of two; a channel in use, an exclusive transport
or a barrier that waits for it, and a later channel that must not pass. One touch
is enough for a timer to go off before it and run after it. `arbiter_live` asks
for what production code asks for; with the legacy sessions and one-shots
beside a barrier waiters may starve. Of its calls two may be rivals, by their kind
or because they were queued in the other order than their tickets were built, and
the third is the holder they wait for. The gate's four callers are a
prober whose answer is stale, the one who takes over and one sleeper of each; two
invalidations hit both. In `VoWiFiHost` a race has a start and the command that
overtakes it, and a third that finds what they left. Two proxy instances are what
a swap of ports needs. Two switches are one that is finalised and one that
begins meanwhile; three scans one that runs and two whose goroutines are late. The
worker has the pairs of callers that meet (`Groups`): a user or a scan beside the
health check, a recovery beside the health check, beside a user and beside
another recovery, of two rounds each; all three ways a device is driven, for any
of its calls may be repeated without end. Two numbers for workers are one for each
of the two calls at a time; a start waits for one while both are taken, the other
by the goroutine that still tries to open the core of a removed worker. On
a page, the reply that is late belongs to one thing, the user looks at another,
and a third request is the poll between them.

Two runs hold two workloads each, as an `ACTION_CONSTRAINT` (`OneWorkload`): a
behaviour draws its commands from one of two sets, because all of them together
are too many. What the constraint leaves out is named below where it matters: a
start by hand beside a configuration sync. `SmsModeFollowsSerial` is about the
first workload only, the commands that run one at a time; beside a switch it does
not hold. `ClaimIsFreshNoRestart` is about both: only a restart can delete the
slot under an old start. Symmetry is
used for calls that are alike in everything (`CallSymmetry`, `Applies`), in runs
without liveness.

Calls and commands are made at most once, so those systems stop when they are
done: the configurations set `CHECK_DEADLOCK FALSE`, and that nobody is
stuck is what `QueueDrains`, `CallsReturn`, `CommandsReturn` and
`NoMissedWakeup` say. So does `web`, where a page that was left is done. `device`
never stops and is checked for deadlock. The bounds on counters are named:
`MaxTouches`, `MaxInvalidations`, `MaxSwitches`, `MaxFaults`, `MaxDying`,
`MaxCalls`, `MaxReads`, `MaxQueries`, `MaxAnalyses`, `MaxRequests`, `MaxRounds`,
`MaxHandlers`, `MaxTokens`, `MaxLogs`, and for workers `Groups` and `Tokens`.

What some of the properties say. `BarrierNotOvertaken` and
`ExclusiveNotOvertaken` are about a step (nobody is granted past the one that
waits), the reason why liveness holds; `NoMissedWakeup` excepts a transport that
has aged beside a *rival* in the queue, of which there are two kinds (`Rivals`): one
is for authentication and the other ages, or both age and were queued in the other
order than their tickets were built. `QueueDrains` is about behaviours in which
the queue is, again and again, without rivals. `OverlapOnlyAfterTimeout` speaks of what
the callers believe, `Exclusion` of what the arbiter has recorded.
`SwitchKeepsDown` needs the cancellation of the running start, the context check
of `ShouldRun`, the switching gate and the epoch together; it holds without a
restart in play, which may have a second start in flight when it preempts, and
for one switch (see [Known not to hold](#known-not-to-hold)).
`MarksAreOwned` has two halves: the mark of the latest switch is cleared by
nothing of an older one, and the in-flight mark of the store always has a recover
out that takes it back. `VoWiFiReturns` says that neither a switch that hangs at
any point nor a failed recover keeps VoWiFi down for good. `WorkersAreOwned`
says that no QMI worker is left with an open core and nobody who knows it, unless
it was stopped while that core was starting, that
`rebuilding` is held by somebody who will release it, and that the two recovery
marks are those of recoveries that are out. `WorkerComesBack` says that a device
left alone has a worker again, although a start may hang for ever. `SpinnersEnd` is about
marks whose reply may be thrown away as stale, and names them: whoever supersedes a
request must take over its mark. `RepliesLand` is about the latest messages of a
thread, the details of a device and the entries of the log stream. `NoOrphan` and
`FinishedOnce` make exceptions, which are listed under
[Known not to hold](#known-not-to-hold), for what the code does lose, so that they
say something about everything else.

## Fairness

- `ApduArbiter`: weak fairness of queueing, of each waiter's next round, of the branch of an
  ended context, of nested releases and the end of a barrier, of time (`Age`,
  `Expire`), of timers and of `WaitIdle`'s look. A woken goroutine is scheduled,
  a timer goes off, and the code under the barrier is bounded by contexts. None
  for an ordinary `Release`: a holder may hang, and the watchdog is what
  `QueueDrains` rests on. None for contexts or new calls.
- `SIMAuthReady`: weak fairness of looking and of the probe's return; the probe
  has a context with a deadline.
- `VoWiFiHost`: weak fairness of the running command's steps (each external call
  has a deadline) and strong fairness of taking `runMu`, which `sync.Mutex`
  gives by its starvation mode.
- `MCDevice`, switch: weak fairness of the reconciler's ticker, of a recover's
  end and result, of the delay after a failure and of the two-minute timer;
  strong fairness of `RecoverSucceeds`, which is what "returns" must assume: a
  start tried again and again succeeds in the end. **None for the switch itself**:
  it may hang at any of its steps, and `VoWiFiReturns` must hold by the clean-up.
- `MCDevice`, scan: weak fairness of time, of the server's stream, of the
  reconnection timer and of delivery; faults are bounded, so that a stream that
  breaks for ever is not what is asked about.

- `MCDevice`, worker: weak fairness of each call's next step, of the watchdog
  (a timer), of the health check (a ticker) and of the goroutine that tries again
  to open a core (it succeeds, or sees that its worker was stopped); strong
  fairness of a start that
  succeeds. None for requests of users, scans and the beginning of recoveries,
  and **none for a start that hangs** once its watchdog has fired. Those of the
  health check and of recoveries do end at last: for the check another tick would
  make another start, and a recovery whose start hangs keeps the device, as said
  under [Known not to hold](#known-not-to-hold).

## What is proved

For any set of calls, commands, switches, workers, devices or requests, any
options and any value of the bounds. Every property that a run checks, liveness
and refuted ones aside, is stated by a theorem: for all reachable states, or, where
it holds of some commands only, under a condition that the theorem names.

The assumptions on constants are named in the modules, and TLC evaluates them in
each run. The value for "nobody" is none of those it stands beside (calls,
commands, tokens, devices); the arbiter's requests are among `RawRequests`, its
two limits are positive; `MaxTouches`, `MaxInvalidations`, `MaxSwitches` and
`MaxRounds` are natural numbers; each command of the host and each call of the
proxies has a kind, each plan is a table of configurations, a setting is SOCKS or
HTTP; a recovery is a goroutine of its own (`WorkerAssumption`); the dashboard's
list of devices is not one of its spans (`RangesAssumption`).

**Arbiter** (`TypeCorrect`, `MutualExclusion`, `BarriersExclude`,
`WatchdogNeverLost`, `NoEarlyForcedRelease`, `OverlapNeedsTimeout`,
`KeepsPromise`, `TicketsAreWaiters`). The inductive invariant is `SafeInv`:
`TypeOK`, `LeaseInv` and `WatchInv`. `LeaseInv` is what the grant conditions
preserve: each recorded lease is of the right kind (`ActiveTyped`), `Exclusion`,
`BarrierExcludes`. `WatchInv` is `WatchdogAlive` (a recorded lease has a timer
that is armed or about to run, so that a touch between the two does not lose it)
and `HeldUnlessDue` (who believes to hold a lease that is not overdue is
recorded). `OverlapOnlyAfterTimeout`, exclusion as the callers see it, follows
from `Exclusion` and `HeldUnlessDue` and not from the grants alone, since a lease
may have been taken away. `KeepsPromise` is the refinement: initial states map
to initial states of `LeaseLock`, and with `SafeInv` each action maps to one of
its actions or to a stutter. `TicketsAreWaiters` (the queue is exactly the calls
that wait, each once) goes by itself: leaving takes one position out of a
sequence without duplicates, wherever aging or the bypass has picked it.

**Arbiter, order and wake-ups** (`NobodyPassesBarrier`,
`QMIDoesNotPassExclusive`, `WokenUnlessRivals`, `OnlyTheAgedOversleep`). The first
two are about a step that grants, from `SafeInv` and `QueueInv`. A missed wake-up
is a waiter asleep although it would be granted if it looked. That no action leaves
one is proved action by action: an action that could make a grant possible closes
the notification channel, and any other leaves every sleeper's answer as it was.
Time is the exception: `Age` wakes nobody. `AgedInv` says that tickets age in the
order of their times, and from it follows that aging moves the turn only to the
ticket that has aged, and only from a rival of it (`AgeMovesTurn`). So
`WokenUnlessRivals` has `NoMissedWakeup` whatever is asked for, and
`OnlyTheAgedOversleep` says of all the others (sessions, one-shots, barriers,
transports for authentication) that they never sleep through their turn.

**Gate** (`GateTyped`, `OpenGateIsFresh`, `ProbesCoalesce`, `OkIsNeverStale`).
`TypeOK`, `ReadyIsFresh`, `OneProbe` and `SleeperHasProbe` are inductive together:
the prober of the current generation is the one that the record names, which is
what makes a stale answer recognisable. `OkMeansReady` is a property of each step
from a state where they hold.

**VoWiFi host** (`HostTyped`, `NoInstanceLost`, `RegisteredRuns`,
`MarkHasStart`, together as `Invariant`). `OwnInv` is `LiveIsOwned` and
`SlotIsLive` with: an instance is made by its start alone and is registered only
once that start has passed its claim; what a teardown is about to stop or delete
has passed its claim too, and what it is about to delete has been stopped. This
last fact is why the delete of one teardown cannot drop an instance that runs.
`StartInv` is `StartingNotStuck` with: a slot that is starting has no instance.

**VoWiFi host, overtaken starts** (`NoStaleClaim`, `SmsFollowsRuntime`,
`SwitchIsDown`). `RunInv` adds to the types where a command of each kind can be,
and, until something restarts, that the queued commands run one at a time
(`OneRuns`) and that the epoch held by a start that was invalidated is older than
the slot's (`FreshInv`). `NoStaleClaim` is a property of the claim from
there. `SmsInv` is where the mode may lag behind the store: only while a command
is at one of three steps (`Unsettled`). `SwitchInv` says that until the
switch's command runs, the one its preemption would cancel is the one that runs
(`BoundInv`), that a switch under way is marked (`MarkInv`), and that once its
teardown is past the invalidation every start that got in before is cancelled or
holds an old epoch (`DownInv`). `SwitchIsDown` is for one switch and no restart.

**Proxies** (`ManagerTyped`, `GoneServersAreNoticed`, `NoServerIsLost`,
`RunningServersStayListed`). Types
need that a call names its instance before it works on it (`Working`).
`ExitIsWatched` follows from `Entries`: a registered server has a watcher that
has not run, and is of its own instance. `NoServerIsLost` is `NoOrphan` under the
assumption `Handlers`, that no configuration is applied. Its invariant `KeptInv`
adds: a server that will listen is awaited by its call; servers run with the
settings of their instance; a port has one listener. The last two are why a late
`Register` of a server that listens displaces none that listens: two servers of
one instance cannot both. One that has died meanwhile may, and its victims are
`displaced`. An apply breaks both, which is what the assumption is for. Under it,
`RunningServersStayListed` goes through the steps that write an entry.

**Proxies, configurations** (`DisabledServersAreDown`, `SyncsLoseNoServer`,
`SyncsKeepRunningListed`). The other half, while only syncs and the final shutdown
have begun (`OnlySyncs`). `SyncInv`: one sync works at a time; its lists are what
its plan makes of the table it found (`Planned`); each server that listens is
registered or awaited (`Owned`); and what is registered is enabled or still on the
sync's lists (`Wanted`). `LifeInv` is the life of a server: what a number stands
for before it is born, while it is registered, and after. `DisabledIsDown` needs
that a list is worked off to its end even when a stop fails or a start times out.
`SyncsLoseNoServer` also says that among syncs nothing is displaced.

**eSIM switch** (`SwitchTyped`, `MarkStaysWithLatest`, `InFlightIsReleased`).
`GateHeld` is inductive with `TokensDiffer`: switches that are under way have
tokens, and no two the same. So whoever finds the mark to be its own and clears
it is the latest itself. `InFlightIsReleased` goes through every action of the
switch that schedules or clears a recover behind the store's back.

**Workers** (`NoWorkerIsLost`, `MarkIsReleased`, `OneRecoveryWorks`). The
inductive invariant `Owned` has three parts beside the types and `MarkIsOwned`.
`PlanInv`: what a call has left to do fits where it is. `RecInv`: the recovery
marks are those of the recoveries at work. `HandInv`: calls have numbers exactly
where they start or stop a worker (`Taken`), no two starts the same one
(`OwnNumbers`), and that of a start whose core is not up yet is neither open nor
tried again (`NotYetOpen`); a worker whose core is open, tried again or started is a
QMI device's and is registered, in the hand of who stops it, or was stopped early
(`Shown`). The theorem is about
the cores of QMI devices; what it excepts, and what is not so of the others, is
said below.

**Device** (`MarksStayOwned`, `LateResultsAreDropped`, `ShownScansAreFollowed`,
`WorkersStayOwned`). `Device_proofs` takes the results about the switch and the
workers over to the properties that the run `device` checks, by instantiating
their modules as `MCDevice` does, and proves the scan: `NoLateResult` and
`Followed`, a stream that is being fetched or read is wanted. `DeviceInv` is all of
them, each of its part.

**Pages** (`LoginIsKept`, `PagesKeepUp`, `WebsheetIsFinishedOnce`,
`OnlyTheSelectedIsShown`, `MarksAreTakenBack`, `LatestLandOnTheSelection`,
`SelectionStays`). One invariant per page, proved in its slots, and `ConsoleInv`,
all of them, each of its part. What they add to the properties:

- Messages (`SmsInv`): a call for messages that is still current is for the
  selected thread, or nothing is selected; and whoever supersedes a request for
  the list leaves one that takes the mark back (`MessagesOnward`, `Onward`), a poll
  being silent only while nothing is marked.
- Devices (`DevsInv`): details that may still come are of the selected device, or
  none is selected (`DetailsOwn`); at most one list may still come, and if it was
  asked for under another selection, the user has chosen since (`ListOwn`).
- Live readings (`LiveInv`): the readings fallen back to are of the device whose
  details are shown. eSIM tab (`EsimInv`): an overview that is still current is of
  the tab's own device.
- Websheets (`SheetInv`): what has been posted, or is on its way, was posted by the
  page of that sheet, or has no token and was posted by a flow that returned
  (`ToldByPage`); one sheet is completed at a time, and one that
  was completed is not shown again (`CompletingOne`).
- Streams (`StreamInv`): a stream is not wanted while it is paused, which is what
  makes it safe to drop a timer then. Session (`SesInv`): the page that a 401 is
  taken from is kept in two places that never disagree (`Remembered`).
- The other pages: what is marked, with the call that takes the mark back.

Only model-checked. Liveness under fairness (`QueueDrains`, `CallsReturn`,
`CommandsReturn`, `VoWiFiReturns`, `ScanIsConcluded`, `WorkerComesBack`) is out of
the prover's reach; the safety theorems above say why their premises last (nobody
sleeps through a turn, every mark has an owner). So are the types of `MCDevice`'s
and `MCWebConsole`'s parts where no invariant needs them, and all of the card
policy, of which nothing else is claimed.

## Where code and description disagree

1. `arbiter_aging` (`apduarbiter/arbiter.go:557`). Whose turn it is depends on
   the clock, but only changes of the arbiter wake a waiter. An eUICC waiter
   looks just before it has aged and an authentication waiter just after: each
   yields to the other and both sleep on a free transport. Two that age do the
   same when they were queued in the other order than their tickets were built,
   since `acquire` takes the time before the lock (line 421): the first in the queue
   yields to the one that has aged, which had yielded to it before.
2. `vowifi_epoch` (`vowifihost/store.go:165`). Clearing the startup state may
   delete the slot and its epoch. The next slot begins at epoch 0, and an old
   start that read 0 is taken for the current one.
3. `proxy_restart` (`proxy/server/manager.go:167`). `Restart` stops the server
   and starts it again, but the stopped one is still registered until its
   watcher has run, and `Start` returns success without starting anything.
4. `esim_policy` (`device/pool_esim_switch.go`). The policy of the card that was
   switched to brings the radio online; the snapshot of the card before, which
   kept it in flight mode, then puts it back.

## Known not to hold

Some modules state a property that one would expect and that TLC refutes in a
few steps; no document of the repository claims it, so no run is made of it, and
its comment says how it fails. In the backend:

- `ProxyManager.NoOrphan` with a start by hand beside a sync: the sync changes
  the port while the start waits, both servers listen, the later registration
  displaces the first. A server shut down before it has a listener
  (`proxy/server/server.go:197`) clears the flag when it starts and listens
  unregistered. And a start looks whether its server runs without the lock under
  which it registers it (`proxy/server/manager.go:204`): a server that dies in
  between is registered over one that a second start has brought up and registered
  on the same port, and that one listens unknown. `NoOrphan` makes an exception
  for both (`asked`, `displaced`) and `DisabledIsDown` for the former, so that they
  still say something about all the others.
- `VoWiFiHost.SwitchKeepsDown` with two switches: a switch's own command takes
  `runCancel` over and clears it when it is done, so that a recover that has been
  running since before is out of reach of the next switch's preemption.
- `VoWiFiHost.SmsModeFollowsSerial` without its condition, beside a switch: the SMS
  mode is set after the claim without looking whether the instance is still there
  (`device/vowifi_start_orchestrator.go:120`).
- `DesiredRecover.StaysDisabled`: a recover scheduled before a disable and run
  after it brings VoWiFi up again.
- With `esim_switch.radio_cycle` a convergence that gives up leaves the radio in
  low power, and a second switch begun then takes that for flight mode. A
  finalisation that has passed its last look acts on a device that a newer
  switch has marked.
- `WorkerPool.NoWorkerLost` without its exception: a QMI device registers before its
  core is started (`device/pool_bootstrap.go:619`), and a worker that is removed in
  between is stopped while there is nothing to stop. The start, or the goroutine
  that tries again, opens the core afterwards (`device/qmi_core_start.go:64`,
  `100`), and nobody knows it any more. `early` holds these workers.
- Of devices that are not QMI the like is not modelled: an MBIM start that was
  overtaken gives up without closing its core (`device/pool_bootstrap.go:608`), and
  an MBIM or AT start registers without looking who is there (line 645), over a
  worker that was registered since it asked whether it was the latest.
- A start that hangs inside a recovery keeps `modemRebootRecovering`: the watchdog
  frees `rebuilding` only, so neither the health check nor another recovery starts
  the device. `RebuildWorker` of a device without a worker waits ten seconds for
  its own mark, in `RemoveWorker`, whose waiting begins anew as often as somebody
  else takes the mark. `WorkerComesBack` therefore excepts the time in which a
  recovery or a user is at work.
- `OperatorMode.ConfigIsModem`: two locks at a time may pass each other between
  modem and configuration.

On the pages:

- Messages: `SmsView.ThreadLoadingEnds` (a poll asked for before the selection
  supersedes the thread's load and its mark stays), `SmsView.HistoryLandsStep` (the
  older messages of a thread that was left come before those of the one selected
  since, `views/Sms.vue:278`).
- Devices: `DevicesView.EditorIsSelected` (a late configuration fills the editor
  of another device), `AddDevice.ChoiceIsKept` (the chosen backend is overwritten
  on submission).
- eSIM: `EsimTab.ProfilesAreSelected` (the list after a rename is not checked for
  staleness), `EsimTab.LoadEnds` (a refresh supersedes a load and takes only its
  own mark back).
- Policy: `CardPolicy.SwitchesExclude` (a toggle that fails late goes back beside
  one that has succeeded), `CardPolicy.PolicyIsOfCard`.
- Proxies: `ProxyView.FormIsEdited` (a late detail overwrites the drawer of
  another instance), `UpstreamView.RulesOfShown` (two lists read apart).
- Settings: `SettingsView.SavedIsShown` (zero retries are sent as three),
  `SettingsView.RowsAreSource` (headers without rows after a failed load).
- Websheets: `Websheet.ClosesOwn` (the answer for a sheet that was closed closes the
  next), `Websheet.ReturnsToOwn` (the page of a flow that returned to the broker,
  `websheet/websheet.go:317`, posts no token, and the dialog takes that for whatever
  it shows, `CarrierWebsheetDialog.vue:80`; without a callback it ends the sheet,
  even where the carrier reported only progress). `FinishedByPage` excepts the
  sheets finished that way (`strays`).
- Others: `UssdTab.OwnDevice`, `LogsView.LeftIsQuiet` and
  `ShownUpIsUp`, `DashboardView.AnalysisOfRange`, `OperatorMode.ShownIsOwn`, and
  `Session.SessionKept` (a wrong current password is answered with 401, which
  ends the session).

## What is not modelled

- *Of the workers and their recovery*: the budget of rebuilds and the generation
  by which late transport events are refused (`transport_recovery_controller.go`),
  the phases of `lifecycle.go`, the observation of failures by
  `health_watchdog.go`, the ports of MBIM and AT devices, discovery, and the VoWiFi
  that a recovery takes down and brings back.
- *Call bridge* (`cscall/`), *SMS delivery* (`db/sms_delivery.go`), *reassembly*
  (`src/pkg/smscodec/reassembler.go`), *task pool*: state machines of their own,
  in reach, not written.
- *Drivers, backends*: they react to hardware, and their part in the
  protocols above is that of calls and of failures, which the models choose
  freely.
- *Encoders, parsers, SQL, configuration files, notifications, the data path of
  the proxies, fetching and rewriting of websheets*: byte layouts, queries and external
  services.
- *The other HTTP handlers*: they translate requests into the operations modelled
  here.
- *Of the console*: the AT terminal, the debug panel and its collector, the boot
  overlay, the counting of SMS segments, the refusal of the disclaimer, layout and
  wording; in each page what its component's note in `PROJECT.json` names.
- *Composition*: `ESIMSwitch` and `VoWiFiHost` share the mark in concept but are
  checked apart, each with the other's part as one step; the product of both with
  the barrier of `ApduArbiter` is beyond a run of a few minutes.
- The vendored libraries.
