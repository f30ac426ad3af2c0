---------------------------- MODULE PollScheduler ----------------------------
(* usePollingScheduler: a task of a page that is repeated while the page is *)
(* mounted, never beside itself, less and less often while it fails.        *)
EXTENDS Naturals

CONSTANTS
    Interval,      \* intervalMs
    MaxInterval    \* maxIntervalMs; the default backoffFactor 2 is used throughout

VARIABLES
    stopped,       \* stopped.value; the page starts the scheduler when it mounts
    running,       \* running.value
    ticking,       \* timer.value # null
    interval,      \* currentInterval.value
    enabled,       \* options.enabled.value, owned by the page
    tasks,         \* ghost: the calls of task() that have not returned
    mounted        \* ghost: the page has not been unmounted

vars == <<stopped, running, ticking, interval, enabled, tasks, mounted>>

(* start() on mount.                                                        *)
Init ==
    /\ stopped = FALSE /\ running = FALSE /\ ticking = TRUE /\ interval = Interval
    /\ enabled \in BOOLEAN /\ tasks = 0 /\ mounted = TRUE

(* schedule(): one timer, none once stopped.  Its delay is interval, or     *)
(* longer in the background.                                                *)
Schedule == ticking' = ~ stopped

(* tick() finds a task running, or polling disabled.                        *)
TickIdle ==
    /\ ticking
    /\ stopped \/ running \/ ~ enabled
    /\ Schedule
    /\ UNCHANGED <<stopped, running, interval, enabled, tasks, mounted>>

(* tick() runs the task.                                                    *)
Tick ==
    /\ ticking
    /\ ~ stopped /\ ~ running /\ enabled
    /\ ticking' = FALSE
    /\ running' = TRUE /\ tasks' = tasks + 1
    /\ UNCHANGED <<stopped, interval, enabled, mounted>>

(* The task returns, or throws: the finally block schedules in both cases.  *)
TaskEnds(ok) ==
    /\ tasks > 0
    /\ tasks' = tasks - 1 /\ running' = FALSE
    /\ interval' = IF ok THEN Interval
                   ELSE IF 2 * interval > MaxInterval THEN MaxInterval ELSE 2 * interval
    /\ Schedule
    /\ UNCHANGED <<stopped, enabled, mounted>>

(* The watcher of options.enabled triggers when polling comes back.         *)
Enable ==
    /\ mounted /\ ~ enabled
    /\ enabled' = TRUE
    /\ Schedule
    /\ UNCHANGED <<stopped, running, interval, tasks, mounted>>

Disable ==
    /\ mounted /\ enabled
    /\ enabled' = FALSE
    /\ UNCHANGED <<stopped, running, ticking, interval, tasks, mounted>>

(* stop() on unmount.                                                       *)
Unmount ==
    /\ mounted
    /\ mounted' = FALSE /\ stopped' = TRUE /\ ticking' = FALSE
    /\ UNCHANGED <<running, interval, enabled, tasks>>

Next ==
    \/ TickIdle \/ Tick \/ \E ok \in BOOLEAN : TaskEnds(ok)
    \/ Enable \/ Disable \/ Unmount

Spec == Init /\ [][Next]_vars
-----------------------------------------------------------------------------
TypeOK ==
    /\ stopped \in BOOLEAN /\ running \in BOOLEAN /\ ticking \in BOOLEAN
    /\ enabled \in BOOLEAN /\ mounted \in BOOLEAN
    /\ interval \in Interval..MaxInterval
    /\ tasks \in Nat

(* Polling neither dies nor doubles: as long as the page is mounted there   *)
(* is a timer, or one task at the end of which there will be one; once it   *)
(* is unmounted, a task that is still out leaves no timer behind.           *)
PollLives ==
    /\ tasks = (IF running THEN 1 ELSE 0)
    /\ mounted => ticking \/ running
    /\ ~ mounted => ~ ticking
=============================================================================
