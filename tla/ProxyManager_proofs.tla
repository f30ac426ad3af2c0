------------------------- MODULE ProxyManager_proofs -------------------------
(* Theorems about ProxyManager.                                             *)
EXTENDS ProxyManager, TLAPS

(* What a call that works on an instance works on.                          *)
Working ==
    \A c \in Calls : pc[c] \in {"stopping", "check", "await", "register"} => current[c] \in Ids

(* The server a call has made is not registered yet.                        *)
Waits(c) == pc[c] \in {"await", "register"}

Todo == [stop : SUBSET Ids, forget : SUBSET Ids, restart : SUBSET Ids, start : SUBSET Ids]
-----------------------------------------------------------------------------
(* Type correctness.                                                        *)

LEMMA InitType == Init => TypeOK
<1> SUFFICES ASSUME Init PROVE TypeOK
  OBVIOUS
<1>1. FirstPlan \in [Ids -> Config \cup {None}]
  BY PlanAssumption
<1> QED
  BY <1>1 DEF Init, TypeOK, ServerPhases, Nothing

(* What a call has left to do gets fewer.                                   *)
LEMMA TodoShrinks ==
    ASSUME TypeOK, NEW c \in Calls, NEW id \in Ids
    PROVE  /\ [todo EXCEPT ![c].stop = @ \ {id}] \in [Calls -> Todo]
           /\ [todo EXCEPT ![c].forget = {}] \in [Calls -> Todo]
           /\ [todo EXCEPT ![c].restart = @ \ {id}] \in [Calls -> Todo]
           /\ [todo EXCEPT ![c].start = @ \ {id}] \in [Calls -> Todo]
           /\ [todo EXCEPT ![c] = Nothing] \in [Calls -> Todo]
<1>1. todo \in [Calls -> Todo]
  BY DEF TypeOK, Todo
<1> QED
  BY <1>1 DEF Todo, Nothing

(* Stop of one instance.                                                    *)
LEMMA BeginStopType ==
    ASSUME TypeOK, NEW c \in Calls, NEW id \in Ids, NEW r \in BOOLEAN, BeginStop(c, id, r),
           todo' \in [Calls -> Todo]
    PROVE  TypeOK'
<1>1. CASE Running(id)
  <2>1. instances[id] \in Servers
    BY <1>1 DEF Running, TypeOK
  <2> QED
    BY <1>1, <2>1 DEF BeginStop, TypeOK, Todo, table, servers, Goto
<1>2. CASE ~ Running(id)
  BY <1>2 DEF BeginStop, TypeOK, Todo, table, servers, Goto
<1> QED
  BY <1>1, <1>2

LEMMA NextType == TypeOK /\ Working /\ [Next]_vars => TypeOK'
<1> SUFFICES ASSUME TypeOK, Working, [Next]_vars PROVE TypeOK'
  OBVIOUS
<1> USE DEF table, servers, helpers, local, Goto, Fail, At
<1>1. ASSUME NEW s \in Servers, Listen(s) \/ Exit(s) \/ Die(s) PROVE TypeOK'
  BY <1>1 DEF Listen, Exit, Die, TypeOK, ServerPhases
<1>2. ASSUME NEW s \in Servers, WatchServerExit(s) PROVE TypeOK'
  BY <1>2 DEF WatchServerExit, TypeOK
<1>3. ASSUME NEW s \in Servers, RunShutdown(s) PROVE TypeOK'
  BY <1>3 DEF RunShutdown, Shutdown, TypeOK, ServerPhases
<1>4. ASSUME NEW c \in Calls, BeginAction(c) PROVE TypeOK'
  <2>1. Kind(c) \in {"start", "stop", "restart"} /\ IdOf[c] \in Ids
    BY <1>4, CallAssumption DEF BeginAction
  <2>2. [Nothing EXCEPT ![Kind(c)] = {IdOf[c]}] \in Todo
    <3>1. CASE Kind(c) = "start"
      BY <2>1, <3>1 DEF Nothing, Todo
    <3>2. CASE Kind(c) = "stop"
      BY <2>1, <3>2 DEF Nothing, Todo
    <3>3. CASE Kind(c) = "restart"
      BY <2>1, <3>3 DEF Nothing, Todo
    <3> QED
      BY <2>1, <3>1, <3>2, <3>3
  <2>3. todo' \in [Calls -> Todo]
    BY <1>4, <2>2 DEF BeginAction, TypeOK, Todo
  <2> QED
    BY <1>4, <2>3 DEF BeginAction, TypeOK, Todo
<1>5. ASSUME NEW c \in Calls, BeginShutdown(c) PROVE TypeOK'
  <2>1. [Nothing EXCEPT !.stop = Ids] \in Todo
    BY DEF Nothing, Todo
  <2>2. todo' \in [Calls -> Todo]
    BY <1>5, <2>1 DEF BeginShutdown, TypeOK, Todo
  <2> QED
    BY <1>5, <2>2 DEF BeginShutdown, TypeOK, Todo
<1>6. ASSUME NEW c \in Calls, BeginApply(c) PROVE TypeOK'
  <2>1. PICK plan \in Plans : configByID' = plan /\ todo' = [todo EXCEPT ![c] = Changes(plan)]
    BY <1>6 DEF BeginApply
  <2>2. plan \in [Ids -> Config \cup {None}] /\ Changes(plan) \in Todo
    BY PlanAssumption DEF Changes, Todo
  <2>3. todo' \in [Calls -> Todo]
    BY <2>1, <2>2 DEF TypeOK, Todo
  <2> QED
    BY <1>6, <2>1, <2>2, <2>3 DEF BeginApply, TypeOK, Todo
<1>7. ASSUME NEW c \in Calls, NextStop(c) PROVE TypeOK'
  <2>1. PICK id \in todo[c].stop : todo' = [todo EXCEPT ![c].stop = @ \ {id}] /\ BeginStop(c, id, FALSE)
    BY <1>7 DEF NextStop
  <2>2. id \in Ids
    BY <2>1 DEF TypeOK
  <2> QED
    BY <2>1, <2>2, TodoShrinks, BeginStopType
<1>8. ASSUME NEW c \in Calls, Forget(c) PROVE TypeOK'
  <2>1. todo' \in [Calls -> Todo]
    BY <1>8, TodoShrinks, CallAssumption DEF Forget, TypeOK
  <2> QED
    BY <1>8, <2>1 DEF Forget, TypeOK, Todo
<1>9. ASSUME NEW c \in Calls, NextRestart(c) PROVE TypeOK'
  <2>1. PICK id \in todo[c].restart : todo' = [todo EXCEPT ![c].restart = @ \ {id}] /\ BeginStop(c, id, TRUE)
    BY <1>9 DEF NextRestart
  <2>2. id \in Ids
    BY <2>1 DEF TypeOK
  <2> QED
    BY <2>1, <2>2, TodoShrinks, BeginStopType
<1>10. ASSUME NEW c \in Calls, NextStart(c) PROVE TypeOK'
  <2>1. PICK id \in todo[c].start :
            todo' = [todo EXCEPT ![c].start = @ \ {id}] /\ current' = [current EXCEPT ![c] = id]
    BY <1>10 DEF NextStart
  <2>2. id \in Ids
    BY <2>1 DEF TypeOK
  <2>3. todo' \in [Calls -> Todo]
    BY <2>1, <2>2, TodoShrinks
  <2> QED
    BY <1>10, <2>1, <2>2, <2>3 DEF NextStart, TypeOK, Todo
<1>11. ASSUME NEW c \in Calls, Return(c) \/ Stopped(c) \/ SeesRunning(c) \/ StartFails(c) PROVE TypeOK'
  BY <1>11 DEF Return, Stopped, SeesRunning, StartFails, TypeOK
<1>12. ASSUME NEW c \in Calls, StopTimesOut(c) PROVE TypeOK'
  <2>1. todo' \in [Calls -> Todo]
    BY <1>12, TodoShrinks, CallAssumption DEF StopTimesOut, TypeOK, Todo
  <2> QED
    BY <1>12, <2>1 DEF StopTimesOut, TypeOK, Todo
<1>13. ASSUME NEW c \in Calls, CheckStart(c) PROVE TypeOK'
  <2>1. CASE configByID[current[c]] = None \/ Running(current[c])
    <3>1. /\ pc' = [pc EXCEPT ![c] = "next"] /\ failed' \in {failed, failed \cup {c}}
          /\ UNCHANGED <<table, servers, helpers, syncMu, todo, current, target, again, displaced>>
      BY <1>13, <2>1 DEF CheckStart
    <3> QED
      BY <3>1 DEF TypeOK
  <2>2. CASE ~ (configByID[current[c]] = None \/ Running(current[c]))
    <3>1. /\ phase' = [phase EXCEPT ![<<c, current[c]>>] = "starting"]
          /\ setting' = [setting EXCEPT ![<<c, current[c]>>] = configByID[current[c]].setting]
          /\ pc' = [pc EXCEPT ![c] = "await"]
          /\ UNCHANGED <<table, shutdown, asked, helpers, syncMu, todo, current, target, again,
                         failed, displaced>>
      BY <1>13, <2>2 DEF CheckStart, Goto
    <3>2. current[c] \in Ids /\ configByID[current[c]].setting \in Settings
      BY <1>13, <2>2, NoneAssumption DEF CheckStart, TypeOK, Config, Working
    <3>3. phase' \in [Servers -> ServerPhases] /\ setting' \in [Servers -> Settings \cup {None}]
      BY <3>1, <3>2 DEF TypeOK, ServerPhases, Servers
    <3> QED
      BY <3>1, <3>3 DEF TypeOK
  <2> QED
    BY <2>1, <2>2
<1>14. ASSUME NEW c \in Calls, Register(c) PROVE TypeOK'
  BY <1>14 DEF Register, Own, TypeOK, Servers, Working
<1>15. ASSUME NEW c \in Calls, StartTimesOut(c) PROVE TypeOK'
  BY <1>15 DEF StartTimesOut, Shutdown, Own, TypeOK, ServerPhases, Servers, Working
<1>16. CASE UNCHANGED vars
  BY <1>16 DEF vars, TypeOK
<1> QED
  BY <1>1, <1>2, <1>3, <1>4, <1>5, <1>6, <1>7, <1>8, <1>9, <1>10, <1>11, <1>12, <1>13, <1>14, <1>15,
     <1>16 DEF Next, Begin, Step

(* A call names its instance before it works on it.                         *)
LEMMA NextWorking == TypeOK /\ Working /\ [Next]_vars => Working'
<1> SUFFICES ASSUME TypeOK, Working, [Next]_vars PROVE Working'
  OBVIOUS
<1> USE DEF table, servers, helpers, local, Goto, Fail, At, Working
<1>1. CASE UNCHANGED <<pc, current>>
  BY <1>1
<1>2. ASSUME NEW s \in Servers, Listen(s) \/ Exit(s) \/ Die(s) \/ WatchServerExit(s) \/ RunShutdown(s)
      PROVE  Working'
  BY <1>1, <1>2 DEF Listen, Exit, Die, WatchServerExit, RunShutdown
<1>3. ASSUME NEW c \in Calls, BeginAction(c) \/ BeginShutdown(c) \/ BeginApply(c) PROVE Working'
  BY <1>3 DEF BeginAction, BeginShutdown, BeginApply, TypeOK
<1>4. ASSUME NEW c \in Calls, NEW id \in Ids, NEW r, BeginStop(c, id, r) PROVE Working'
  BY <1>4 DEF BeginStop, TypeOK
<1>5. ASSUME NEW c \in Calls, NextStop(c) \/ NextRestart(c) PROVE Working'
  BY <1>4, <1>5 DEF NextStop, NextRestart, TypeOK
<1>6. ASSUME NEW c \in Calls, NextStart(c) PROVE Working'
  <2>1. PICK id \in todo[c].start : current' = [current EXCEPT ![c] = id]
    BY <1>6 DEF NextStart
  <2>2. id \in Ids
    BY <2>1 DEF TypeOK
  <2> QED
    BY <1>6, <2>1, <2>2 DEF NextStart, TypeOK
<1>7. ASSUME NEW c \in Calls, Forget(c) \/ Return(c) \/ Stopped(c) \/ StopTimesOut(c) PROVE Working'
  BY <1>7 DEF Forget, Return, Stopped, StopTimesOut, TypeOK
<1>8. ASSUME NEW c \in Calls,
             CheckStart(c) \/ SeesRunning(c) \/ Register(c) \/ StartFails(c) \/ StartTimesOut(c)
      PROVE  Working'
  BY <1>8 DEF CheckStart, SeesRunning, Register, StartFails, StartTimesOut, TypeOK
<1>9. CASE UNCHANGED vars
  BY <1>1, <1>9 DEF vars
<1> QED
  BY <1>2, <1>3, <1>5, <1>6, <1>7, <1>8, <1>9 DEF Next, Begin, Step

TypeInv == TypeOK /\ Working

LEMMA Typed == Spec => []TypeInv
<1>1. Init => TypeInv
  BY InitType DEF TypeInv, Init, Working
<1>2. TypeInv /\ [Next]_vars => TypeInv'
  BY NextType, NextWorking DEF TypeInv
<1> QED
  BY <1>1, <1>2, PTL DEF Spec

(* The table, the servers and the calls keep their types, whatever calls    *)
(* and configurations there are.                                            *)
THEOREM ManagerTyped == Spec => []TypeOK
<1>1. TypeInv => TypeOK
  BY DEF TypeInv
<1> QED
  BY <1>1, Typed, PTL

-----------------------------------------------------------------------------
(* Who is registered is watched.                                            *)

(* An entry is of its own instance, and its watcher has not run.            *)
Entries ==
    \A id \in Ids : instances[id] # None => instances[id] \in watched /\ instances[id][2] = id

LEMMA NextEntries == TypeInv /\ Entries /\ [Next]_vars => Entries'
<1> SUFFICES ASSUME TypeInv, Entries, [Next]_vars PROVE Entries'
  OBVIOUS
<1> USE DEF table, servers, helpers, local
<1>1. CASE UNCHANGED <<instances, watched>>
  BY <1>1 DEF Entries
<1>2. ASSUME NEW s \in Servers, Listen(s) \/ Exit(s) \/ Die(s) \/ RunShutdown(s) PROVE Entries'
  BY <1>1, <1>2 DEF Listen, Exit, Die, RunShutdown
<1>3. ASSUME NEW s \in Servers, WatchServerExit(s) PROVE Entries'
  BY <1>3 DEF WatchServerExit, Entries
<1>4. ASSUME NEW c \in Calls, Begin(c) PROVE Entries'
  BY <1>1, <1>4 DEF Begin, BeginAction, BeginShutdown, BeginApply
<1>5. ASSUME NEW c \in Calls,
             NextStop(c) \/ NextRestart(c) \/ NextStart(c) \/ Return(c) \/ Stopped(c) \/ StopTimesOut(c)
             \/ CheckStart(c) \/ SeesRunning(c) \/ StartFails(c) \/ StartTimesOut(c)
      PROVE  Entries'
  BY <1>1, <1>5 DEF NextStop, NextRestart, BeginStop, NextStart, Return, Stopped, StopTimesOut,
     CheckStart, SeesRunning, StartFails, StartTimesOut
<1>6. ASSUME NEW c \in Calls, Forget(c) PROVE Entries'
  BY <1>6 DEF Forget, Entries
<1>7. ASSUME NEW c \in Calls, Register(c) PROVE Entries'
  BY <1>7 DEF Register, Own, Entries, TypeInv, TypeOK, Working, At
<1>8. CASE UNCHANGED vars
  BY <1>1, <1>8 DEF vars
<1> QED
  BY <1>2, <1>3, <1>4, <1>5, <1>6, <1>7, <1>8 DEF Next, Step

LEMMA EntriesHold == Spec => []Entries
<1>1. Init => Entries
  BY DEF Init, Entries
<1>2. TypeInv /\ Entries /\ [Next]_vars => Entries'
  BY NextEntries
<1> QED
  BY <1>1, <1>2, Typed, PTL DEF Spec

(* However starts, stops and syncs overlap, no instance whose server has    *)
(* gone stays listed for good: its watcher is still to come (Start,         *)
(* watchServerExit).                                                        *)
THEOREM GoneServersAreNoticed == Spec => []ExitIsWatched
<1>1. Entries => ExitIsWatched
  BY DEF Entries, ExitIsWatched
<1> QED
  BY <1>1, EntriesHold, PTL

-----------------------------------------------------------------------------
(* No server is lost, as long as no configuration is applied.               *)

Handlers == \A c \in Calls : KindOf[c] # "apply"

(* Only an apply forgets instances.                                         *)
KeepsTable == \A c \in Calls : todo[c].forget = {}

(* A server that will listen is awaited by the call that made it.           *)
StartsAwaited ==
    \A s \in Servers :
      phase[s] = "starting" /\ s \notin asked => At(s[1], "await") /\ Own(s[1]) = s

(* Servers run with the settings of their instance, and a port has one      *)
(* listener: hence an instance has at most one server that listens.         *)
OwnSetting == \A s \in Servers : phase[s] # "unborn" => setting[s] = configByID[s[2]].setting

OneListener ==
    \A s, t \in Servers :
      phase[s] = "listening" /\ phase[t] = "listening" /\ PortOf[setting[s]] = PortOf[setting[t]] => s = t

KeptInv == KeepsTable /\ StartsAwaited /\ OwnSetting /\ OneListener /\ NoOrphan

LEMMA InitKept == Init => KeptInv
BY DEF Init, Nothing, KeptInv, KeepsTable, StartsAwaited, OwnSetting, OneListener, NoOrphan

(* Steps that leave the servers and who waits for them as they are.         *)
LEMMA NextKeepsTable ==
    ASSUME Handlers, TypeInv, KeepsTable, [Next]_vars
    PROVE  KeepsTable' /\ UNCHANGED configByID
<1> USE DEF table, servers, helpers, local, KeepsTable
<1>1. CASE UNCHANGED <<todo, configByID>>
  BY <1>1
<1>2. ASSUME NEW s \in Servers, Listen(s) \/ Exit(s) \/ Die(s) \/ WatchServerExit(s) \/ RunShutdown(s)
      PROVE  UNCHANGED <<todo, configByID>>
  BY <1>2 DEF Listen, Exit, Die, WatchServerExit, RunShutdown
<1>3. ASSUME NEW c \in Calls, BeginAction(c) PROVE KeepsTable' /\ UNCHANGED configByID
  <2>1. [Nothing EXCEPT ![Kind(c)] = {IdOf[c]}].forget = {}
    BY <1>3 DEF BeginAction, Nothing
  <2> QED
    BY <1>3, <2>1 DEF BeginAction, TypeInv, TypeOK
<1>4. ASSUME NEW c \in Calls, BeginShutdown(c) PROVE KeepsTable' /\ UNCHANGED configByID
  BY <1>4 DEF BeginShutdown, Nothing, TypeInv, TypeOK
<1>5. ASSUME NEW c \in Calls, BeginApply(c) PROVE FALSE
  BY <1>5 DEF BeginApply, Handlers, Kind
<1>6. ASSUME NEW c \in Calls, NextStop(c) \/ NextRestart(c) \/ NextStart(c)
      PROVE  KeepsTable' /\ UNCHANGED configByID
  <2>1. UNCHANGED configByID
    BY <1>6 DEF NextStop, NextRestart, NextStart, BeginStop
  <2>2. PICK id \in Ids : \/ todo' = [todo EXCEPT ![c].stop = @ \ {id}]
                         \/ todo' = [todo EXCEPT ![c].restart = @ \ {id}]
                         \/ todo' = [todo EXCEPT ![c].start = @ \ {id}]
    BY <1>6 DEF NextStop, NextRestart, NextStart, TypeInv, TypeOK
  <2>3. todo \in [Calls -> Todo]
    BY DEF TypeInv, TypeOK, Todo
  <2>4. KeepsTable'
    BY <2>2, <2>3 DEF Todo
  <2> QED
    BY <2>1, <2>4
<1>7. ASSUME NEW c \in Calls, Forget(c) PROVE FALSE
  BY <1>7 DEF Forget
<1>8. ASSUME NEW c \in Calls, Return(c) \/ Stopped(c) \/ CheckStart(c) \/ SeesRunning(c) \/ Register(c)
                              \/ StartFails(c) \/ StartTimesOut(c)
      PROVE  UNCHANGED <<todo, configByID>>
  BY <1>8 DEF Return, Stopped, CheckStart, SeesRunning, Register, StartFails, StartTimesOut
<1>9. ASSUME NEW c \in Calls, StopTimesOut(c) PROVE KeepsTable' /\ UNCHANGED configByID
  BY <1>9 DEF StopTimesOut, Nothing, TypeInv, TypeOK
<1>10. CASE UNCHANGED vars
  BY <1>1, <1>10 DEF vars
<1> QED
  BY <1>1, <1>2, <1>3, <1>4, <1>5, <1>6, <1>7, <1>8, <1>9, <1>10 DEF Next, Begin, Step

ServersKept == StartsAwaited /\ OwnSetting /\ OneListener /\ NoOrphan

(* A step that touches no server, and takes no call out of its wait before  *)
(* the server it made has a listener.                                       *)
LEMMA FrameKept ==
    ASSUME ServersKept, UNCHANGED <<servers, instances, configByID, displaced>>, closing \subseteq closing',
           \A c \in Calls : Waits(c) => Waits(c)' /\ current'[c] = current[c],
           \A c \in Calls : At(c, "await") => At(c, "await")' \/ phase[Own(c)] = "listening"
    PROVE  ServersKept'
<1> USE DEF servers, ServersKept
<1>1. StartsAwaited'
  BY DEF StartsAwaited, Waits, At, Own, Servers
<1>2. OwnSetting' /\ OneListener'
  BY DEF OwnSetting, OneListener
<1>3. NoOrphan'
  BY DEF NoOrphan, Waits, Own, Servers
<1> QED
  BY <1>1, <1>2, <1>3

LEMMA NextKept ==
    ASSUME Handlers, TypeInv, Entries, KeptInv, [Next]_vars
    PROVE  ServersKept'
<1> USE DEF table, servers, helpers, local
<1>1. ServersKept /\ KeepsTable
  BY DEF KeptInv, ServersKept
<1>2. UNCHANGED configByID
  BY <1>1, NextKeepsTable
<1>3. CASE UNCHANGED <<servers, instances, closing, pc, current, displaced>>
  BY <1>1, <1>2, <1>3, FrameKept DEF At, Waits
<1>4. ASSUME NEW s \in Servers, Listen(s) PROVE ServersKept'
  <2>1. CASE PortInUse(PortOf[setting[s]])
    BY <1>1, <1>2, <1>4, <2>1 DEF Listen, ServersKept, StartsAwaited, OwnSetting, OneListener, NoOrphan, At,
       Own, TypeInv, TypeOK
  <2>2. CASE ~ PortInUse(PortOf[setting[s]])
    <3> USE <1>1, <1>2, <1>4, <2>2 DEF Listen, TypeInv, TypeOK
    <3>1. StartsAwaited'
      BY DEF ServersKept, StartsAwaited, At, Own
    <3>2. OwnSetting'
      BY DEF ServersKept, OwnSetting
    <3>3. OneListener'
      BY DEF ServersKept, OneListener, PortInUse
    <3>4. NoOrphan'
      BY DEF ServersKept, NoOrphan, StartsAwaited, At, Own
    <3> QED
      BY <3>1, <3>2, <3>3, <3>4 DEF ServersKept
  <2> QED
    BY <2>1, <2>2
<1>5. ASSUME NEW s \in Servers, Exit(s) \/ Die(s) PROVE ServersKept'
  <2>1. /\ phase' = [phase EXCEPT ![s] = "exited"]
        /\ phase[s] # "unborn"
        /\ UNCHANGED <<instances, setting, shutdown, asked, closing, pc, current, displaced>>
    BY <1>5 DEF Exit, Die
  <2>2. \A x \in Servers : /\ phase'[x] \in {phase[x], "exited"}
                           /\ (phase'[x] = "unborn") <=> (phase[x] = "unborn")
    BY <2>1 DEF TypeInv, TypeOK
  <2>3. StartsAwaited' /\ OwnSetting'
    BY <1>1, <1>2, <2>1, <2>2 DEF ServersKept, StartsAwaited, OwnSetting, At, Own
  <2>4. OneListener' /\ NoOrphan'
    BY <1>1, <1>2, <2>1, <2>2 DEF ServersKept, OneListener, NoOrphan, At, Own
  <2> QED
    BY <2>3, <2>4 DEF ServersKept
<1>6. ASSUME NEW s \in Servers, WatchServerExit(s) PROVE ServersKept'
  <2>1. /\ phase[s] = "exited" /\ UNCHANGED <<servers, closing, pc, current, displaced>>
        /\ \A id \in Ids : instances[id] # s => instances'[id] = instances[id]
    BY <1>6 DEF WatchServerExit
  <2>2. StartsAwaited' /\ OwnSetting' /\ OneListener'
    BY <1>1, <1>2, <2>1 DEF ServersKept, StartsAwaited, OwnSetting, OneListener, At, Own
  <2>3. NoOrphan'
    BY <1>1, <2>1 DEF ServersKept, NoOrphan, At, Own, Servers
  <2> QED
    BY <2>2, <2>3 DEF ServersKept
<1>7. ASSUME NEW s \in Servers, Shutdown(s), UNCHANGED <<instances, displaced>>, closing \ {s} \subseteq closing',
             \A c \in Calls : Waits(c) /\ Own(c) # s => pc'[c] = pc[c] /\ current'[c] = current[c]
      PROVE  ServersKept'
  <2> USE <1>1, <1>2, <1>7 DEF Shutdown, TypeInv, TypeOK
  <2>1. \A t \in Servers : t # s => phase'[t] = phase[t] /\ (t \in asked' <=> t \in asked)
    OBVIOUS
  <2>2. s \in asked' /\ phase'[s] \in {phase[s], "closed"} /\ (phase'[s] # "unborn" => phase[s] # "unborn")
    BY DEF IsRunning
  <2>3. StartsAwaited'
    BY <2>1, <2>2 DEF ServersKept, StartsAwaited, Waits, At, Own, Servers
  <2>4. OwnSetting' /\ OneListener'
    BY <2>1, <2>2 DEF ServersKept, OwnSetting, OneListener
  <2>5. NoOrphan'
    BY <2>1, <2>2 DEF ServersKept, NoOrphan, Waits, Own, Servers
  <2> QED
    BY <2>3, <2>4, <2>5 DEF ServersKept
<1>8. ASSUME NEW s \in Servers, RunShutdown(s) PROVE ServersKept'
  BY <1>7, <1>8 DEF RunShutdown, At
<1>9. ASSUME NEW c \in Calls, BeginAction(c) \/ BeginShutdown(c) \/ Return(c) \/ Stopped(c) \/ StopTimesOut(c)
                              \/ SeesRunning(c)
      PROVE  ServersKept'
  BY <1>1, <1>2, <1>9, FrameKept DEF BeginAction, BeginShutdown, Return, Stopped, StopTimesOut, SeesRunning,
     IsRunning, Goto, At, Waits,
     TypeInv, TypeOK
<1>10. ASSUME NEW c \in Calls, NextStop(c) \/ NextRestart(c) \/ NextStart(c) PROVE ServersKept'
  BY <1>1, <1>2, <1>10, FrameKept DEF NextStop, NextRestart, NextStart, BeginStop, Goto, At, Waits,
     TypeInv, TypeOK
<1>11. ASSUME NEW c \in Calls, CheckStart(c) PROVE ServersKept'
  <2>1. CASE configByID[current[c]] = None \/ Running(current[c])
    BY <1>1, <1>2, <1>11, <2>1, FrameKept DEF CheckStart, Goto, At, Waits, TypeInv, TypeOK
  <2>2. CASE ~ (configByID[current[c]] = None \/ Running(current[c]))
    <3> USE <1>1, <1>2, <1>11, <2>2 DEF CheckStart, Goto, At, TypeInv, TypeOK
    <3>1. Own(c) \in Servers /\ Own(c)[1] = c /\ Own(c)[2] = current[c]
      BY DEF Own, Servers, Working
    <3>2. /\ phase' = [phase EXCEPT ![Own(c)] = "starting"]
          /\ setting' = [setting EXCEPT ![Own(c)] = configByID[current[c]].setting]
          /\ pc' = [pc EXCEPT ![c] = "await"]
          /\ UNCHANGED <<instances, asked, closing, current, displaced>>
      BY DEF Own
    <3>3. StartsAwaited'
      BY <3>1, <3>2 DEF ServersKept, StartsAwaited, Own
    <3>4. OwnSetting' /\ OneListener'
      BY <3>1, <3>2 DEF ServersKept, OwnSetting, OneListener
    <3>5. NoOrphan'
      BY <3>1, <3>2 DEF ServersKept, NoOrphan, Own
    <3> QED
      BY <3>3, <3>4, <3>5 DEF ServersKept
  <2> QED
    BY <2>1, <2>2
<1>12. ASSUME NEW c \in Calls, Register(c) PROVE ServersKept'
  <2> USE <1>1, <1>2, <1>12 DEF Register, Goto, At, TypeInv, TypeOK
  <2>1. Own(c) \in Servers /\ Own(c)[2] = current[c] /\ current[c] \in Ids /\ pc[c] = "register"
    BY DEF Own, Servers, Working
  <2>2. StartsAwaited'
    <3>1. UNCHANGED <<phase, asked, current>> /\ \A d \in Calls : d # c => pc'[d] = pc[d]
      OBVIOUS
    <3>2. ASSUME NEW s \in Servers, phase[s] = "starting", s \notin asked
          PROVE  pc[s[1]] = "await" /\ Own(s[1]) = s /\ s[1] # c /\ s[1] \in Calls
      BY <2>1, <3>2 DEF ServersKept, StartsAwaited, Servers
    <3> QED
      BY <3>1, <3>2 DEF StartsAwaited, Own
  <2>3. OwnSetting' /\ OneListener'
    BY DEF ServersKept, OwnSetting, OneListener
  <2>4. ASSUME NEW s \in Servers, phase[s] = "listening", s[2] = current[c], phase[Own(c)] = "listening"
        PROVE  s = Own(c)
    BY <2>1, <2>4 DEF ServersKept, OwnSetting, OneListener
  <2>5. ASSUME NEW s \in Servers, phase'[s] = "listening", s \notin asked' \cup displaced'
        PROVE  instances'[s[2]] = s \/ (Waits(s[1])' /\ Own(s[1])' = s) \/ s \in closing'
    <3>1. CASE s[2] = current[c]
      <4>1. s = Own(c) \/ phase[Own(c)] # "listening"
        BY <2>4, <2>5, <3>1
      <4>2. CASE s = Own(c)
        BY <2>1, <3>1, <4>2
      <4>3. CASE s # Own(c) /\ phase[Own(c)] # "listening"
        <5>1. instances[s[2]] # s /\ s \notin displaced
          BY <2>5, <3>1, <4>3
        <5>2. (Waits(s[1]) /\ Own(s[1]) = s) \/ s \in closing
          BY <2>5, <5>1 DEF ServersKept, NoOrphan, Waits
        <5>3. s[1] # c /\ s[1] \in Calls
          BY <2>1, <3>1, <4>3 DEF Own, Servers
        <5> QED
          BY <5>2, <5>3 DEF Waits, Own
      <4> QED
        BY <4>1, <4>2, <4>3
    <3>2. CASE s[2] # current[c]
      <4>1. instances'[s[2]] = instances[s[2]] /\ s \notin displaced /\ s[1] \in Calls
        BY <2>1, <2>5, <3>2 DEF Servers
      <4>2. Own(s[1]) = s => s[1] # c
        BY <3>2 DEF Own
      <4> QED
        BY <2>5, <4>1, <4>2 DEF ServersKept, NoOrphan, Waits, Own
    <3> QED
      BY <3>1, <3>2
  <2>6. NoOrphan'
    BY <2>5 DEF NoOrphan, Waits
  <2> QED
    BY <2>2, <2>3, <2>6 DEF ServersKept
<1>13. ASSUME NEW c \in Calls, StartFails(c) PROVE ServersKept'
  <2> USE <1>1, <1>2, <1>13 DEF StartFails, Goto, At, TypeInv, TypeOK
  <2>1. phase[Own(c)] = "exited"
    OBVIOUS
  <2>2. \A d \in Calls : d # c => pc'[d] = pc[d]
    OBVIOUS
  <2>3. StartsAwaited'
    <3>1. ASSUME NEW s \in Servers, phase[s] = "starting", s \notin asked
          PROVE  pc[s[1]] = "await" /\ Own(s[1]) = s /\ s[1] # c /\ s[1] \in Calls
      BY <2>1, <3>1 DEF ServersKept, StartsAwaited, Servers
    <3> QED
      BY <2>2, <3>1 DEF StartsAwaited, Own
  <2>4. OwnSetting' /\ OneListener'
    BY DEF ServersKept, OwnSetting, OneListener
  <2>5. NoOrphan'
    BY <2>1, <2>2 DEF ServersKept, NoOrphan, Own, Servers
  <2> QED
    BY <2>3, <2>4, <2>5 DEF ServersKept
<1>14. ASSUME NEW c \in Calls, StartTimesOut(c) PROVE ServersKept'
  BY <1>7, <1>14 DEF StartTimesOut, Goto, At, Own, Waits, TypeInv, TypeOK, Working, Servers
<1>15. ASSUME NEW c \in Calls, BeginApply(c) \/ Forget(c) PROVE FALSE
  BY <1>1, <1>15 DEF BeginApply, Forget, Handlers, Kind, KeepsTable
<1>16. CASE UNCHANGED vars
  BY <1>3, <1>16 DEF vars
<1> QED
  BY <1>4, <1>5, <1>6, <1>8, <1>9, <1>10, <1>11, <1>12, <1>13, <1>14, <1>15, <1>16 DEF Next, Begin, Step

LEMMA KeptHolds == ASSUME Handlers PROVE Spec => [](TypeInv /\ KeptInv)
<1>1. Init => KeptInv
  BY InitKept
<1>2. TypeInv /\ Entries /\ KeptInv /\ [Next]_vars => KeptInv'
  BY NextKept, NextKeepsTable DEF KeptInv, ServersKept
<1> QED
  BY <1>1, <1>2, Typed, EntriesHold, PTL DEF Spec

(* While no configuration is applied, however starts, stops, restarts and   *)
(* the final shutdown overlap and time out, a server that listens is        *)
(* registered, or has still to be registered by the call that made it, or   *)
(* is about to be closed (Start, Stop, Restart, watchServerExit), but for   *)
(* the two exceptions NoOrphan names.  A registration takes the entry of a  *)
(* server that listens only when its own server does not: both would        *)
(* listen on one port.                                                      *)
THEOREM NoServerIsLost == ASSUME Handlers PROVE Spec => []NoOrphan
<1>1. KeptInv => NoOrphan
  BY DEF KeptInv
<1> QED
  BY <1>1, KeptHolds, PTL

(* While no configuration is applied only the watcher of an instance's own  *)
(* server clears its entry, and not before that server has gone, however    *)
(* late the watchers of earlier servers run (watchServerExit).              *)
THEOREM RunningServersStayListed == ASSUME Handlers PROVE Spec => RunningStaysListed
<1> DEFINE Stays == \A id \in Ids :
                      /\ instances[id] # None /\ instances[id] \notin closing
                      /\ phase[instances[id]] = "listening"
                      => instances'[id] # None
<1>1. TypeInv /\ KeptInv /\ [Next]_vars => Stays
  <2> SUFFICES ASSUME TypeInv, KeptInv, [Next]_vars PROVE Stays
    OBVIOUS
  <2> USE DEF table, servers, helpers, local
  <2>1. CASE UNCHANGED instances
    BY <2>1
  <2>2. ASSUME NEW s \in Servers, WatchServerExit(s) PROVE Stays
    BY <2>2 DEF WatchServerExit
  <2>3. ASSUME NEW s \in Servers, Listen(s) \/ Exit(s) \/ Die(s) \/ RunShutdown(s) PROVE UNCHANGED instances
    BY <2>3 DEF Listen, Exit, Die, RunShutdown
  <2>4. ASSUME NEW c \in Calls, Begin(c) PROVE UNCHANGED instances
    BY <2>4 DEF Begin, BeginAction, BeginShutdown, BeginApply
  <2>5. ASSUME NEW c \in Calls, Forget(c) PROVE FALSE
    BY <2>5 DEF Forget, KeptInv, KeepsTable
  <2>6. ASSUME NEW c \in Calls, Register(c) PROVE Stays
    BY <2>6, NoneAssumption DEF Register, Own, TypeInv, TypeOK, Working, At, Servers
  <2>7. ASSUME NEW c \in Calls, NextStop(c) \/ NextRestart(c) \/ NextStart(c) \/ Return(c) \/ Stopped(c)
                                \/ StopTimesOut(c) \/ CheckStart(c) \/ SeesRunning(c) \/ StartFails(c)
                                \/ StartTimesOut(c)
        PROVE  UNCHANGED instances
    BY <2>7 DEF NextStop, NextRestart, BeginStop, NextStart, Return, Stopped, StopTimesOut, CheckStart,
       SeesRunning, StartFails, StartTimesOut
  <2>8. CASE UNCHANGED vars
    BY <2>1, <2>8 DEF vars
  <2> QED
    BY <2>1, <2>2, <2>3, <2>4, <2>5, <2>6, <2>7, <2>8 DEF Next, Step
<1>2. Spec => [][Stays]_vars
  BY <1>1, KeptHolds, PTL DEF Spec
<1> QED
  BY <1>2, PTL DEF RunningStaysListed

-----------------------------------------------------------------------------
(* What a step of a call does, whichever calls overlap it.                 *)

(* The call is in a start, or in the stop of a restart.                    *)
Starts(c) == pc[c] \in {"check", "await", "register"} \/ (At(c, "stopping") /\ again[c])

(* It works off its lists, and starts what it takes from them.             *)
CallFlow(c) ==
  /\ UNCHANGED configByID
  /\ \A d \in Calls : d # c =>
       pc'[d] = pc[d] /\ todo'[d] = todo[d] /\ current'[d] = current[d] /\ again'[d] = again[d]
  /\ todo'[c].stop \subseteq todo[c].stop /\ todo'[c].forget \subseteq todo[c].forget
  /\ todo'[c].restart \subseteq todo[c].restart /\ todo'[c].start \subseteq todo[c].start
  /\ pc[c] \notin {"new", "done"} /\ pc'[c] # "new"
  /\ Starts(c)' =>
       \/ Starts(c) /\ ~ Waits(c) /\ current'[c] = current[c]
       \/ pc[c] = "await" /\ pc'[c] = "register" /\ current'[c] = current[c]
       \/ pc[c] = "next" /\ current'[c] \in todo[c].restart \ todo'[c].restart
       \/ pc[c] = "next" /\ current'[c] \in todo[c].start \ todo'[c].start
  /\ pc'[c] = "await" => pc[c] = "check" /\ current'[c] = current[c]
  /\ pc'[c] = "register" => pc[c] = "await" /\ current'[c] = current[c]

(* Every step of a call is one of CallFlow.                                *)
LEMMA CallSteps ==
  ASSUME TypeInv, NEW c \in Calls, Step(c)
  PROVE  CallFlow(c)
<1>t. /\ todo \in [Calls -> Todo] /\ again \in [Calls -> BOOLEAN]
      /\ pc \in [Calls -> {"new", "next", "stopping", "check", "await", "register", "done"}]
      /\ current \in [Calls -> Ids \cup {None}]
  BY DEF TypeInv, TypeOK, Todo
<1> USE <1>t DEF CallFlow, Starts, Waits, table, servers, helpers, Goto, Fail, At
<1>1. ASSUME NextStop(c) PROVE CallFlow(c)
  <2>1. PICK id \in todo[c].stop : /\ todo' = [todo EXCEPT ![c].stop = @ \ {id}]
                                 /\ BeginStop(c, id, FALSE)
    BY <1>1 DEF NextStop
  <2>2. /\ todo'[c] = [todo[c] EXCEPT !.stop = @ \ {id}]
        /\ \A d \in Calls : d # c => todo'[d] = todo[d]
    BY <2>1 DEF Todo
  <2>3. /\ todo'[c].stop = todo[c].stop \ {id}
        /\ todo'[c].forget = todo[c].forget /\ todo'[c].restart = todo[c].restart /\ todo'[c].start = todo[c].start
    BY <2>2 DEF Todo
  <2>4. /\ todo'[c].stop \subseteq todo[c].stop /\ todo'[c].forget \subseteq todo[c].forget
        /\ todo'[c].restart \subseteq todo[c].restart /\ todo'[c].start \subseteq todo[c].start
    BY <2>3
  <2>5. /\ pc[c] = "next" /\ current' = [current EXCEPT ![c] = id] /\ again' = [again EXCEPT ![c] = FALSE]
        /\ pc'[c] \in {"stopping", "next"}
        /\ \A d \in Calls : d # c => pc'[d] = pc[d]
        /\ UNCHANGED configByID
    BY <1>1, <2>1 DEF NextStop, BeginStop
  <2> QED BY <2>1, <2>2, <2>3, <2>4, <2>5
<1>2. ASSUME Forget(c) PROVE CallFlow(c)
  <2>1. /\ todo'[c] = [todo[c] EXCEPT !.forget = {}]
        /\ \A d \in Calls : d # c => todo'[d] = todo[d]
    BY <1>2 DEF Forget, Todo
  <2>2. /\ todo'[c].forget = {} /\ todo'[c].stop = todo[c].stop
        /\ todo'[c].restart = todo[c].restart /\ todo'[c].start = todo[c].start
    BY <2>1 DEF Todo
  <2> QED BY <1>2, <2>1, <2>2 DEF Forget
<1>3. ASSUME NextRestart(c) PROVE CallFlow(c)
  <2>1. PICK id \in todo[c].restart : /\ todo' = [todo EXCEPT ![c].restart = @ \ {id}]
                                 /\ BeginStop(c, id, TRUE)
    BY <1>3 DEF NextRestart
  <2>2. /\ todo'[c] = [todo[c] EXCEPT !.restart = @ \ {id}]
        /\ \A d \in Calls : d # c => todo'[d] = todo[d]
    BY <2>1 DEF Todo
  <2>3. /\ todo'[c].restart = todo[c].restart \ {id}
        /\ todo'[c].stop = todo[c].stop /\ todo'[c].forget = todo[c].forget /\ todo'[c].start = todo[c].start
    BY <2>2 DEF Todo
  <2>4. /\ todo'[c].stop \subseteq todo[c].stop /\ todo'[c].forget \subseteq todo[c].forget
        /\ todo'[c].restart \subseteq todo[c].restart /\ todo'[c].start \subseteq todo[c].start
    BY <2>3
  <2>5. /\ pc[c] = "next" /\ current' = [current EXCEPT ![c] = id] /\ again' = [again EXCEPT ![c] = TRUE]
        /\ pc'[c] \in {"stopping", "check"}
        /\ \A d \in Calls : d # c => pc'[d] = pc[d]
        /\ UNCHANGED configByID
    BY <1>3, <2>1 DEF NextRestart, BeginStop
  <2> QED BY <2>1, <2>2, <2>3, <2>4, <2>5
<1>4. ASSUME NextStart(c) PROVE CallFlow(c)
  <2>1. PICK id \in todo[c].start : /\ todo' = [todo EXCEPT ![c].start = @ \ {id}]
                                   /\ current' = [current EXCEPT ![c] = id]
    BY <1>4 DEF NextStart
  <2>2. /\ todo'[c] = [todo[c] EXCEPT !.start = @ \ {id}]
        /\ \A d \in Calls : d # c => todo'[d] = todo[d]
    BY <2>1 DEF Todo
  <2>3. /\ todo'[c].start = todo[c].start \ {id} /\ todo'[c].stop = todo[c].stop
        /\ todo'[c].forget = todo[c].forget /\ todo'[c].restart = todo[c].restart
    BY <2>2 DEF Todo
  <2> QED BY <1>4, <2>1, <2>2, <2>3 DEF NextStart
<1>5. ASSUME Return(c) PROVE CallFlow(c)
  BY <1>5 DEF Return
<1>6. ASSUME Stopped(c) PROVE CallFlow(c)
  BY <1>6 DEF Stopped
<1>7. ASSUME StopTimesOut(c) PROVE CallFlow(c)
  <2>1. /\ todo'[c] \in {todo[c], Nothing}
        /\ \A d \in Calls : d # c => todo'[d] = todo[d]
    BY <1>7 DEF StopTimesOut
  <2> QED BY <1>7, <2>1 DEF StopTimesOut, Nothing
<1>8. ASSUME CheckStart(c) PROVE CallFlow(c)
  BY <1>8 DEF CheckStart
<1>12. ASSUME SeesRunning(c) PROVE CallFlow(c)
  BY <1>12 DEF SeesRunning
<1>9. ASSUME Register(c) PROVE CallFlow(c)
  BY <1>9 DEF Register
<1>10. ASSUME StartFails(c) PROVE CallFlow(c)
  BY <1>10 DEF StartFails
<1>11. ASSUME StartTimesOut(c) PROVE CallFlow(c)
  BY <1>11 DEF StartTimesOut
<1> QED BY <1>1, <1>2, <1>3, <1>4, <1>5, <1>6, <1>7, <1>8, <1>9, <1>10, <1>11, <1>12 DEF Step

(* What it does to the table and to the servers that are being closed: it  *)
(* closes what it is to stop before it goes on, and forgets an instance    *)
(* only then.                                                              *)
Registers(c, id) ==
  At(c, "register") /\ id = current[c] /\ instances'[id] = Own(c)
Forgets(c, id) == id \in todo[c].forget /\ todo[c].stop = {} /\ instances'[id] = None
EntryFlow(c) ==
  /\ \A id \in Ids :
       /\ instances'[id] = instances[id] \/ Registers(c, id) \/ Forgets(c, id)
       /\ id \in todo[c].stop /\ id \notin todo'[c].stop =>
            Kind(c) = "shutdown" \/ instances'[id] \in {None} \cup closing'
       /\ id \in todo[c].forget /\ id \notin todo'[c].forget =>
            Kind(c) = "shutdown" \/ instances'[id] = None
  /\ \A s \in displaced' :
       s \in displaced \/ \E id \in Ids : Registers(c, id) /\ instances[id] = s /\ Running(id)
  /\ closing \subseteq closing'
  /\ \A s \in closing' : s \in closing \/ \E id \in Ids : instances[id] = s /\ Running(id)
  /\ syncMu' = syncMu \/ (syncMu = c /\ syncMu' = None /\ todo[c] = Nothing /\ pc'[c] = "done")
  /\ pc'[c] = "done" => syncMu' # c

(* Every step of a call is one of EntryFlow.                               *)
LEMMA EntrySteps ==
  ASSUME TypeInv, NEW c \in Calls, Step(c)
  PROVE  EntryFlow(c)
<1>t. /\ todo \in [Calls -> Todo] /\ instances \in [Ids -> Servers \cup {None}]
      /\ pc \in [Calls -> {"new", "next", "stopping", "check", "await", "register", "done"}]
      /\ None \notin Calls
  BY NoneAssumption DEF TypeInv, TypeOK, Todo
<1>f. CallFlow(c)
  BY CallSteps
<1> USE <1>t DEF EntryFlow, table, servers, helpers, Goto, Fail, At
<1>1. ASSUME NextStop(c) PROVE EntryFlow(c)
  <2>1. PICK id \in todo[c].stop : /\ todo' = [todo EXCEPT ![c].stop = @ \ {id}]
                                 /\ BeginStop(c, id, FALSE)
    BY <1>1 DEF NextStop
  <2>2. /\ \A i \in todo[c].stop : i \notin todo'[c].stop => i = id
        /\ todo'[c].forget = todo[c].forget /\ id \in Ids
    BY <2>1 DEF Todo
  <2>3. /\ UNCHANGED <<instances, syncMu, displaced>> /\ pc'[c] # "done"
        /\ closing' = IF Running(id) THEN closing \cup {instances[id]} ELSE closing
    BY <2>1 DEF BeginStop
  <2> QED BY <2>2, <2>3 DEF Running
<1>2. ASSUME Forget(c) PROVE EntryFlow(c)
  <2>1. todo'[c].stop = todo[c].stop
    BY <1>2 DEF Forget, Todo
  <2> QED BY <1>2, <2>1 DEF Forget, Forgets
<1>3. ASSUME NextRestart(c) PROVE EntryFlow(c)
  <2>1. PICK id \in todo[c].restart : /\ todo' = [todo EXCEPT ![c].restart = @ \ {id}]
                                 /\ BeginStop(c, id, TRUE)
    BY <1>3 DEF NextRestart
  <2>2. /\ \A i \in todo[c].stop : i \notin todo'[c].stop => i = id
        /\ todo'[c].forget = todo[c].forget /\ id \in Ids
    BY <2>1 DEF Todo
  <2>3. /\ UNCHANGED <<instances, syncMu, displaced>> /\ pc'[c] # "done"
        /\ closing' = IF Running(id) THEN closing \cup {instances[id]} ELSE closing
    BY <2>1 DEF BeginStop
  <2> QED BY <2>2, <2>3 DEF Running
<1>4. ASSUME NextStart(c) PROVE EntryFlow(c)
  <2>1. todo'[c].stop = todo[c].stop /\ todo'[c].forget = todo[c].forget
    BY <1>4 DEF NextStart, Todo
  <2> QED BY <1>4, <2>1 DEF NextStart
<1>5. ASSUME Return(c) PROVE EntryFlow(c)
  BY <1>5 DEF Return
<1>6. ASSUME Stopped(c) PROVE EntryFlow(c)
  BY <1>6 DEF Stopped
<1>7. ASSUME StopTimesOut(c) PROVE EntryFlow(c)
  BY <1>7 DEF StopTimesOut
<1>8. ASSUME CheckStart(c) PROVE EntryFlow(c)
  BY <1>8 DEF CheckStart
<1>12. ASSUME SeesRunning(c) PROVE EntryFlow(c)
  BY <1>12 DEF SeesRunning
<1>9. ASSUME Register(c) PROVE EntryFlow(c)
  <2>1. current[c] \in Ids
    BY <1>9 DEF Register, TypeInv, Working
  <2> QED BY <1>9, <2>1, NoneAssumption DEF Register, Registers, Running
<1>10. ASSUME StartFails(c) PROVE EntryFlow(c)
  BY <1>10 DEF StartFails
<1>11. ASSUME StartTimesOut(c) PROVE EntryFlow(c)
  BY <1>11 DEF StartTimesOut
<1> QED BY <1>1, <1>2, <1>3, <1>4, <1>5, <1>6, <1>7, <1>8, <1>9, <1>10, <1>11, <1>12 DEF Step

(* What it does to servers: it makes one, or shuts down the one it waits   *)
(* for, and does not leave a wait before one of the three ends of it.      *)
Makes(c, s) == At(c, "check") /\ s = Own(c) /\ ~ Running(current[c]) /\ phase'[s] = "starting"
               /\ pc'[c] = "await" /\ asked' = asked /\ closing' = closing
GivesUp(c, s) == At(c, "await") /\ s = Own(c) /\ s \in asked' /\ instances' = instances
ServerFlow(c) ==
  /\ \A s \in Servers :
       /\ phase'[s] = phase[s] \/ Makes(c, s) \/ (GivesUp(c, s) /\ phase[s] = "listening" /\ phase'[s] = "closed")
       /\ s \in asked' => s \in asked \/ GivesUp(c, s)
       /\ shutdown'[s] => shutdown[s] \/ s \in asked'
  /\ asked \subseteq asked'
  /\ pc'[c] = "await" => Makes(c, Own(c)) /\ instances' = instances
  /\ pc'[c] = "register" => phase[Own(c)] = "listening" /\ UNCHANGED <<servers, instances, closing>>
  /\ pc[c] = "await" =>
       pc'[c] = "register" \/ phase'[Own(c)] = "exited" \/ Own(c) \in asked'
  /\ pc[c] = "register" => Registers(c, current[c])

(* Every step of a call is one of ServerFlow.                              *)
LEMMA ServerFlows ==
  ASSUME TypeInv, NEW c \in Calls, Step(c)
  PROVE  ServerFlow(c)
<1>t. /\ phase \in [Servers -> ServerPhases] /\ shutdown \in [Servers -> BOOLEAN]
      /\ instances \in [Ids -> Servers \cup {None}]
      /\ pc \in [Calls -> {"new", "next", "stopping", "check", "await", "register", "done"}]
      /\ current \in [Calls -> Ids \cup {None}]
  BY DEF TypeInv, TypeOK
<1>w. pc[c] \in {"check", "await", "register"} => current[c] \in Ids /\ Own(c) \in Servers
  BY DEF TypeInv, Working, Own, Servers
<1> USE <1>t DEF ServerFlow, table, servers, helpers, local, Goto, Fail, At
<1>1. ASSUME NextStop(c) PROVE ServerFlow(c)
  <2>1. UNCHANGED servers /\ pc[c] = "next" /\ pc'[c] \notin {"await", "register"}
    BY <1>1 DEF NextStop, BeginStop
  <2> QED BY <2>1
<1>2. ASSUME Forget(c) PROVE ServerFlow(c)
  BY <1>2 DEF Forget
<1>3. ASSUME NextRestart(c) PROVE ServerFlow(c)
  <2>1. UNCHANGED servers /\ pc[c] = "next" /\ pc'[c] \notin {"await", "register"}
    BY <1>3 DEF NextRestart, BeginStop
  <2> QED BY <2>1
<1>4. ASSUME NextStart(c) PROVE ServerFlow(c)
  BY <1>4 DEF NextStart
<1>5. ASSUME Return(c) PROVE ServerFlow(c)
  BY <1>5 DEF Return
<1>6. ASSUME Stopped(c) PROVE ServerFlow(c)
  BY <1>6 DEF Stopped
<1>7. ASSUME StopTimesOut(c) PROVE ServerFlow(c)
  BY <1>7 DEF StopTimesOut
<1>8. ASSUME CheckStart(c) PROVE ServerFlow(c)
  <2>1. CASE configByID[current[c]] = None \/ Running(current[c])
    BY <1>8, <2>1 DEF CheckStart
  <2>2. CASE ~ (configByID[current[c]] = None \/ Running(current[c]))
    BY <1>8, <1>w, <2>2 DEF CheckStart, Makes, Own
  <2> QED BY <2>1, <2>2
<1>12. ASSUME SeesRunning(c) PROVE ServerFlow(c)
  BY <1>12, <1>w DEF SeesRunning, IsRunning
<1>9. ASSUME Register(c) PROVE ServerFlow(c)
  BY <1>9, <1>w DEF Register, Registers
<1>10. ASSUME StartFails(c) PROVE ServerFlow(c)
  BY <1>10, <1>w DEF StartFails
<1>11. ASSUME StartTimesOut(c) PROVE ServerFlow(c)
  BY <1>11, <1>w DEF StartTimesOut, Shutdown, GivesUp, IsRunning
<1> QED BY <1>1, <1>2, <1>3, <1>4, <1>5, <1>6, <1>7, <1>8, <1>9, <1>10, <1>11, <1>12 DEF Step

(* A server, or its watcher, moves on by itself.                           *)
ServerMoves(s) == Listen(s) \/ Exit(s) \/ Die(s) \/ WatchServerExit(s) \/ RunShutdown(s)
PhaseStep(t) ==
  \/ phase'[t] = phase[t]
  \/ phase[t] = "starting" /\ phase'[t] \in {"listening", "exited"}
  \/ phase[t] \in {"closed", "listening"} /\ phase'[t] = "exited"
  \/ phase[t] = "listening" /\ phase'[t] = "closed" /\ t \in asked'
SelfFlow ==
  /\ UNCHANGED <<configByID, syncMu, local, displaced>>
  /\ \A id \in Ids : instances'[id] \in {instances[id], None}
  /\ \A t \in Servers :
       /\ PhaseStep(t)
       /\ t \in asked' => t \in asked \/ (t \in closing /\ (phase'[t] # "listening" \/ shutdown[t]))
       /\ shutdown'[t] => shutdown[t] \/ t \in asked'
       /\ t \in closing => t \in closing' \/ t \in asked'
       /\ \A id \in Ids : instances[id] = t /\ instances'[id] # t => phase[t] = "exited"
  /\ asked \subseteq asked' /\ closing' \subseteq closing

(* Every step of a server or of its watcher is one of SelfFlow.            *)
LEMMA SelfSteps ==
  ASSUME TypeInv, NEW s \in Servers, ServerMoves(s)
  PROVE  SelfFlow
<1>t. /\ phase \in [Servers -> ServerPhases] /\ shutdown \in [Servers -> BOOLEAN]
      /\ instances \in [Ids -> Servers \cup {None}]
  BY DEF TypeInv, TypeOK
<1> USE <1>t DEF SelfFlow, PhaseStep, table, servers, helpers
<1>1. ASSUME Listen(s) PROVE SelfFlow
  BY <1>1 DEF Listen
<1>2. ASSUME Exit(s) PROVE SelfFlow
  BY <1>2 DEF Exit
<1>3. ASSUME Die(s) PROVE SelfFlow
  BY <1>3 DEF Die
<1>4. ASSUME WatchServerExit(s) PROVE SelfFlow
  BY <1>4 DEF WatchServerExit
<1>5. ASSUME RunShutdown(s) PROVE SelfFlow
  BY <1>5 DEF RunShutdown, Shutdown, IsRunning
<1> QED BY <1>1, <1>2, <1>3, <1>4, <1>5 DEF ServerMoves

(* A call begins with its lists, and only an apply changes the             *)
(* configuration, under syncMu.                                            *)
Applies(c) ==
  /\ Kind(c) = "apply" /\ syncMu = None /\ syncMu' = c
  /\ configByID' \in [Ids -> Config \cup {None}] /\ todo'[c] = Changes(configByID')
BeginFlow(c) ==
  /\ UNCHANGED <<instances, servers, helpers, current, target, again, failed, displaced>>
  /\ pc[c] = "new" /\ pc'[c] = "next"
  /\ \A d \in Calls : d # c => pc'[d] = pc[d] /\ todo'[d] = todo[d]
  /\ Applies(c) \/ (Kind(c) # "apply" /\ UNCHANGED <<configByID, syncMu>>)
  /\ todo'[c].start \cap todo'[c].restart = {}
  /\ Kind(c) = "shutdown" =>
       todo'[c].forget = {} /\ todo'[c].restart = {} /\ todo'[c].start = {}

(* Every call begins with a step of BeginFlow.                             *)
LEMMA BeginSteps ==
  ASSUME TypeInv, NEW c \in Calls, Begin(c)
  PROVE  BeginFlow(c)
<1>t. /\ todo \in [Calls -> Todo]
      /\ pc \in [Calls -> {"new", "next", "stopping", "check", "await", "register", "done"}]
  BY DEF TypeInv, TypeOK, Todo
<1> USE <1>t DEF BeginFlow, table, Goto, At
<1>1. ASSUME BeginAction(c) PROVE BeginFlow(c)
  <2>1. /\ UNCHANGED <<instances, servers, helpers, current, target, again, failed, displaced, configByID, syncMu>>
        /\ Kind(c) \in {"start", "stop", "restart"}
        /\ pc' = [pc EXCEPT ![c] = "next"] /\ pc[c] = "new"
        /\ todo' = [todo EXCEPT ![c] = [Nothing EXCEPT ![Kind(c)] = {IdOf[c]}]]
    BY <1>1 DEF BeginAction
  <2>2. [Nothing EXCEPT ![Kind(c)] = {IdOf[c]}].start \cap [Nothing EXCEPT ![Kind(c)] = {IdOf[c]}].restart = {}
    BY <2>1 DEF Nothing
  <2> QED BY <2>1, <2>2
<1>2. ASSUME BeginShutdown(c) PROVE BeginFlow(c)
  <2>1. /\ UNCHANGED <<instances, servers, helpers, current, target, again, failed, displaced, configByID, syncMu>>
        /\ Kind(c) = "shutdown"
        /\ pc' = [pc EXCEPT ![c] = "next"] /\ pc[c] = "new"
        /\ todo' = [todo EXCEPT ![c] = [Nothing EXCEPT !.stop = Ids]]
    BY <1>2 DEF BeginShutdown
  <2>2. \A f \in {"forget", "restart", "start"} : [Nothing EXCEPT !.stop = Ids][f] = {}
    BY DEF Nothing
  <2> QED BY <2>1, <2>2
<1>3. ASSUME BeginApply(c) PROVE BeginFlow(c)
  <2>1. /\ UNCHANGED <<instances, servers, helpers, current, target, again, failed, displaced>>
        /\ Kind(c) = "apply" /\ syncMu = None /\ syncMu' = c
        /\ pc' = [pc EXCEPT ![c] = "next"] /\ pc[c] = "new"
    BY <1>3 DEF BeginApply
  <2>2. PICK plan \in Plans : configByID' = plan /\ todo' = [todo EXCEPT ![c] = Changes(plan)]
    BY <1>3 DEF BeginApply
  <2>3. plan \in [Ids -> Config \cup {None}]
    BY PlanAssumption
  <2>4. Changes(plan).start \cap Changes(plan).restart = {}
    BY DEF Changes
  <2> QED BY <2>1, <2>2, <2>3, <2>4 DEF Applies
<1> QED BY <1>1, <1>2, <1>3 DEF Begin

-----------------------------------------------------------------------------
(* A server is made once, and a registered one has been born.              *)
Born ==
  /\ \A s \in asked \cup closing : phase[s] # "unborn"
  /\ \A c \in Calls : Waits(c) => phase[Own(c)] # "unborn"
  /\ \A s \in Servers : shutdown[s] => s \in asked
Registered ==
  \A id \in Ids : Running(id) =>
    /\ phase[instances[id]] \in {"listening", "closed", "exited"}
    /\ instances[id] \in asked => phase[instances[id]] \in {"closed", "exited"}
Fresh(c) ==
  /\ todo[c].start \cap todo[c].restart = {}
  /\ \A id \in todo[c].start \cup todo[c].restart :
       phase[<<c, id>>] = "unborn" /\ (Starts(c) => id # current[c])
  /\ Starts(c) /\ ~ Waits(c) => phase[Own(c)] = "unborn"
  /\ pc[c] = "register" => phase[Own(c)] \in {"listening", "closed", "exited"}
  /\ Waits(c) =>
       Own(c) \notin asked \cup closing /\ \A id \in Ids : instances[id] # Own(c)
  /\ pc[c] = "new" => \A id \in Ids : phase[<<c, id>>] = "unborn"
LifeInv == Born /\ Registered /\ \A c \in Calls : Fresh(c)

(* LifeInv is kept by servers and watchers,                                *)
LEMMA LifeOfSelf ==
  ASSUME TypeInv, TypeInv', LifeInv, SelfFlow
  PROVE  LifeInv'
<1>t. /\ asked' \subseteq Servers /\ closing' \subseteq Servers /\ asked \subseteq Servers
      /\ closing \subseteq Servers /\ instances \in [Ids -> Servers \cup {None}]
      /\ instances' \in [Ids -> Servers \cup {None}] /\ todo \in [Calls -> Todo]
      /\ \A c \in Calls : Starts(c) => current[c] \in Ids
  BY DEF TypeInv, TypeOK, Working, Starts, At, Todo
<1>l. pc' = pc /\ todo' = todo /\ current' = current /\ again' = again
  BY DEF SelfFlow, local
<1>1. Born'
  <2>1. \A s \in Servers : phase[s] # "unborn" => phase'[s] # "unborn"
    BY DEF SelfFlow, PhaseStep
  <2>2. \A c \in Calls : Waits(c) => Own(c) \in Servers
    BY <1>t DEF Own, Servers, Starts, Waits
  <2> QED BY <1>t, <1>l, <2>1, <2>2 DEF SelfFlow, LifeInv, Born, Own, Waits
<1>2. Registered'
  <2> SUFFICES ASSUME NEW id \in Ids, instances'[id] # None
               PROVE  /\ phase'[instances'[id]] \in {"listening", "closed", "exited"}
                      /\ instances'[id] \in asked' => phase'[instances'[id]] \in {"closed", "exited"}
    BY DEF Registered, Running
  <2> DEFINE s == instances[id]
  <2>1. instances'[id] = s /\ s \in Servers /\ s # None
    BY <1>t DEF SelfFlow
  <2>2. phase[s] \in {"listening", "closed", "exited"} /\ (s \in asked => phase[s] \in {"closed", "exited"})
    BY <2>1 DEF LifeInv, Registered, Running
  <2>3. PhaseStep(s) /\ (s \in asked' => s \in asked \/ phase'[s] # "listening" \/ shutdown[s])
    BY <2>1 DEF SelfFlow
  <2>4. shutdown[s] => s \in asked
    BY <2>1 DEF LifeInv, Born
  <2> HIDE DEF s
  <2> QED BY <2>1, <2>2, <2>3, <2>4 DEF PhaseStep
<1>3. ASSUME NEW c \in Calls PROVE Fresh(c)'
  <2>1. \A s \in Servers : phase[s] = "unborn" => phase'[s] = "unborn"
    BY DEF SelfFlow, PhaseStep
  <2>2. Fresh(c) /\ \A id \in Ids : <<c, id>> \in Servers
    BY DEF LifeInv, Servers
  <2>3. Starts(c) => Own(c) \in Servers
    BY <1>t DEF Own, Servers
  <2>4. todo[c].start \cup todo[c].restart \subseteq Ids
    BY <1>t DEF Todo
  <2>5. Own(c) \notin asked \cup closing /\ Own(c) \in Servers => Own(c) \notin asked' \cup closing'
    BY DEF SelfFlow
  <2>6. Own(c) \in Servers /\ (\A id \in Ids : instances[id] # Own(c))
          => \A id \in Ids : instances'[id] # Own(c)
    BY NoneAssumption DEF SelfFlow
  <2>7. /\ Waits(c)' <=> Waits(c)
        /\ Starts(c)' <=> Starts(c)
        /\ Own(c)' = Own(c) /\ (Waits(c) => Starts(c))
    BY <1>l DEF Waits, Starts, Own, At
  <2>8. pc[c] = "register" => phase'[Own(c)] \in {"listening", "closed", "exited"}
    <3>1. pc[c] = "register" => Waits(c) /\ Own(c) \in Servers
      BY <2>3, <2>7 DEF Waits
    <3> QED BY <2>2, <3>1 DEF SelfFlow, PhaseStep, Fresh
  <2> QED BY <1>l, <2>1, <2>2, <2>3, <2>4, <2>5, <2>6, <2>7, <2>8 DEF Fresh
<1> QED BY <1>1, <1>2, <1>3 DEF LifeInv

(* by the beginning of a call,                                             *)
LEMMA LifeOfBegin ==
  ASSUME TypeInv, LifeInv, NEW c \in Calls, BeginFlow(c), todo' \in [Calls -> Todo]
  PROVE  LifeInv'
<1>1. Born' /\ Registered'
  BY DEF LifeInv, Born, Registered, Running, BeginFlow, servers, helpers, Own, Waits
<1>2. ASSUME NEW d \in Calls PROVE Fresh(d)'
  <2>1. CASE d = c
    <3>1. \A id \in Ids : phase[<<c, id>>] = "unborn"
      BY DEF LifeInv, Fresh, BeginFlow
    <3>2. todo'[c].start \subseteq Ids /\ todo'[c].restart \subseteq Ids
      BY DEF Todo
    <3> QED BY <2>1, <3>1, <3>2 DEF BeginFlow, Fresh, Starts, Waits, At, servers
  <2>2. CASE d # c
    BY <2>2 DEF LifeInv, BeginFlow, Fresh, Starts, Waits, At, servers, helpers, Own
  <2> QED BY <2>1, <2>2
<1> QED BY <1>1, <1>2 DEF LifeInv

(* and by its steps.                                                       *)
LEMMA LifeOfStep ==
  ASSUME TypeInv, TypeInv', Entries, LifeInv, NEW c \in Calls, CallFlow(c), EntryFlow(c), ServerFlow(c)
  PROVE  LifeInv'
<1>t. /\ asked' \subseteq Servers /\ closing' \subseteq Servers
      /\ instances \in [Ids -> Servers \cup {None}] /\ instances' \in [Ids -> Servers \cup {None}]
      /\ todo \in [Calls -> Todo] /\ todo' \in [Calls -> Todo]
      /\ \A d \in Calls : Starts(d) => current[d] \in Ids /\ Own(d) \in Servers
      /\ \A d \in Calls : Starts(d)' => current'[d] \in Ids /\ Own(d)' \in Servers
  BY DEF TypeInv, TypeOK, Working, Starts, At, Todo, Own, Servers
<1>o. \A d \in Calls : d # c => /\ pc'[d] = pc[d] /\ Own(d)' = Own(d) /\ (Starts(d)' <=> Starts(d)) /\ (Waits(d)' <=> Waits(d))
                               /\ todo'[d] = todo[d] /\ current'[d] = current[d]
  BY DEF CallFlow, Own, Starts, Waits, At
<1>a. Waits(c) =>
        Own(c) \notin asked \cup closing /\ \A id \in Ids : instances[id] # Own(c)
  BY DEF LifeInv, Fresh
<1>p. \A s \in Servers : phase'[s] = "unborn" => phase[s] = "unborn"
  BY DEF ServerFlow, Makes
<1>1. Born'
  <2>1. ASSUME NEW s \in asked' \cup closing' PROVE phase'[s] # "unborn"
    <3>1. CASE s \in asked \cup closing
      BY <1>t, <1>p, <3>1 DEF LifeInv, Born
    <3>2. CASE s \in asked' /\ s \notin asked
      <4>1. Waits(c) /\ s = Own(c)
        BY <1>t, <3>2 DEF ServerFlow, GivesUp, Waits, At
      <4> QED BY <1>t, <1>p, <4>1 DEF LifeInv, Born
    <3>3. CASE s \in closing' /\ s \notin closing
      <4>1. PICK id \in Ids : instances[id] = s /\ Running(id)
        BY <3>3 DEF EntryFlow
      <4> QED BY <1>t, <1>p, <3>3, <4>1 DEF LifeInv, Registered
    <3> QED BY <3>1, <3>2, <3>3
  <2>2. ASSUME NEW d \in Calls, Waits(d)' PROVE phase'[Own(d)'] # "unborn"
    <3>1. CASE d = c
      BY <2>2, <3>1 DEF ServerFlow, Makes, CallFlow, Own, Waits, servers
    <3>2. CASE d # c
      BY <1>o, <1>t, <1>p, <2>2, <3>2 DEF LifeInv, Born, Starts, Waits
    <3> QED BY <3>1, <3>2
  <2>3. \A s \in Servers : shutdown'[s] => s \in asked'
    BY DEF LifeInv, Born, ServerFlow
  <2> QED BY <2>1, <2>2, <2>3 DEF Born
<1>2. Registered'
  <2> SUFFICES ASSUME NEW id \in Ids, instances'[id] # None
               PROVE  /\ phase'[instances'[id]] \in {"listening", "closed", "exited"}
                      /\ instances'[id] \in asked' => phase'[instances'[id]] \in {"closed", "exited"}
    BY DEF Registered, Running
  <2>1. CASE Registers(c, id)
    <3>1. /\ instances'[id] = Own(c) /\ pc[c] = "register"
          /\ phase[Own(c)] \in {"listening", "closed", "exited"}
          /\ Own(c) \in Servers /\ Own(c) \notin asked
      BY <1>a, <1>t, <2>1 DEF Registers, At, Starts, Waits, LifeInv, Fresh
    <3>2. phase'[Own(c)] = phase[Own(c)] /\ Own(c) \notin asked'
      BY <1>a, <3>1 DEF ServerFlow, Makes, GivesUp, At
    <3> QED BY <3>1, <3>2
  <2>2. CASE instances'[id] = instances[id]
    <3> DEFINE s == instances[id]
    <3>1. /\ s \in Servers /\ phase[s] \in {"listening", "closed", "exited"}
          /\ s \in asked => phase[s] \in {"closed", "exited"}
      BY <1>t, <2>2 DEF LifeInv, Registered, Running
    <3>2. ~ Makes(c, s)
      <4>1. s[2] = id
        BY <2>2 DEF Entries
      <4> QED BY <2>2, <4>1 DEF Makes, Own, Running
    <3>3. phase'[s] = phase[s] \/ phase'[s] = "closed"
      BY <3>1, <3>2 DEF ServerFlow
    <3>4. s \in asked' => s \in asked
      BY <1>a, <2>2, <3>1 DEF ServerFlow, GivesUp, Waits, At
    <3> QED BY <2>2, <3>1, <3>3, <3>4
  <2>3. ~ Forgets(c, id)
    BY DEF Forgets
  <2> QED BY <2>1, <2>2, <2>3 DEF EntryFlow
<1>3. ASSUME NEW d \in Calls, d # c PROVE Fresh(d)'
  <2>1. Fresh(d) /\ \A id \in Ids : <<d, id>> \in Servers /\ <<d, id>> # Own(c)
    BY <1>3 DEF LifeInv, Servers, Own
  <2>2. \A s \in Servers : s # Own(c) =>
          /\ phase'[s] = phase[s] /\ (s \in asked' => s \in asked)
          /\ (\A id \in Ids : instances[id] # s) => \A id \in Ids : instances'[id] # s
    BY NoneAssumption DEF ServerFlow, Makes, GivesUp, EntryFlow, Registers, Forgets
  <2>3. Starts(d) => current[d] \in Ids /\ Own(d) \in Servers /\ Own(d) # Own(c)
    BY <1>3, <1>t DEF Own
  <2>4. Own(d) \in Servers /\ (\A id \in Ids : instances[id] # Own(d)) /\ Own(d) \notin closing
          => Own(d) \notin closing'
    BY DEF EntryFlow
  <2>5. todo[d].start \cup todo[d].restart \subseteq Ids
    BY <1>t DEF Todo
  <2>6. (Waits(d) => Starts(d)) /\ (pc[d] = "register" => Waits(d))
    BY DEF Starts, Waits
  <2> QED BY <1>o, <1>3, <2>1, <2>2, <2>3, <2>4, <2>5, <2>6 DEF Fresh
<1>4. Fresh(c)'
  <2>0. Fresh(c)
    BY DEF LifeInv
  <2>1. /\ todo'[c].restart \subseteq todo[c].restart /\ todo'[c].start \subseteq todo[c].start
        /\ todo[c].start \cup todo[c].restart \subseteq Ids
    BY <1>t DEF CallFlow, Todo
  <2>2. /\ todo'[c].start \cap todo'[c].restart = {}
        /\ \A id \in todo'[c].start \cup todo'[c].restart : Starts(c)' => id # current'[c]
    BY <2>0, <2>1 DEF Fresh, CallFlow, Starts
  <2>3. ASSUME NEW id \in Ids, phase[<<c, id>>] = "unborn", ~ Makes(c, <<c, id>>)
        PROVE  phase'[<<c, id>>] = "unborn"
    BY <2>3 DEF ServerFlow, Servers
  <2>4. ASSUME NEW id \in todo'[c].start \cup todo'[c].restart PROVE phase'[<<c, id>>] = "unborn"
    <3>1. id \in Ids /\ phase[<<c, id>>] = "unborn" /\ (Starts(c) => id # current[c])
      BY <2>0, <2>1, <2>4 DEF Fresh
    <3>2. ~ Makes(c, <<c, id>>)
      BY <3>1 DEF Makes, Own, Starts, At
    <3> QED BY <2>3, <3>1, <3>2
  <2>5. ASSUME Starts(c)', ~ Waits(c)' PROVE phase'[Own(c)'] = "unborn"
    <3>1. current'[c] \in Ids /\ ~ Makes(c, Own(c)') /\ pc'[c] # "register"
      BY <1>t, <2>5 DEF Makes, Waits
    <3>2. phase[<<c, current'[c]>>] = "unborn"
      <4>1. CASE Starts(c) /\ ~ Waits(c) /\ current'[c] = current[c]
        BY <2>0, <4>1 DEF Fresh, Own
      <4>2. CASE current'[c] \in todo[c].restart \cup todo[c].start
        BY <2>0, <4>2 DEF Fresh
      <4> QED BY <2>5, <3>1, <4>1, <4>2 DEF CallFlow
    <3> QED BY <2>3, <3>1, <3>2 DEF Own
  <2>8. ASSUME pc'[c] = "register"
        PROVE  /\ phase'[Own(c)'] \in {"listening", "closed", "exited"}
               /\ Own(c)' \notin asked' \cup closing' /\ \A id \in Ids : instances'[id] # Own(c)'
    <3>1. /\ Own(c)' = Own(c) /\ Waits(c) /\ phase[Own(c)] = "listening"
          /\ phase' = phase /\ asked' = asked /\ closing' = closing /\ instances' = instances
      BY <2>8 DEF CallFlow, ServerFlow, Waits, Own, servers
    <3> QED BY <1>a, <3>1
  <2>6. ASSUME pc'[c] = "await"
        PROVE  Own(c)' \notin asked' \cup closing' /\ \A id \in Ids : instances'[id] # Own(c)'
    <3>1. /\ Own(c)' = Own(c) /\ Starts(c) /\ pc[c] = "check" /\ phase[Own(c)] = "unborn"
          /\ asked' = asked /\ closing' = closing /\ instances' = instances /\ Own(c) \in Servers
      BY <1>t, <2>0, <2>6 DEF CallFlow, ServerFlow, Makes, Starts, Waits, Fresh, Own
    <3>2. \A id \in Ids : instances[id] # Own(c)
      BY <3>1, NoneAssumption DEF LifeInv, Registered, Running
    <3> QED BY <3>1, <3>2 DEF LifeInv, Born
  <2>7. pc'[c] # "new"
    BY DEF CallFlow
  <2> QED BY <2>2, <2>4, <2>5, <2>6, <2>7, <2>8 DEF Fresh, Waits
<1> QED BY <1>1, <1>2, <1>3, <1>4 DEF LifeInv

(* LifeInv holds whatever calls overlap.                                   *)
LEMMA LifeHolds == Spec => []LifeInv
<1>1. Init => LifeInv
  <2> SUFFICES ASSUME Init PROVE LifeInv
    OBVIOUS
  <2>1. Born
    BY DEF Init, Born, Waits
  <2>2. Registered
    BY DEF Init, Registered, Running
  <2>3. ASSUME NEW c \in Calls PROVE Fresh(c)
    BY DEF Init, Fresh, Nothing, Starts, Waits, At, Servers
  <2> QED BY <2>1, <2>2, <2>3 DEF LifeInv
<1>2. TypeInv /\ TypeInv' /\ Entries /\ LifeInv /\ [Next]_vars => LifeInv'
  <2> SUFFICES ASSUME TypeInv, TypeInv', Entries, LifeInv, [Next]_vars PROVE LifeInv'
    OBVIOUS
  <2>1. ASSUME NEW s \in Servers, ServerMoves(s) PROVE LifeInv'
    BY <2>1, SelfSteps, LifeOfSelf
  <2>2. ASSUME NEW c \in Calls, Begin(c) PROVE LifeInv'
    BY <2>2, BeginSteps, LifeOfBegin DEF TypeInv, TypeOK, Todo
  <2>3. ASSUME NEW c \in Calls, Step(c) PROVE LifeInv'
    BY <2>3, CallSteps, EntrySteps, ServerFlows, LifeOfStep
  <2>4. CASE UNCHANGED vars
    BY <2>4 DEF vars, table, servers, helpers, local, LifeInv, Born, Registered, Running, Fresh, Starts,
       Waits, Own, At
  <2> QED BY <2>1, <2>2, <2>3, <2>4 DEF Next, ServerMoves
<1> QED BY <1>1, <1>2, Typed, EntriesHold, PTL DEF Spec

-----------------------------------------------------------------------------
(* Syncs and the final shutdown, without actions on single instances.      *)
OnlySyncs == \A c \in Calls : pc[c] = "new" \/ Kind(c) \in {"apply", "shutdown"}

(* Syncs run one at a time, and a shutdown only stops.                     *)
OneSync ==
  /\ \A c \in Calls : Kind(c) = "apply" /\ pc[c] \notin {"new", "done"} => syncMu = c
  /\ syncMu # None => Kind(syncMu) = "apply" /\ pc[syncMu] \notin {"new", "done"}
  /\ \A c \in Calls : Kind(c) = "shutdown" /\ pc[c] # "new" =>
       ~ Starts(c) /\ todo[c].forget = {} /\ todo[c].restart = {} /\ todo[c].start = {}

(* The sync under way starts what the configuration enables, and forgets   *)
(* what it does not hold; nobody else registers a server meanwhile.        *)
Planned(c) ==
  /\ \A id \in todo[c].start \cup todo[c].restart : Enabled(configByID, id)
  /\ \A id \in todo[c].forget : configByID[id] = None
  /\ Starts(c) => Enabled(configByID, current[c])
  /\ Waits(c) => instances[current[c]] = None

(* A server that listens or will is registered, awaited or about to be     *)
(* closed.                                                                 *)
Awaited(s) == Waits(s[1]) /\ Own(s[1]) = s
Owned ==
  \A s \in Servers :
    /\ phase[s] = "starting" /\ s \notin asked => pc[s[1]] = "await" /\ Own(s[1]) = s
    /\ phase[s] = "listening" /\ s \notin asked =>
         instances[s[2]] = s \/ Awaited(s) \/ s \in closing

(* A registered server is wanted, unless the sync under way will stop it;  *)
(* its instance is configured, unless that sync will forget it.            *)
ToDo == IF syncMu = None THEN Nothing ELSE todo[syncMu]
Wanted ==
  \A id \in Ids : Running(id) =>
    /\ instances[id] \notin closing \cup asked => Enabled(configByID, id) \/ id \in ToDo.stop
    /\ configByID[id] # None \/ id \in ToDo.forget

SyncInv == OneSync /\ (syncMu # None => Planned(syncMu)) /\ Owned /\ Wanted /\ displaced = {}

(* SyncInv is kept by servers and watchers,                                *)
LEMMA SyncOfSelf ==
  ASSUME TypeInv, SyncInv, SelfFlow
  PROVE  SyncInv'
<1>t. /\ syncMu \in Calls \cup {None} /\ instances \in [Ids -> Servers \cup {None}]
      /\ \A c \in Calls : Starts(c) => current[c] \in Ids
  BY DEF TypeInv, TypeOK, Working, Starts, At
<1>l. /\ pc' = pc /\ todo' = todo /\ current' = current /\ again' = again
      /\ configByID' = configByID /\ syncMu' = syncMu
  BY DEF SelfFlow, local
<1>1. OneSync'
  BY <1>l DEF SyncInv, OneSync, Starts, At
<1>2. syncMu' # None => Planned(syncMu)'
  BY <1>t, <1>l DEF SyncInv, SelfFlow, Planned, Starts, Waits, At, Enabled
<1>3. Owned'
  <2> SUFFICES ASSUME NEW s \in Servers, s \notin asked'
               PROVE  /\ phase'[s] = "starting" => pc[s[1]] = "await" /\ Own(s[1]) = s
                      /\ phase'[s] = "listening" => instances'[s[2]] = s \/ Awaited(s) \/ s \in closing'
    BY <1>l DEF Owned, Awaited, Waits, Own
  <2>1. /\ s \notin asked /\ PhaseStep(s) /\ (s \in closing => s \in closing')
        /\ instances[s[2]] = s => instances'[s[2]] = s \/ phase[s] = "exited"
    BY DEF SelfFlow, Servers
  <2> QED BY <2>1 DEF SyncInv, Owned, Awaited, Waits, PhaseStep
<1>4. Wanted'
  <2>1. \A id \in Ids : instances'[id] # None => instances'[id] = instances[id] /\ instances[id] \in Servers
    BY <1>t DEF SelfFlow
  <2>2. \A s \in Servers : s \notin closing' \cup asked' => s \notin closing \cup asked
    BY DEF SelfFlow
  <2> QED BY <1>l, <2>1, <2>2 DEF SyncInv, Wanted, Running, Enabled, ToDo
<1> QED BY <1>1, <1>2, <1>3, <1>4 DEF SyncInv, SelfFlow

(* by the beginning of a sync or of the shutdown,                          *)
LEMMA SyncOfBegin ==
  ASSUME TypeInv, SyncInv, NEW c \in Calls, BeginFlow(c), Kind(c) \in {"apply", "shutdown"}
  PROVE  SyncInv'
<1>t. syncMu \in Calls \cup {None} /\ None \notin Calls /\ instances \in [Ids -> Servers \cup {None}]
      /\ configByID \in [Ids -> Config \cup {None}] /\ None \notin Config
  BY NoneAssumption DEF TypeInv, TypeOK
<1>o. \A d \in Calls : d # c => pc'[d] = pc[d] /\ todo'[d] = todo[d] /\ (Starts(d)' <=> Starts(d))
                            /\ (Waits(d)' <=> Waits(d))
  BY DEF BeginFlow, Starts, Waits, At
<1>c. pc[c] = "new" /\ pc'[c] = "next" /\ ~ Starts(c)' /\ ~ Waits(c)'
  BY DEF BeginFlow, Starts, Waits, At
<1>3. Owned'
  <2>1. UNCHANGED <<instances, phase, asked, closing, current>>
    BY DEF BeginFlow, servers, helpers
  <2>2. \A s \in Servers : Awaited(s) => Awaited(s)'
    BY <1>c, <1>o, <2>1 DEF Awaited, Waits, Own, Servers
  <2> QED BY <1>c, <1>o, <2>1, <2>2 DEF SyncInv, Owned, Own, Servers
<1>d. displaced' = {}
  BY DEF SyncInv, BeginFlow
<1>1. CASE Kind(c) = "apply"
  <2>1. syncMu = None /\ syncMu' = c /\ todo'[c] = Changes(configByID') /\ Applies(c)
    BY <1>1 DEF BeginFlow, Applies
  <2>2. OneSync'
    BY <1>1, <1>c, <1>o, <1>t, <2>1 DEF SyncInv, OneSync
  <2>3. Planned(c)'
    BY <1>c, <2>1 DEF Planned, Changes
  <2>4. Wanted'
    <3> SUFFICES ASSUME NEW id \in Ids, instances[id] # None
                 PROVE  /\ Enabled(configByID', id) \/ id \in todo'[c].stop
                        /\ configByID'[id] # None \/ id \in todo'[c].forget
      BY <1>t, <2>1 DEF Wanted, Running, ToDo, BeginFlow, Enabled
    <3>1. configByID[id] # None
      BY <2>1 DEF SyncInv, Wanted, Running, ToDo, Nothing
    <3> QED BY <2>1, <3>1 DEF Changes, Running, Enabled
  <2> QED BY <1>d, <1>3, <2>1, <2>2, <2>3, <2>4 DEF SyncInv
<1>2. CASE Kind(c) = "shutdown"
  <2>1. syncMu' = syncMu /\ configByID' = configByID /\ UNCHANGED <<instances, asked, closing, current>>
    BY <1>2 DEF BeginFlow, Applies, servers, helpers
  <2>2. syncMu # c
    BY <1>c, <1>t DEF SyncInv, OneSync
  <2>3. OneSync'
    BY <1>2, <1>c, <1>o, <1>t, <2>1, <2>2 DEF SyncInv, OneSync, BeginFlow
  <2>4. syncMu' # None => Planned(syncMu)'
    BY <1>o, <1>t, <2>1, <2>2 DEF SyncInv, Planned, Enabled
  <2>5. Wanted'
    BY <1>o, <1>t, <2>1, <2>2 DEF SyncInv, Wanted, Running, ToDo, Enabled
  <2> QED BY <1>d, <1>3, <2>1, <2>3, <2>4, <2>5 DEF SyncInv
<1> QED BY <1>1, <1>2

(* and by their steps.                                                     *)
LEMMA SyncOfStep ==
  ASSUME TypeInv, SyncInv, NEW c \in Calls, Kind(c) \in {"apply", "shutdown"},
         CallFlow(c), EntryFlow(c), ServerFlow(c)
  PROVE  SyncInv'
<1>t. syncMu \in Calls \cup {None} /\ None \notin Calls /\ instances \in [Ids -> Servers \cup {None}]
      /\ None \notin Servers /\ todo \in [Calls -> Todo]
      /\ \A d \in Calls : Starts(d) => current[d] \in Ids /\ Own(d) \in Servers
  BY NoneAssumption DEF TypeInv, TypeOK, Todo, Working, Starts, At, Own, Servers
<1>o. \A d \in Calls : d # c =>
        /\ pc'[d] = pc[d] /\ todo'[d] = todo[d] /\ current'[d] = current[d] /\ Own(d)' = Own(d)
        /\ (Starts(d)' <=> Starts(d)) /\ (Waits(d)' <=> Waits(d))
  BY DEF CallFlow, Starts, Waits, At, Own
<1>m. syncMu' = syncMu \/ (syncMu = c /\ syncMu' = None /\ todo[c] = Nothing /\ pc'[c] = "done")
  BY DEF EntryFlow
<1>a. Waits(c) => syncMu = c
  BY DEF SyncInv, OneSync, Starts, Waits
<1>f. \A id \in todo[c].forget : syncMu = c
  BY DEF SyncInv, OneSync, CallFlow
<1>1. OneSync'
  <2>1. Kind(c) = "shutdown" =>
          ~ Starts(c)' /\ todo'[c].forget = {} /\ todo'[c].restart = {} /\ todo'[c].start = {}
    BY DEF SyncInv, OneSync, CallFlow, Starts
  <2>2. Kind(c) = "apply" /\ pc'[c] \notin {"new", "done"} => syncMu' = c
    BY <1>m DEF SyncInv, OneSync, CallFlow
  <2>3. syncMu' # None => Kind(syncMu') = "apply" /\ pc'[syncMu'] \notin {"new", "done"}
    BY <1>m, <1>o, <1>t DEF SyncInv, OneSync, CallFlow, EntryFlow
  <2>4. \A d \in Calls : d # c /\ syncMu = d => syncMu' = d
    BY <1>m
  <2> QED BY <1>o, <2>1, <2>2, <2>3, <2>4 DEF SyncInv, OneSync
<1>2. ASSUME syncMu' # None PROVE Planned(syncMu)'
  <2>1. syncMu' = syncMu /\ Planned(syncMu) /\ syncMu \in Calls
    BY <1>m, <1>2, <1>t DEF SyncInv
  <2>2. CASE syncMu # c
    <3>1. Waits(syncMu) => instances'[current[syncMu]] = None
      <4>1. ~ Waits(c)
        BY <1>a, <2>2
      <4> QED BY <1>t, <2>1, <4>1 DEF Planned, EntryFlow, Registers, Forgets, At, Starts, Waits
    <3> QED BY <1>o, <2>1, <2>2, <3>1 DEF Planned, CallFlow, Enabled
  <2>3. CASE syncMu = c
    <3>1. /\ todo'[c].start \subseteq todo[c].start /\ todo'[c].restart \subseteq todo[c].restart
          /\ todo'[c].forget \subseteq todo[c].forget /\ configByID' = configByID
      BY DEF CallFlow
    <3>2. Starts(c)' => Enabled(configByID, current'[c])
      BY <2>1, <2>3 DEF CallFlow, Planned, Starts
    <3>3. Waits(c)' => instances'[current'[c]] = None
      BY <2>1, <2>3 DEF ServerFlow, Makes, Running, CallFlow, Planned, Waits
    <3> QED BY <2>1, <2>3, <3>1, <3>2, <3>3 DEF Planned, Enabled
  <2> QED BY <2>2, <2>3
<1>3. Owned'
  <2> SUFFICES ASSUME NEW s \in Servers, s \notin asked'
               PROVE  /\ phase'[s] = "starting" => pc'[s[1]] = "await" /\ Own(s[1])' = s
                      /\ phase'[s] = "listening" => instances'[s[2]] = s \/ Awaited(s)' \/ s \in closing'
    BY DEF Owned
  <2>0. s \notin asked /\ s[1] \in Calls /\ s[2] \in Ids
    BY DEF ServerFlow, Servers
  <2>1. CASE Makes(c, s)
    BY <2>1, <1>o DEF Makes, Awaited, Waits, CallFlow, Own
  <2>2. CASE ~ Makes(c, s) /\ phase'[s] = phase[s] /\ Awaited(s)
    <3>1. CASE s[1] = c
      <4>1. Waits(c) /\ Own(c) = s /\ s[2] = current[c] /\ (phase[s] = "starting" => pc[c] = "await")
        BY <2>0, <2>2, <3>1 DEF Awaited, Own, SyncInv, Owned
      <4>2. CASE pc[c] = "await"
        <5>1. phase'[s] = "exited" \/ (pc'[c] = "register" /\ Own(c)' = Own(c) /\ phase[s] = "listening")
          BY <4>1, <4>2 DEF ServerFlow, CallFlow, Own
        <5> QED BY <2>2, <3>1, <4>1, <5>1 DEF Awaited, Waits
      <4>3. CASE pc[c] = "register"
        BY <2>2, <4>1, <4>3 DEF ServerFlow, Registers
      <4> QED BY <4>1, <4>2, <4>3 DEF Waits
    <3>2. CASE s[1] # c
      BY <1>o, <2>0, <2>2, <3>2 DEF Awaited, SyncInv, Owned
    <3> QED BY <3>1, <3>2
  <2>3. CASE ~ Makes(c, s) /\ phase'[s] = phase[s] /\ ~ Awaited(s)
    <3>1. phase[s] # "starting" /\ (phase[s] = "listening" => instances[s[2]] = s \/ s \in closing)
      BY <2>0, <2>3 DEF SyncInv, Owned, Awaited, Waits
    <3>2. ASSUME phase[s] = "listening", instances[s[2]] = s, s \notin closing' PROVE instances'[s[2]] = s
      <4>1. s \notin closing
        BY <3>2 DEF EntryFlow
      <4>2. ~ Registers(c, s[2])
        BY <1>a, <1>t, <2>0, <3>2 DEF Registers, At, SyncInv, Planned, Waits
      <4>3. ~ Forgets(c, s[2])
        <5>1. Enabled(configByID, s[2]) \/ s[2] \in ToDo.stop
          BY <1>t, <2>0, <3>2, <4>1 DEF SyncInv, Wanted, Running
        <5> QED BY <1>f, <1>t, <5>1 DEF Forgets, SyncInv, Planned, ToDo, Enabled
      <4> QED BY <2>0, <3>2, <4>2, <4>3 DEF EntryFlow
    <3> QED BY <2>3, <3>1, <3>2 DEF EntryFlow
  <2> QED BY <2>1, <2>2, <2>3 DEF ServerFlow
<1>4. Wanted'
  <2> SUFFICES ASSUME NEW id \in Ids, instances'[id] # None
               PROVE  /\ instances'[id] \notin closing' \cup asked' =>
                           Enabled(configByID, id) \/ id \in ToDo'.stop
                      /\ configByID[id] # None \/ id \in ToDo'.forget
    BY DEF Wanted, Running, CallFlow, Enabled
  <2>1. CASE Registers(c, id)
    BY <1>a, <1>t, <2>1 DEF Registers, At, SyncInv, Planned, Starts, Waits, Enabled
  <2>2. CASE instances'[id] = instances[id]
    <3>1. /\ instances[id] \notin closing \cup asked => Enabled(configByID, id) \/ id \in ToDo.stop
          /\ configByID[id] # None \/ id \in ToDo.forget
      BY <2>2 DEF SyncInv, Wanted, Running
    <3>2. instances'[id] \notin closing' \cup asked' => instances[id] \notin closing \cup asked
      BY <2>2 DEF EntryFlow, ServerFlow
    <3>3. id \in ToDo.stop /\ instances'[id] \notin closing' => id \in ToDo'.stop
      BY <1>m, <1>o, <1>t DEF ToDo, Nothing, EntryFlow, SyncInv, OneSync
    <3>4. id \in ToDo.forget => id \in ToDo'.forget
      BY <1>m, <1>o, <1>t DEF ToDo, Nothing, EntryFlow, SyncInv, OneSync
    <3> QED BY <3>1, <3>2, <3>3, <3>4
  <2>3. ~ Forgets(c, id)
    BY DEF Forgets
  <2> QED BY <2>1, <2>2, <2>3 DEF EntryFlow
<1>5. displaced' = {}
  BY <1>a, <1>t DEF EntryFlow, Registers, Running, At, Waits, SyncInv, Planned
<1> QED BY <1>1, <1>2, <1>3, <1>4, <1>5 DEF SyncInv

(* Calls are not taken back, so only syncs were under way before, too.     *)
LEMMA NextSync ==
  ASSUME TypeInv, OnlySyncs => SyncInv, [Next]_vars, OnlySyncs'
  PROVE  OnlySyncs /\ SyncInv'
<1>1. ASSUME NEW s \in Servers, ServerMoves(s) PROVE OnlySyncs /\ SyncInv'
  <2>1. SelfFlow
    BY <1>1, SelfSteps
  <2>2. OnlySyncs
    BY <2>1 DEF OnlySyncs, SelfFlow, local
  <2> QED BY <2>1, <2>2, SyncOfSelf
<1>2. ASSUME NEW c \in Calls, Begin(c) PROVE OnlySyncs /\ SyncInv'
  <2>1. BeginFlow(c)
    BY <1>2, BeginSteps
  <2>2. OnlySyncs /\ Kind(c) \in {"apply", "shutdown"}
    BY <2>1 DEF OnlySyncs, BeginFlow
  <2> QED BY <2>1, <2>2, SyncOfBegin
<1>3. ASSUME NEW c \in Calls, Step(c) PROVE OnlySyncs /\ SyncInv'
  <2>1. CallFlow(c) /\ EntryFlow(c) /\ ServerFlow(c)
    BY <1>3, CallSteps, EntrySteps, ServerFlows
  <2>2. OnlySyncs /\ Kind(c) \in {"apply", "shutdown"}
    BY <2>1 DEF OnlySyncs, CallFlow
  <2> QED BY <2>1, <2>2, SyncOfStep
<1>4. CASE UNCHANGED vars
  BY <1>4 DEF vars, table, servers, helpers, local, OnlySyncs, SyncInv, OneSync, Planned, Owned, Wanted,
     Starts, Waits, At, Awaited, Own, Running, Enabled, ToDo
<1> QED BY <1>1, <1>2, <1>3, <1>4 DEF Next, ServerMoves

(* SyncInv holds as long as only syncs and shutdowns have begun.           *)
LEMMA SyncHolds == Spec => [](OnlySyncs => SyncInv)
<1>1. Init => SyncInv
  BY DEF Init, SyncInv, OneSync, Owned, Wanted, Running
<1>2. TypeInv /\ (OnlySyncs => SyncInv) /\ [Next]_vars => (OnlySyncs => SyncInv)'
  BY NextSync
<1> QED BY <1>1, <1>2, Typed, PTL DEF Spec

(* Whatever configurations are applied, in whatever order, and whichever   *)
(* stops and starts of SyncProxyConfigs fail or time out: when the syncs   *)
(* are over no server listens for an instance that is disabled or gone,    *)
(* even beside the final Shutdown.                                         *)
THEOREM DisabledServersAreDown == Spec => []DisabledIsDown
<1>1. TypeInv /\ (OnlySyncs => SyncInv) => DisabledIsDown
  <2> SUFFICES ASSUME TypeInv, OnlySyncs => SyncInv, closing = {},
                      \A c \in Calls : pc[c] = "new" \/ (pc[c] = "done" /\ Kind(c) \in {"apply", "shutdown"}),
                      NEW s \in Servers, phase[s] = "listening", s \notin asked
               PROVE  Enabled(configByID, s[2])
    BY DEF DisabledIsDown, At
  <2>1. SyncInv
    BY DEF OnlySyncs
  <2>2. syncMu = None
    BY <2>1 DEF SyncInv, OneSync, TypeInv, TypeOK
  <2>3. instances[s[2]] = s /\ s[2] \in Ids
    BY <2>1 DEF SyncInv, Owned, Awaited, Waits, Servers
  <2> QED BY <2>1, <2>2, <2>3, NoneAssumption DEF SyncInv, Wanted, Running, ToDo, Nothing
<1> QED BY <1>1, SyncHolds, Typed, PTL

(* While configurations are applied, and no instance is started or stopped *)
(* by hand, no server listens behind the manager's back: SyncProxyConfigs  *)
(* has stopped what it forgets, and no late registration takes the entry   *)
(* of another server.  (A server asked to shut down before it had a        *)
(* listener is excepted here, too.)                                        *)
THEOREM SyncsLoseNoServer == Spec => [](OnlySyncs => NoOrphan /\ displaced = {})
<1>1. SyncInv => NoOrphan /\ displaced = {}
  BY DEF SyncInv, Owned, NoOrphan, Awaited, Waits
<1> QED BY <1>1, SyncHolds, PTL

(* While configurations are applied, and no instance is started or stopped *)
(* by hand, a sync forgets only instances whose server it has begun to     *)
(* close, and watchers clear the entries of servers that have gone.        *)
THEOREM SyncsKeepRunningListed ==
  Spec => [][OnlySyncs' => \A id \in Ids :
                /\ instances[id] # None /\ instances[id] \notin closing
                /\ phase[instances[id]] = "listening"
                => instances'[id] # None]_vars
<1> DEFINE Stays == OnlySyncs' => \A id \in Ids :
                      /\ instances[id] # None /\ instances[id] \notin closing
                      /\ phase[instances[id]] = "listening"
                      => instances'[id] # None
<1>1. TypeInv /\ (OnlySyncs => SyncInv) /\ LifeInv /\ [Next]_vars => Stays
  <2> SUFFICES ASSUME TypeInv, OnlySyncs => SyncInv, LifeInv, [Next]_vars, OnlySyncs', NEW id \in Ids,
                      instances[id] # None, instances[id] \notin closing,
                      phase[instances[id]] = "listening"
               PROVE  instances'[id] # None
    OBVIOUS
  <2>t. instances[id] \in Servers /\ syncMu \in Calls \cup {None} /\ None \notin Servers
    BY NoneAssumption DEF TypeInv, TypeOK
  <2>0. OnlySyncs /\ SyncInv
    BY NextSync
  <2>1. instances[id] \notin asked
    BY DEF LifeInv, Registered, Running
  <2>2. ASSUME NEW s \in Servers, ServerMoves(s) PROVE instances'[id] # None
    <3>1. SelfFlow
      BY <2>2, SelfSteps
    <3> QED BY <2>t, <3>1 DEF SelfFlow
  <2>3. ASSUME NEW c \in Calls, Begin(c) PROVE instances'[id] # None
    <3>1. BeginFlow(c)
      BY <2>3, BeginSteps
    <3> QED BY <3>1 DEF BeginFlow
  <2>4. ASSUME NEW c \in Calls, Step(c) PROVE instances'[id] # None
    <3>1. CallFlow(c) /\ EntryFlow(c)
      BY <2>4, CallSteps, EntrySteps
    <3>2. ~ Forgets(c, id)
      <4>1. Enabled(configByID, id) \/ id \in ToDo.stop
        BY <2>0, <2>1, <2>t DEF SyncInv, Wanted, Running
      <4>2. id \in todo[c].forget => syncMu = c
        BY <2>0, <3>1 DEF SyncInv, OneSync, OnlySyncs, CallFlow
      <4> QED BY <2>0, <4>1, <4>2, NoneAssumption DEF Forgets, SyncInv, Planned, ToDo, Enabled
    <3>3. Registers(c, id) => instances'[id] # None
      BY <2>t, <3>1 DEF Registers, At, TypeInv, Working, Own, Servers
    <3> QED BY <3>1, <3>2, <3>3 DEF EntryFlow
  <2>5. CASE UNCHANGED vars
    BY <2>5 DEF vars, table
  <2> QED BY <2>2, <2>3, <2>4, <2>5 DEF Next, ServerMoves
<1> QED BY <1>1, Typed, SyncHolds, LifeHolds, PTL DEF Spec
=============================================================================
