---------------------------- MODULE ProxyManager ----------------------------
(***************************************************************************)
(* The proxy instance manager, internal/proxy/server: the table of         *)
(* instances, the SOCKS5/HTTP servers behind it, and the calls that the    *)
(* API's handlers make of it, each in a goroutine of its own:              *)
(*                                                                         *)
(*   start, stop, restart   the three actions on one instance              *)
(*   apply                  SyncProxyConfigs: the whole configuration      *)
(*   shutdown               Manager.Shutdown, when the process ends        *)
(*                                                                         *)
(* A call works off lists of instances to stop, to forget, to restart and  *)
(* to start, in this order; the single actions are lists of one.  A server *)
(* is named by the call that made it and its instance.  Exit times, error  *)
(* texts and traffic counters are left out.                                *)
(***************************************************************************)


CONSTANTS
    Calls, Ids, None,
    KindOf,      \* [Calls -> Kinds]
    IdOf,        \* the instance of a start, a stop or a restart
    Settings,    \* what an InstanceConfig holds besides Enabled
    PortOf,      \* [Settings -> a port]
    ModeOf,      \* [Settings -> {"socks5", "http"}]
    Plans,       \* the configurations the database may hold
    FirstPlan    \* the configuration that was applied last

Kinds == {"start", "stop", "restart", "apply", "shutdown"}
Config == [enabled : BOOLEAN, setting : Settings]
Servers == Calls \X Ids
ServerPhases == {"unborn", "starting", "listening", "closed", "exited"}

ASSUME NoneAssumption == None \notin Calls \cup Servers \cup Config \cup Ids
ASSUME CallAssumption == KindOf \in [Calls -> Kinds] /\ IdOf \in [Calls -> Ids]
ASSUME ModeAssumption == ModeOf \in [Settings -> {"socks5", "http"}]
ASSUME PlanAssumption == Plans \cup {FirstPlan} \subseteq [Ids -> Config \cup {None}]

VARIABLES
    configByID,  \* Manager.configByID
    instances,   \* Manager.instances[id].srv, or None
    phase,       \* of each server: its listener and the goroutine that runs Start
    setting,     \* the configuration each server was made with
    shutdown,    \* Server.shutdown
    asked,       \* the servers whose Shutdown has run (and closed the http.Server)
    closing,     \* the servers with a goroutine of Stop that calls Shutdown
    watched,     \* the servers that watchServerExit waits for
    syncMu,      \* the apply that holds Server.proxySyncMu, or None
    pc,
    todo,        \* what a call has left to do
    current,     \* the instance a call works on
    target,      \* the server a call is stopping
    again,       \* the call is in the Stop of a Restart
    failed,      \* the calls that have returned or will return an error
    displaced    \* (history) the servers whose entry a dead server has taken

table == <<configByID, instances>>
servers == <<phase, setting, shutdown, asked>>
helpers == <<closing, watched>>
local == <<pc, todo, current, target, again, failed>>
vars == <<table, servers, helpers, syncMu, local, displaced>>

Nothing == [stop |-> {}, forget |-> {}, restart |-> {}, start |-> {}]

Init ==
    /\ configByID = FirstPlan
    /\ instances = [id \in Ids |-> None]
    /\ phase = [s \in Servers |-> "unborn"]
    /\ setting = [s \in Servers |-> None]
    /\ shutdown = [s \in Servers |-> FALSE]
    /\ asked = {} /\ closing = {} /\ watched = {} /\ syncMu = None
    /\ pc = [c \in Calls |-> "new"]
    /\ todo = [c \in Calls |-> Nothing]
    /\ current = [c \in Calls |-> None]
    /\ target = [c \in Calls |-> None]
    /\ again = [c \in Calls |-> FALSE]
    /\ failed = {} /\ displaced = {}

Kind(c) == KindOf[c]
At(c, label) == pc[c] = label
Goto(c, label) == pc' = [pc EXCEPT ![c] = label]
Fail(c) == failed' = failed \cup {c}

-----------------------------------------------------------------------------
(* The server.                                                             *)

IsRunning(s) == phase[s] = "listening" /\ ~ shutdown[s]

PortInUse(p) == \E s \in Servers : phase[s] = "listening" /\ PortOf[setting[s]] = p

(* Start: bind the port, and forget any Shutdown that came before.         *)
Listen(s) ==
    /\ phase[s] = "starting"
    /\ IF PortInUse(PortOf[setting[s]])
       THEN /\ phase' = [phase EXCEPT ![s] = "exited"]
            /\ UNCHANGED shutdown
       ELSE /\ phase' = [phase EXCEPT ![s] = "listening"]
            /\ shutdown' = [shutdown EXCEPT ![s] = FALSE]
    /\ UNCHANGED <<table, setting, asked, helpers, syncMu, local, displaced>>

(* Serve returns: its listener was closed, or the http.Server was.         *)
Exit(s) ==
    /\ \/ phase[s] = "closed"
       \/ phase[s] = "listening" /\ s \in asked /\ ModeOf[setting[s]] = "http"
    /\ phase' = [phase EXCEPT ![s] = "exited"]
    /\ UNCHANGED <<table, setting, shutdown, asked, helpers, syncMu, local, displaced>>

(* Serve returns because accepting connections failed.                     *)
Die(s) ==
    /\ phase[s] = "listening"
    /\ phase' = [phase EXCEPT ![s] = "exited"]
    /\ UNCHANGED <<table, setting, shutdown, asked, helpers, syncMu, local, displaced>>

(* Shutdown; of a server that has no listener yet it only sets the flag.   *)
Shutdown(s) ==
    /\ shutdown' = [shutdown EXCEPT ![s] = TRUE]
    /\ asked' = asked \cup {s}
    /\ phase' = IF IsRunning(s) THEN [phase EXCEPT ![s] = "closed"] ELSE phase
    /\ UNCHANGED setting

(* Mutant: the watcher clears whatever server is registered.               *)
WatchServerExitMutant(s) ==
    /\ s \in watched /\ phase[s] = "exited"
    /\ watched' = watched \ {s}
    /\ instances' = [instances EXCEPT ![s[2]] = None]
    /\ UNCHANGED <<configByID, servers, closing, syncMu, local, displaced>>

WatchServerExit(s) ==
    /\ s \in watched /\ phase[s] = "exited"
    /\ watched' = watched \ {s}
    /\ instances' = [id \in Ids |-> IF instances[id] = s THEN None ELSE instances[id]]
    /\ UNCHANGED <<configByID, servers, closing, syncMu, local, displaced>>

-----------------------------------------------------------------------------
(* What each call has to do.                                               *)

BeginAction(c) ==
    /\ At(c, "new") /\ Kind(c) \in {"start", "stop", "restart"}
    /\ todo' = [todo EXCEPT ![c] = [Nothing EXCEPT ![Kind(c)] = {IdOf[c]}]]
    /\ Goto(c, "next")
    /\ UNCHANGED <<table, servers, helpers, syncMu, current, target, again, failed, displaced>>

BeginShutdown(c) ==
    /\ At(c, "new") /\ Kind(c) = "shutdown"
    /\ todo' = [todo EXCEPT ![c] = [Nothing EXCEPT !.stop = Ids]]
    /\ Goto(c, "next")
    /\ UNCHANGED <<table, servers, helpers, syncMu, current, target, again, failed, displaced>>

Running(id) == instances[id] # None
Enabled(plan, id) == plan[id] # None /\ plan[id].enabled

(* Mutant: a deleted instance is forgotten without being stopped.          *)
ChangesMutant(plan) ==
    LET gone == {id \in Ids : configByID[id] # None /\ plan[id] = None}
    IN [stop |-> {id \in Ids : Running(id) /\ plan[id] # None /\ ~ Enabled(plan, id)},
        forget |-> gone,
        restart |-> {id \in Ids : Enabled(plan, id) /\ Running(id) /\ configByID[id] # plan[id]},
        start |-> {id \in Ids : Enabled(plan, id) /\ ~ Running(id)}]

Changes(plan) ==
    LET gone == {id \in Ids : configByID[id] # None /\ plan[id] = None}
    IN [stop |-> {id \in Ids : Running(id) /\ (id \in gone \/ (plan[id] # None /\ ~ Enabled(plan, id)))},
        forget |-> gone,
        restart |-> {id \in Ids : Enabled(plan, id) /\ Running(id) /\ configByID[id] # plan[id]},
        start |-> {id \in Ids : Enabled(plan, id) /\ ~ Running(id)}]

BeginApply(c) ==
    /\ At(c, "new") /\ Kind(c) = "apply" /\ syncMu = None
    /\ syncMu' = c
    /\ \E plan \in Plans :
        /\ configByID' = plan
        /\ todo' = [todo EXCEPT ![c] = Changes(plan)]
    /\ Goto(c, "next")
    /\ UNCHANGED <<instances, servers, helpers, current, target, again, failed, displaced>>

(* Stop of one instance: without a server there is nothing to wait for.    *)
BeginStop(c, id, restarting) ==
    /\ current' = [current EXCEPT ![c] = id]
    /\ again' = [again EXCEPT ![c] = restarting]
    /\ IF Running(id)
       THEN /\ target' = [target EXCEPT ![c] = instances[id]]
            /\ closing' = closing \cup {instances[id]}
            /\ Goto(c, "stopping")
       ELSE /\ Goto(c, IF restarting THEN "check" ELSE "next")
            /\ UNCHANGED <<target, closing>>
    /\ UNCHANGED <<table, servers, watched, syncMu, failed, displaced>>

NextStop(c) ==
    /\ At(c, "next")
    /\ \E id \in todo[c].stop :
        /\ todo' = [todo EXCEPT ![c].stop = @ \ {id}]
        /\ BeginStop(c, id, FALSE)

Forget(c) ==
    /\ At(c, "next") /\ todo[c].stop = {} /\ todo[c].forget # {}
    /\ todo' = [todo EXCEPT ![c].forget = {}]
    /\ instances' = [id \in Ids |-> IF id \in todo[c].forget THEN None ELSE instances[id]]
    /\ UNCHANGED <<configByID, servers, helpers, syncMu, pc, current, target, again, failed, displaced>>

NextRestart(c) ==
    /\ At(c, "next") /\ todo[c].stop = {} /\ todo[c].forget = {}
    /\ \E id \in todo[c].restart :
        /\ todo' = [todo EXCEPT ![c].restart = @ \ {id}]
        /\ BeginStop(c, id, TRUE)

NextStart(c) ==
    /\ At(c, "next") /\ todo[c].stop = {} /\ todo[c].forget = {} /\ todo[c].restart = {}
    /\ \E id \in todo[c].start :
        /\ todo' = [todo EXCEPT ![c].start = @ \ {id}]
        /\ current' = [current EXCEPT ![c] = id]
    /\ Goto(c, "check")
    /\ UNCHANGED <<table, servers, helpers, syncMu, target, again, failed, displaced>>

Return(c) ==
    /\ At(c, "next") /\ todo[c] = Nothing
    /\ Goto(c, "done")
    /\ syncMu' = IF syncMu = c THEN None ELSE syncMu
    /\ UNCHANGED <<table, servers, helpers, todo, current, target, again, failed, displaced>>

-----------------------------------------------------------------------------
(* The goroutine of Stop, and Stop's return.                               *)

RunShutdown(s) ==
    /\ s \in closing
    /\ Shutdown(s)
    /\ closing' = closing \ {s}
    /\ UNCHANGED <<table, watched, syncMu, local, displaced>>

Stopped(c) ==
    /\ At(c, "stopping") /\ target[c] \notin closing
    /\ Goto(c, IF again[c] THEN "check" ELSE "next")
    /\ UNCHANGED <<table, servers, helpers, syncMu, todo, current, target, again, failed, displaced>>

(* The call's context ends first: a restart is given up, and so is all     *)
(* that Manager.Shutdown has left to do.                                   *)
StopTimesOut(c) ==
    /\ At(c, "stopping")
    /\ Fail(c)
    /\ todo' = IF Kind(c) = "shutdown" THEN [todo EXCEPT ![c] = Nothing] ELSE todo
    /\ Goto(c, "next")
    /\ UNCHANGED <<table, servers, helpers, syncMu, current, target, again, displaced>>

(* Start: an instance that has a server is left as it is.                  *)
CheckStart(c) ==
    LET id == current[c]
    IN /\ At(c, "check")
       /\ IF configByID[id] = None \/ Running(id)
          THEN /\ Goto(c, "next")
               /\ failed' = IF configByID[id] = None THEN failed \cup {c} ELSE failed
               /\ UNCHANGED servers
          ELSE /\ phase' = [phase EXCEPT ![<<c, id>>] = "starting"]
               /\ setting' = [setting EXCEPT ![<<c, id>>] = configByID[id].setting]
               /\ Goto(c, "await")
               /\ UNCHANGED <<shutdown, asked, failed>>
       /\ UNCHANGED <<table, helpers, syncMu, todo, current, target, again, displaced>>

Own(c) == <<c, current[c]>>

(* A tick finds the server running; nothing is locked until Register.      *)
SeesRunning(c) ==
    /\ At(c, "await") /\ IsRunning(Own(c))
    /\ Goto(c, "register")
    /\ UNCHANGED <<table, servers, helpers, syncMu, todo, current, target, again, failed, displaced>>

(* Mutant: the exit of a started server is never awaited.                  *)
RegisterMutant(c) ==
    /\ At(c, "register")
    /\ instances' = [instances EXCEPT ![current[c]] = Own(c)]
    /\ Goto(c, "next")
    /\ UNCHANGED <<configByID, servers, helpers, syncMu, todo, current, target, again, failed, displaced>>

(* The server is registered, over whatever is registered by now, and even  *)
(* when it has died since it was seen to run.                              *)
Register(c) ==
    /\ At(c, "register")
    /\ instances' = [instances EXCEPT ![current[c]] = Own(c)]
    /\ watched' = watched \cup {Own(c)}
    /\ displaced' = displaced \cup
         {s \in Servers : s = instances[current[c]] /\ phase[Own(c)] # "listening"}
    /\ Goto(c, "next")
    /\ UNCHANGED <<configByID, servers, closing, syncMu, todo, current, target, again, failed>>

StartFails(c) ==
    /\ At(c, "await") /\ phase[Own(c)] = "exited"
    /\ Fail(c)
    /\ Goto(c, "next")
    /\ UNCHANGED <<table, servers, helpers, syncMu, todo, current, target, again, displaced>>

(* Mutant: a start that times out leaves its server to itself.             *)
StartTimesOutMutant(c) ==
    /\ At(c, "await")
    /\ Fail(c)
    /\ Goto(c, "next")
    /\ UNCHANGED <<table, servers, helpers, syncMu, todo, current, target, again, displaced>>

(* The call's context or the three seconds end first.                      *)
StartTimesOut(c) ==
    /\ At(c, "await")
    /\ Shutdown(Own(c))
    /\ Fail(c)
    /\ Goto(c, "next")
    /\ UNCHANGED <<table, helpers, syncMu, todo, current, target, again, displaced>>

-----------------------------------------------------------------------------
Begin(c) == BeginAction(c) \/ BeginShutdown(c) \/ BeginApply(c)

Step(c) ==
    \/ NextStop(c) \/ Forget(c) \/ NextRestart(c) \/ NextStart(c) \/ Return(c)
    \/ Stopped(c) \/ StopTimesOut(c)
    \/ CheckStart(c) \/ SeesRunning(c) \/ Register(c)
    \/ StartFails(c) \/ StartTimesOut(c)

Next ==
    \/ \E s \in Servers : \/ Listen(s) \/ Exit(s) \/ Die(s)
                          \/ WatchServerExit(s) \/ RunShutdown(s)
    \/ \E c \in Calls : Begin(c) \/ Step(c)

Spec == Init /\ [][Next]_vars

-----------------------------------------------------------------------------
(* Types of the table, the servers and the calls' local state.             *)
TypeOK ==
    /\ configByID \in [Ids -> Config \cup {None}]
    /\ instances \in [Ids -> Servers \cup {None}]
    /\ phase \in [Servers -> ServerPhases]
    /\ setting \in [Servers -> Settings \cup {None}]
    /\ shutdown \in [Servers -> BOOLEAN]
    /\ asked \subseteq Servers /\ closing \subseteq Servers /\ watched \subseteq Servers
    /\ syncMu \in Calls \cup {None}
    /\ pc \in [Calls -> {"new", "next", "stopping", "check", "await", "register", "done"}]
    /\ todo \in [Calls -> [stop : SUBSET Ids, forget : SUBSET Ids,
                           restart : SUBSET Ids, start : SUBSET Ids]]
    /\ current \in [Calls -> Ids \cup {None}]
    /\ target \in [Calls -> Servers \cup {None}]
    /\ again \in [Calls -> BOOLEAN] /\ failed \subseteq Calls
    /\ displaced \subseteq Servers

(* No server listens behind the manager's back: it is registered, the call *)
(* that made it has still to register it, or a Stop is about to shut it    *)
(* down.  Excepted are the two ways in which the code does lose one: a     *)
(* server asked to shut down before it had a listener, for Server.Start    *)
(* then clears the flag and listens all the same; and a server whose entry *)
(* another has taken that was seen running, had died, and was registered   *)
(* all the same.                                                           *)
NoOrphan ==
    \A s \in Servers :
      phase[s] = "listening" /\ s \notin asked \cup displaced =>
        \/ instances[s[2]] = s
        \/ pc[s[1]] \in {"await", "register"} /\ Own(s[1]) = s
        \/ s \in closing

(* The instance of a registered server that runs, with no Stop about to    *)
(* close it, does not come to be reported as stopped: its entry may pass   *)
(* to another server, but only its own watcher clears it, however late     *)
(* watchers run.                                                           *)
RunningStaysListed ==
    [][\A id \in Ids :
         /\ instances[id] # None /\ instances[id] \notin closing
         /\ phase[instances[id]] = "listening"
         => instances'[id] # None]_vars

(* When all configurations are applied, and no instance was started by     *)
(* hand, no server is left listening for one that is disabled or gone.     *)
DisabledIsDown ==
    /\ \A c \in Calls : At(c, "new") \/ (At(c, "done") /\ Kind(c) \in {"apply", "shutdown"})
    /\ closing = {}
    =>
      \A s \in Servers :
        phase[s] = "listening" /\ s \notin asked => Enabled(configByID, s[2])

(* An instance whose server has gone does not stay listed as running: its  *)
(* watcher is still to see the exit.                                       *)
ExitIsWatched ==
    \A id \in Ids :
      instances[id] # None /\ phase[instances[id]] = "exited" => instances[id] \in watched

(* A restart that has returned without an error has left the instance with *)
(* a server that nobody asked to shut down (it may have died since).       *)
RestartRunsAgain ==
    \A c \in Calls :
      Kind(c) = "restart" /\ At(c, "done") /\ c \notin failed =>
        \E s \in Servers : s[2] = IdOf[c] /\ phase[s] # "unborn" /\ s \notin asked
=============================================================================
