----------------------------- MODULE OperatorScan -----------------------------
(* A scan for operators: the worker that runs it, one at a time and for no  *)
(* longer than its timeout (operator_selection.go); the request that starts *)
(* it, or joins the one that runs, and streams what becomes of it; and the  *)
(* page, which follows the stream with EventStream.                         *)
EXTENDS Sequences, Naturals

CONSTANTS
    Scans,         \* ids of scans: bounds those whose goroutines still run
    NoScan,
    MaxFaults,     \* bound: streams that break or are connected anew by the user
    MaxDying       \* bound of EventStream

VARIABLES
    scan,          \* operatorScanCurrent: its id, status, and whose result it holds
    overdue,       \* its timeout has passed
    runners,       \* goroutines of runOperatorScan()
    serving,       \* the handler of the current connection: none, streaming, ended
    wire,          \* what it has sent and the page has not read
    shown,         \* operatorScans[deviceId]
    faults,
    paused, connection, dying, timer, connected, wanted

stream == INSTANCE EventStream
streamVars == <<paused, connection, dying, timer, connected, wanted>>
worker == <<scan, overdue, runners>>
vars == <<scan, overdue, runners, serving, wire, shown, faults, paused,
          connection, dying, timer, connected, wanted>>

Idle == [id |-> NoScan, status |-> "idle", of |-> NoScan]
Failed(s) == [s EXCEPT !.status = "failed"]
Running(s) == s.status = "running"

Init ==
    /\ scan = Idle /\ overdue = FALSE /\ runners = {}
    /\ serving = "none" /\ wire = <<>> /\ shown = Idle /\ faults = 0
    /\ stream!Init

(* expireOperatorScanLocked(): what the current scan is seen as.            *)
Expired == IF overdue THEN Failed(scan) ELSE scan

(* StartOrGetOperatorScan(): one that has just expired is reported, one     *)
(* that runs is joined, and only otherwise is a new one started.            *)
StartOrGet ==
    IF Running(scan)
    THEN scan' = Expired /\ overdue' = FALSE /\ UNCHANGED runners
    ELSE \E id \in Scans \ (runners \cup {scan.id}) :
            /\ scan' = [id |-> id, status |-> "running", of |-> NoScan]
            /\ overdue' = FALSE
            /\ runners' = runners \cup {id}

TimePasses ==
    /\ Running(scan) /\ ~ overdue /\ overdue' = TRUE
    /\ UNCHANGED <<scan, runners, serving, wire, shown, faults>> /\ UNCHANGED streamVars

(* Mutant: a goroutine that is late reports to the scan that runs now.      *)
RunEndsMutant(id) ==
    /\ runners' = runners \ {id}
    /\ scan' \in IF Running(scan)
                 THEN {Failed(scan), [scan EXCEPT !.status = "complete", !.of = id]}
                 ELSE {scan}
    /\ overdue' = (overdue /\ Running(scan'))
    /\ UNCHANGED <<serving, wire, shown, faults>> /\ UNCHANGED streamVars

(* runOperatorScan() ends with candidates or an error; it is heard only     *)
(* while its scan is the current one and runs.                              *)
RunEnds(id) ==
    /\ runners' = runners \ {id}
    /\ scan' \in IF Running(scan) /\ scan.id = id
                 THEN {Failed(scan), [scan EXCEPT !.status = "complete", !.of = id]}
                 ELSE {scan}
    /\ overdue' = (overdue /\ Running(scan'))
    /\ UNCHANGED <<serving, wire, shown, faults>> /\ UNCHANGED streamVars

(* The stream's request reaches the server, which sends what it finds, and  *)
(* goes on while that runs.                                                 *)
Sends(s) == wire' = <<s>> /\ serving' = IF Running(s) THEN "streaming" ELSE "ended"

Serve ==
    /\ connection = "fetching" /\ serving = "none"
    /\ StartOrGet /\ Sends(scan')
    /\ UNCHANGED <<shown, faults>> /\ UNCHANGED streamVars

(* There is no such device, or none that can scan.                          *)
Refuse ==
    /\ connection = "fetching" /\ serving = "none"
    /\ Sends(Failed(Idle))
    /\ UNCHANGED worker /\ UNCHANGED <<shown, faults>> /\ UNCHANGED streamVars

(* A request the page has given up reaches the server all the same.         *)
ServeLate ==
    /\ dying > 0 /\ StartOrGet
    /\ UNCHANGED <<serving, wire, shown, faults>> /\ UNCHANGED streamVars

(* A second later the handler sends the state again.                        *)
Tick ==
    /\ serving = "streaming" /\ wire = <<>>
    /\ scan' = Expired /\ overdue' = FALSE
    /\ Sends(scan')
    /\ UNCHANGED <<runners, shown, faults>> /\ UNCHANGED streamVars

(* The connection of the page is another, or none: what was on it is lost.  *)
Hangup == serving' = "none" /\ wire' = <<>>

Open ==
    /\ serving # "none" /\ stream!Open
    /\ UNCHANGED worker /\ UNCHANGED <<serving, wire, shown, faults>>

(* Mutant: the stream is given up with the first event.                     *)
DeliverMutant ==
    /\ connection = "reading" /\ wire # <<>>
    /\ shown' = Head(wire)
    /\ stream!SetPaused(TRUE) /\ Hangup
    /\ UNCHANGED worker /\ UNCHANGED faults

(* onEvent(): the state is shown; one that has ended pauses the stream.     *)
Deliver ==
    /\ connection = "reading" /\ wire # <<>>
    /\ shown' = Head(wire)
    /\ IF Running(Head(wire))
       THEN wire' = <<>> /\ UNCHANGED serving /\ UNCHANGED streamVars
       ELSE stream!SetPaused(TRUE) /\ Hangup
    /\ UNCHANGED worker /\ UNCHANGED faults

(* The stream breaks, or is connected again, or sees its abort.             *)
Break ==
    /\ faults < MaxFaults /\ faults' = faults + 1
    /\ stream!Fail \/ stream!Malformed
    /\ Hangup
    /\ UNCHANGED worker /\ UNCHANGED shown

Reconnect ==
    /\ stream!TimerFires /\ Hangup
    /\ UNCHANGED worker /\ UNCHANGED <<shown, faults>>

SeeAbort ==
    /\ stream!SeeAbort
    /\ UNCHANGED worker /\ UNCHANGED <<serving, wire, shown, faults>>

(* The dialog: doScan() while none is shown to run, and its opening, which  *)
(* connects anew while one is.                                              *)
Follow ==
    /\ stream!SetPaused(FALSE) /\ Hangup
    /\ UNCHANGED worker /\ UNCHANGED shown

Start == ~ Running(shown) /\ Follow /\ UNCHANGED faults
Resume == Running(shown) /\ Follow /\ faults < MaxFaults /\ faults' = faults + 1

(* Mutant: what is shown stays when the stream is dropped.                  *)
ClearMutant ==
    /\ dying < MaxDying /\ stream!Abort
    /\ paused' = FALSE /\ connection' = "none" /\ timer' = FALSE
    /\ connected' = FALSE /\ wanted' = FALSE
    /\ shown' = shown /\ Hangup
    /\ UNCHANGED worker /\ UNCHANGED faults

(* clearOperatorScan(): the stream is dropped, and the next is a new one.   *)
Clear ==
    /\ dying < MaxDying /\ stream!Abort
    /\ paused' = FALSE /\ connection' = "none" /\ timer' = FALSE
    /\ connected' = FALSE /\ wanted' = FALSE
    /\ shown' = Idle /\ Hangup
    /\ UNCHANGED worker /\ UNCHANGED faults

Next ==
    \/ TimePasses \/ Serve \/ Refuse \/ ServeLate \/ Tick \/ Open \/ Deliver \/ Break
    \/ Reconnect \/ SeeAbort \/ Start \/ Resume \/ Clear
    \/ \E id \in runners : RunEnds(id)

Spec == Init /\ [][Next]_vars

(* Time passes, goroutines end, requests arrive and are answered while no   *)
(* fault comes; nobody need use the dialog.                                 *)
Fairness ==
    /\ WF_vars(TimePasses) /\ WF_vars(Serve) /\ WF_vars(Tick) /\ WF_vars(Open)
    /\ WF_vars(Deliver) /\ WF_vars(Reconnect) /\ WF_vars(SeeAbort)
    /\ \A id \in Scans : WF_vars(id \in runners /\ RunEnds(id))

FairSpec == Spec /\ Fairness
-----------------------------------------------------------------------------
States == [id : Scans \cup {NoScan}, status : {"idle", "running", "failed", "complete"},
           of : Scans \cup {NoScan}]

TypeOK ==
    /\ scan \in States /\ overdue \in BOOLEAN /\ runners \subseteq Scans
    /\ serving \in {"none", "streaming", "ended"}
    /\ wire \in {<<>>} \cup {<<s>> : s \in States}
    /\ shown \in States /\ faults \in 0..MaxFaults
    /\ stream!TypeOK

(* A scan that is shown to run is followed: the stream is wanted, so it     *)
(* lives, and the page will hear the end.                                   *)
RunningIsFollowed == Running(shown) => wanted

(* A scan that is complete holds the candidates its own goroutine found,    *)
(* and one that runs has its goroutine: a late one changes neither.         *)
ResultIsOwn ==
    /\ scan.status = "complete" => scan.of = scan.id
    /\ Running(scan) => scan.id \in runners

(* A scan that is shown to run is shown to have ended, or not shown.        *)
ScanIsConcluded == Running(shown) ~> ~ Running(shown)
=============================================================================
