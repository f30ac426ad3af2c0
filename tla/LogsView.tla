------------------------------- MODULE LogsView -------------------------------
(* The log page, Logs.vue, from its opening on: the history it loads, then  *)
(* the stream it follows with EventStream, and the entries it keeps.  What  *)
(* was begun before the page is left goes on after.                         *)
EXTENDS Naturals

CONSTANTS
    MaxLogs,       \* maxLogs: entries kept
    History,       \* the most entries the history answers with
    MaxDying       \* bound of EventStream

VARIABLES
    mounted,
    loading,       \* the suspended call of loadHistory()
    logs,          \* how many entries the store holds
    paused,        \* paused of the page
    shownUp,       \* connected of the page
    muted,         \* paused of the stream
    connection, dying, timer, connected, wanted

stream == INSTANCE EventStream WITH paused <- muted
streamVars == <<muted, connection, dying, timer, connected, wanted>>
vars == <<mounted, loading, logs, paused, shownUp, muted, connection, dying,
          timer, connected, wanted>>

Least(a, b) == IF a < b THEN a ELSE b

(* onMounted(), up to the answer of the history.                            *)
Init ==
    /\ mounted = TRUE /\ loading = TRUE
    /\ logs \in 0..MaxLogs
    /\ paused = FALSE /\ shownUp = FALSE
    /\ stream!Init

(* connect() of the page.                                                   *)
Connect == stream!SetPaused(FALSE) /\ shownUp' = FALSE

(* The history has come, and replaces what was there, or has failed; either *)
(* way the stream is connected, also if the page was paused or left.        *)
HistoryReply ==
    /\ loading /\ loading' = FALSE
    /\ logs' \in (0..History) \cup {logs}
    /\ Connect
    /\ UNCHANGED <<mounted, paused>>

(* togglePause(): to go on connects twice, the first to be aborted at once. *)
Pause ==
    /\ mounted /\ ~ paused /\ paused' = TRUE
    /\ stream!SetPaused(TRUE)
    /\ UNCHANGED <<mounted, loading, logs, shownUp>>

Continue ==
    /\ mounted /\ paused /\ paused' = FALSE
    /\ dying + 2 <= MaxDying
    /\ dying' = dying + (IF connection \in stream!Unsettled THEN 2 ELSE 1)
    /\ connection' = "fetching" /\ connected' = FALSE /\ timer' = FALSE
    /\ muted' = FALSE /\ wanted' = TRUE /\ shownUp' = FALSE
    /\ UNCHANGED <<mounted, loading, logs>>

(* The watch of the level filter.                                           *)
FilterChanges ==
    /\ mounted
    /\ IF paused THEN UNCHANGED streamVars /\ UNCHANGED shownUp ELSE Connect
    /\ UNCHANGED <<mounted, loading, logs, paused>>

(* onEvent(): an entry is appended, and the oldest goes if there are too    *)
(* many.                                                                    *)
Entry ==
    /\ connection = "reading"
    /\ logs' = IF paused THEN logs ELSE Least(logs + 1, MaxLogs)
    /\ UNCHANGED <<mounted, loading, paused, shownUp>> /\ UNCHANGED streamVars

ClearLogs ==
    /\ mounted /\ logs' = 0
    /\ UNCHANGED <<mounted, loading, paused, shownUp>> /\ UNCHANGED streamVars

Leave ==
    /\ mounted /\ mounted' = FALSE /\ shownUp' = FALSE
    /\ stream!Disconnect
    /\ UNCHANGED <<loading, logs, paused>>

(* The stream on its own; the page hears of it when it opens, not when it   *)
(* is lost.                                                                 *)
StreamMoves ==
    /\ \/ stream!Open /\ shownUp' = TRUE
       \/ stream!Fail /\ UNCHANGED shownUp
       \/ stream!Malformed /\ UNCHANGED shownUp
       \/ stream!End /\ UNCHANGED shownUp
       \/ stream!SeeAbort /\ UNCHANGED shownUp
       \/ stream!TimerFires /\ UNCHANGED shownUp
    /\ UNCHANGED <<mounted, loading, logs, paused>>

Next ==
    \/ HistoryReply \/ Pause \/ Continue \/ FilterChanges \/ Entry \/ ClearLogs \/ Leave
    \/ StreamMoves

Spec == Init /\ [][Next]_vars
-----------------------------------------------------------------------------
TypeOK ==
    /\ mounted \in BOOLEAN /\ loading \in BOOLEAN /\ logs \in 0..MaxLogs
    /\ paused \in BOOLEAN /\ shownUp \in BOOLEAN
    /\ stream!TypeOK

(* While the page is paused no entry of the stream comes in, not even from  *)
(* one that the late answer of the history has connected; what that answer  *)
(* itself brings is shown.                                                  *)
PausedIsStillStep ==
    paused /\ paused' => logs' \in {0, logs} \/ loading # loading'

PausedIsStill == [][PausedIsStillStep]_vars

(* A page that was left has no stream.  It does not hold: the answer of the *)
(* history connects one, which nothing disconnects.                         *)
LeftIsQuiet == ~ mounted => ~ wanted

(* A page says it is connected while its stream is.  It does not hold: the  *)
(* loss of the stream is not told.                                          *)
ShownUpIsUp == shownUp => connected
=============================================================================
