---------------------------- MODULE DashboardView ----------------------------
(* The dashboard: Dashboard.vue over stores/dashboard.ts, and the chart of  *)
(* TrafficAnalysisPanel.vue, whose code is loaded when there is something   *)
(* to draw.                                                                 *)
(*                                                                          *)
(* Two equal requests in flight count as one, and so do two calls of        *)
(* ensureChartLoaded() at the same point.  The callers that await one       *)
(* import resume in one step, as promise jobs do.                           *)
EXTENDS Naturals

CONSTANTS
    Ranges,         \* the spans of the analysis: day, week, month
    None

VARIABLES
    loading,        \* devicesLoading
    range,          \* analysisRange
    analysis,       \* the span the analysis shown is of; None if it is empty
    analysisLoading,
    calls,          \* requests in flight: "devices", or the span analysed
    chart,          \* VChartComp has come
    chartLoading,
    chartError,     \* chartLoadError is set
    import,         \* chartInitPromise
    callers         \* suspended calls of ensureChartLoaded()

vars == <<loading, range, analysis, analysisLoading, calls,
          chart, chartLoading, chartError, import, callers>>
requests == <<loading, range, analysis, analysisLoading, calls>>
panel == <<chart, chartLoading, chartError, import, callers>>

Callers == [attempt : 1..2, at : {"import", "sleep"}]

Init ==
    /\ loading = TRUE /\ calls = {"devices"}
    /\ range \in Ranges /\ analysis = None /\ analysisLoading = FALSE
    /\ chart = FALSE /\ chartLoading = FALSE /\ chartError = FALSE
    /\ import = "none" /\ callers = {}

-----------------------------------------------------------------------------
(* The chart. *)

(* The loop of ensureChartLoaded() from some attempt on, with some callers  *)
(* suspended: it starts an import, joins the one under way, or finds it     *)
(* done.                                                                    *)
Attempt(attempts, others) ==
    \/ /\ import = "loaded"
       /\ chartLoading' = FALSE /\ callers' = others
       /\ UNCHANGED <<chart, chartError, import>>
    \/ /\ import # "loaded" /\ import' = "pending"
       /\ chartLoading' = (chartLoading \/ import = "none")
       /\ chartError' = (chartError /\ import = "pending")
       /\ callers' = others \cup [attempt : attempts, at : {"import"}]
       /\ UNCHANGED chart

(* The watchEffect, once there is a chart to draw.                          *)
EffectRuns(data) ==
    IF data # None /\ ~ chart /\ ~ chartError
    THEN Attempt({1}, callers) ELSE UNCHANGED panel

(* The 400 ms are over.  An error that is cleared runs the effect again.    *)
Wake(c) ==
    /\ c.at = "sleep"
    /\ Attempt(IF chartError /\ import = "none" /\ analysis # None
               THEN {1, 2} ELSE {2}, callers \ {c})
    /\ UNCHANGED requests

ImportComes ==
    /\ import = "pending" /\ import' = "loaded"
    /\ chart' = TRUE /\ chartLoading' = FALSE
    /\ callers' = {c \in callers : c.at = "sleep"}
    /\ UNCHANGED <<chartError, requests>>

(* It fails.  A caller tries once more when a chunk was not found; the     *)
(* others give up, and say so.                                              *)
GivesUp(c, chunk) == c.at = "import" /\ ~ (chunk /\ c.attempt = 1)

Retrying(chunk) == {[attempt |-> 1, at |-> "sleep"] : c \in
                      {d \in callers : d.at = "import" /\ ~ GivesUp(d, chunk)}}

Fails(chunk) ==
    LET over == \E c \in callers : GivesUp(c, chunk)
    IN /\ chartError' = (chartError \/ over)
       /\ chartLoading' = (chartLoading /\ ~ over)

ImportFails ==
    /\ import = "pending" /\ import' = "none"
    /\ \E chunk \in BOOLEAN :
         /\ callers' = {c \in callers : c.at = "sleep"} \cup Retrying(chunk)
         /\ Fails(chunk)
    /\ UNCHANGED <<chart, requests>>

(* The error is shown with the button that tries again.                     *)
RetryChartLoad ==
    /\ chartError /\ analysis # None
    /\ chartError' = FALSE
    /\ IF chart
       THEN UNCHANGED <<chart, chartLoading, import, callers>>
       ELSE /\ import' = "pending" /\ chartLoading' = TRUE
            /\ callers' = callers \cup {[attempt |-> 1, at |-> "import"]}
            /\ UNCHANGED chart
    /\ UNCHANGED requests

-----------------------------------------------------------------------------
(* The store. *)

(* fetchDevices(): by the poll, the button, or a retry.                     *)
FetchDevices ==
    /\ loading' = TRUE /\ calls' = calls \cup {"devices"}
    /\ UNCHANGED <<range, analysis, analysisLoading, panel>>

DevicesReply ==
    /\ "devices" \in calls /\ calls' = calls \ {"devices"}
    /\ loading' = FALSE
    /\ UNCHANGED <<range, analysis, analysisLoading, panel>>

(* fetchAnalysis(): when idle after mounting, by the poll, the button, or   *)
(* a change of the span.                                                    *)
FetchAnalysis(r) ==
    /\ range' = r /\ analysisLoading' = TRUE /\ calls' = calls \cup {r}
    /\ UNCHANGED <<loading, analysis, panel>>

AnalysisReply(r) ==
    /\ calls' = calls \ {r} /\ analysisLoading' = FALSE
    /\ \E data \in {r, None} : analysis' = data /\ EffectRuns(data)
    /\ UNCHANGED <<loading, range>>

Next ==
    \/ FetchDevices \/ DevicesReply
    \/ \E r \in Ranges : FetchAnalysis(r)
    \/ \E r \in calls \cap Ranges : AnalysisReply(r)
    \/ \E c \in callers : Wake(c)
    \/ ImportComes \/ ImportFails \/ RetryChartLoad

Spec == Init /\ [][Next]_vars

-----------------------------------------------------------------------------
TypeOK ==
    /\ loading \in BOOLEAN /\ analysisLoading \in BOOLEAN
    /\ range \in Ranges /\ analysis \in Ranges \cup {None}
    /\ calls \subseteq Ranges \cup {"devices"}
    /\ chart \in BOOLEAN /\ chartLoading \in BOOLEAN /\ chartError \in BOOLEAN
    /\ import \in {"none", "pending", "loaded"} /\ callers \subseteq Callers

(* With something to draw the chart is there, or its error is, or someone   *)
(* is still at it; and the panel says that it loads only while someone is   *)
(* (ensureChartLoaded() with any number of callers, retries between).       *)
ChartComes ==
    /\ analysis # None /\ ~ chart /\ ~ chartError => callers # {}
    /\ chartLoading => callers # {}
    /\ (\E c \in callers : c.at = "import") <=> import = "pending"

(* A loading flag stands for a request that will clear it.                  *)
FlagsEnd ==
    /\ loading => "devices" \in calls
    /\ analysisLoading => calls \cap Ranges # {}

(* What is shown is of the span chosen.  It does not hold: an answer for    *)
(* the span left lands after the one for the span chosen.                   *)
AnalysisOfRange == calls \cap Ranges = {} => analysis \in {range, None}
=============================================================================
