------------------------------ MODULE DeviceLive ------------------------------
(* The live parts of the device page, Devices.vue: the details shown, whose *)
(* radio readings are kept for a moment when the modem does not answer, the *)
(* realtime traffic and the traffic analysis.  Details arrive for the       *)
(* selected device only (see DevicesView).                                  *)
EXTENDS Naturals, FiniteSets

CONSTANTS
    Devices,
    NoDevice,       \* '' and null
    MaxAnalyses     \* bound: analysis requests in flight

VARIABLES
    selected,          \* selectedId.value
    shownDetail,       \* selectedDetail.value.id
    connected,         \* selectedDetail.value.network_connected
    cached,            \* devices whose liveRadioCache entry is younger than RADIO_LIVE_GRACE_MS
    fallback,          \* device of pendingRawSelectedDetail, with its timer
    window,            \* device the samples of rollingTrafficWindow are from
    analysis,          \* device deviceAnalysis is about
    analysisLoading,   \* deviceAnalysisLoading.value
    analyses           \* requests for analyses; the current one is trafficAbort's

vars == <<selected, shownDetail, connected, cached, fallback, window, analysis,
          analysisLoading, analyses>>
Ids == Devices \cup {NoDevice}

Superseded(as) == {[a EXCEPT !.current = FALSE] : a \in as}

(* Mutant: the analysis in flight is forgotten, not aborted.                *)
ResetAnalysisMutant ==
    /\ analysis' = NoDevice /\ analysisLoading' = FALSE /\ UNCHANGED analyses

(* resetDeviceTrafficAnalysis().                                            *)
ResetAnalysis ==
    /\ analysis' = NoDevice /\ analysisLoading' = FALSE
    /\ analyses' = Superseded(analyses)

(* fetchDeviceTrafficAnalysis(id) with the details as they will be.         *)
FetchAnalysis(id) ==
    IF id = NoDevice \/ (id = shownDetail' /\ ~ connected') THEN ResetAnalysis
    ELSE /\ analyses' = Superseded(analyses) \cup {[of |-> id, current |-> TRUE]}
         /\ analysisLoading' = TRUE
         /\ UNCHANGED analysis

KeepAnalysis == UNCHANGED <<analysis, analysisLoading, analyses>>

Init ==
    /\ selected = NoDevice /\ shownDetail = NoDevice /\ connected = FALSE
    /\ cached = {} /\ fallback = NoDevice /\ window = NoDevice
    /\ analysis = NoDevice /\ analysisLoading = FALSE /\ analyses = {}

(* The watchers of selectedId; with nothing selected the details go too.    *)
Select(id) ==
    /\ id # selected
    /\ selected' = id /\ fallback' = NoDevice /\ window' = NoDevice
    /\ shownDetail' = IF id = NoDevice THEN NoDevice ELSE shownDetail
    /\ ResetAnalysis
    /\ UNCHANGED <<connected, cached>>

(* updateTrafficSpeedFromSelected(): a reading of the realtime stream that  *)
(* is still recent is kept.                                                 *)
UpdateSpeed ==
    window' \in IF shownDetail' # NoDevice /\ connected' THEN {window, NoDevice} ELSE {NoDevice}

(* resolveDetailForDisplay(): live readings are cached, missing ones are    *)
(* taken from the cache until the fallback timer shows the details as sent. *)
DetailArrives(live, conn) ==
    /\ selected # NoDevice
    /\ Cardinality(analyses) < MaxAnalyses
    /\ shownDetail' = selected /\ connected' = conn
    /\ cached' = IF live = "yes" THEN cached \cup {selected} ELSE cached
    /\ fallback' = IF live = "no" /\ selected \in cached THEN selected ELSE NoDevice
    /\ UpdateSpeed
    /\ LET moved == shownDetail # selected
       IN  \/ (moved \/ connected # conn) /\ FetchAnalysis(selected)
           \/ ~ moved /\ connected = conn /\ KeepAnalysis
    /\ UNCHANGED selected

(* Details that cannot be read leave what is shown.                         *)
DetailFails ==
    /\ selected # NoDevice
    /\ UNCHANGED <<selected, shownDetail, connected, cached, fallback>> /\ KeepAnalysis
    /\ UpdateSpeed

(* The grace period of a reading is over.                                   *)
CacheAges(d) ==
    /\ d \in cached
    /\ cached' = cached \ {d}
    /\ UNCHANGED <<selected, shownDetail, connected, fallback, window>> /\ KeepAnalysis

(* The timer of scheduleLiveRadioFallback().                                *)
FallbackFires ==
    /\ fallback # NoDevice
    /\ fallback' = NoDevice
    /\ shownDetail' = IF selected = fallback THEN fallback ELSE shownDetail
    /\ UNCHANGED <<selected, connected, cached>> /\ KeepAnalysis
    /\ UpdateSpeed

(* handleRealtimeTrafficEvent(): a sample, or a status without one.         *)
TrafficEvent ==
    /\ selected # NoDevice
    /\ window' \in {selected, NoDevice}
    /\ UNCHANGED <<selected, shownDetail, connected, cached, fallback>> /\ KeepAnalysis

(* Another range, the overview tab, or the poll of the analysis.            *)
RefreshAnalysis ==
    /\ Cardinality(analyses) < MaxAnalyses
    /\ UNCHANGED <<selected, shownDetail, connected, cached, fallback, window>>
    /\ FetchAnalysis(shownDetail)

(* An analysis has come, or failed; an aborted one is dropped.              *)
AnalysisReply(a) ==
    /\ analyses' = analyses \ {a}
    /\ IF a.current THEN analysis' \in {a.of, NoDevice} /\ analysisLoading' = FALSE
       ELSE UNCHANGED <<analysis, analysisLoading>>
    /\ UNCHANGED <<selected, shownDetail, connected, cached, fallback, window>>

Next ==
    \/ \E id \in Ids : Select(id) \/ CacheAges(id)
    \/ \E live \in {"yes", "no", "unknown"}, conn \in BOOLEAN : DetailArrives(live, conn)
    \/ DetailFails \/ FallbackFires \/ TrafficEvent \/ RefreshAnalysis
    \/ \E a \in analyses : AnalysisReply(a)

Spec == Init /\ [][Next]_vars
-----------------------------------------------------------------------------
TypeOK ==
    /\ {selected, shownDetail, fallback, window, analysis} \subseteq Ids
    /\ connected \in BOOLEAN /\ analysisLoading \in BOOLEAN
    /\ cached \subseteq Devices
    /\ analyses \subseteq [of : Devices, current : BOOLEAN]

(* An analysis is of the device whose details are shown, or is about to be  *)
(* replaced; and it is marked as loading exactly while the one request that *)
(* may replace it is in flight.                                             *)
AnalysisMatchesDetail ==
    /\ analysis \in {NoDevice, shownDetail} \/ analysisLoading
    /\ analysisLoading <=> \E a \in analyses : a.current
    /\ \A a \in analyses : a.current => a.of = shownDetail

(* What is left over from the device selected before is gone: no timer will *)
(* bring its details back, no sample of it is in the rolling minute.        *)
LiveIsSelected == {fallback, window} \subseteq {NoDevice, selected}
=============================================================================
