---------------------------- MODULE MCWebConsole ----------------------------
(* Instances for TLC of the pages of the web interface and of the parts     *)
(* they share.  A behaviour shows one of them, part, for they share no      *)
(* state of their own: each is mounted, used and left by itself.  The       *)
(* variables of a part are held by as many of s1 to s13 as it has; those    *)
(* it does not need are Off.                                                *)
EXTENDS Naturals, FiniteSets

CONSTANTS
    None, Closed, Off,
    Devices, Sheets, Sessions, Plmns,                  \* of several pages
    SmsDevices, Threads, Cards, Proxies, Upstreams, Countries, Headers,
    Protected, Pages, Ranges, EventChannels,           \* of one page
    MaxLogs, History, Interval, MaxInterval,           \* limits of the code
    MaxCalls, MaxChanges, MaxRequests, MaxAnalyses, MaxQueries, MaxReads,
    MaxDying, MaxTokens, MaxHandlers, MaxRounds        \* bounds

(* None stands for '', an empty token included; "devices" is what a         *)
(* dashboard asks for besides its ranges.                                   *)
ASSUME NoneAssumption == None \notin Devices \cup Sheets
ASSUME RangesAssumption == "devices" \notin Ranges

VARIABLES part, s1, s2, s3, s4, s5, s6, s7, s8, s9, s10, s11, s12, s13

slots == <<s1, s2, s3, s4, s5, s6, s7, s8, s9, s10, s11, s12, s13>>
vars == <<part, slots>>

Sms == INSTANCE SmsView WITH
    NoThread <- None, selectedDevice <- s1, selectedKey <- s2, threads <- s3,
    shown <- s4, loading <- s5, threadLoading <- s6, loadingHistoryMore <- s7,
    calls <- s8

Devs == INSTANCE DevicesView WITH
    NoDevice <- None, list <- s1, selectedId <- s2, hasAutoSelected <- s3,
    queryDevice <- s4, detail <- s5, editConfig <- s6, editDirty <- s7,
    pageLoading <- s8, requests <- s9

Live == INSTANCE DeviceLive WITH
    NoDevice <- None, selected <- s1, shownDetail <- s2, connected <- s3,
    cached <- s4, fallback <- s5, window <- s6, analysis <- s7,
    analysisLoading <- s8, analyses <- s9

Esim == INSTANCE EsimTab WITH
    NoDevice <- None, device <- s1, active <- s2, chip <- s3, profiles <- s4,
    overviewLoading <- s5, profilesRefreshing <- s6, notifications <- s7,
    notificationsLoading <- s8, retrying <- s9, queries <- s10

Policy == INSTANCE CardPolicy WITH
    NoCard <- None, card <- s1, policyCard <- s2, local <- s3, failed <- s4,
    toggling <- s5, reads <- s6

Proxy == INSTANCE ProxyView WITH
    Ids <- Proxies, NoId <- None, config <- s1, instances <- s2, drawerOpen <- s3,
    editing <- s4, form <- s5, initialLoading <- s6, refreshing <- s7,
    saving <- s8, calls <- s9

Upstream == INSTANCE UpstreamView WITH
    server <- s1, proxies <- s2, rules <- s3, loading <- s4, refreshing <- s5,
    editing <- s6, ruleOpen <- s7, target <- s8, selected <- s9, calls <- s10

Settings == INSTANCE SettingsView WITH
    MaxCalls <- MaxChanges, server <- s1, form <- s2, rows <- s3,
    mounted <- s4, loading <- s5, saving <- s6, changing <- s7, testing <- s8,
    info <- s9, checking <- s10, update <- s11, applying <- s12, calls <- s13

Logs == INSTANCE LogsView WITH
    mounted <- s1, loading <- s2, logs <- s3, paused <- s4, shownUp <- s5,
    muted <- s6, connection <- s7, dying <- s8, timer <- s9, connected <- s10,
    wanted <- s11

Poll == INSTANCE PollScheduler WITH
    stopped <- s1, running <- s2, ticking <- s3, interval <- s4, enabled <- s5,
    tasks <- s6, mounted <- s7

Ses == INSTANCE Session WITH
    valid <- s1, issued <- s2, token <- s3, page <- s4, redirect <- s5,
    stored <- s6, loggingIn <- s7, shown <- s8, agreed <- s9, calls <- s10,
    ejected <- s11

Dashboard == INSTANCE DashboardView WITH
    loading <- s1, range <- s2, analysis <- s3, analysisLoading <- s4,
    calls <- s5, chart <- s6, chartLoading <- s7, chartError <- s8,
    import <- s9, callers <- s10

Add == INSTANCE AddDevice WITH
    discovered <- s1, open <- s2, chosen <- s3, fields <- s4, backend <- s5,
    discovering <- s6, saving <- s7, calls <- s8

Sheet == INSTANCE Websheet WITH
    Channels <- EventChannels, starting <- s1, open <- s2, current <- s3,
    completing <- s4, posted <- s5, messages <- s6, session <- s7,
    done <- s8, handlers <- s9, finishes <- s10, strays <- s11

Ussd == INSTANCE UssdTab WITH
    device <- s1, sessionId <- s2, sending <- s3, rounds <- s4, cancels <- s5,
    open <- s6

Mode == INSTANCE OperatorMode WITH
    device <- s1, open <- s2, loading <- s3, current <- s4, calls <- s5,
    modem <- s6, config <- s7

(* The slots a part of n variables leaves Off.                             *)
Spare(n) == /\ n < 7 => s7 = Off
            /\ n < 8 => s8 = Off
            /\ n < 9 => s9 = Off
            /\ n < 10 => s10 = Off
            /\ n < 11 => s11 = Off
            /\ n < 12 => s12 = Off
            /\ n < 13 => s13 = Off

Init ==
    \/ part = "sms" /\ Sms!Init /\ Spare(8)
    \/ part = "devices" /\ Devs!Init /\ Spare(9)
    \/ part = "live" /\ Live!Init /\ Spare(9)
    \/ part = "esim" /\ Esim!Init /\ Spare(10)
    \/ part = "policy" /\ Policy!Init /\ Spare(6)
    \/ part = "proxy" /\ Proxy!Init /\ Spare(9)
    \/ part = "upstream" /\ Upstream!Init /\ Spare(10)
    \/ part = "settings" /\ Settings!Init /\ Spare(13)
    \/ part = "logs" /\ Logs!Init /\ Spare(11)
    \/ part = "poll" /\ Poll!Init /\ Spare(7)
    \/ part = "session" /\ Ses!Init /\ Spare(11)
    \/ part = "dashboard" /\ Dashboard!Init /\ Spare(10)
    \/ part = "add" /\ Add!Init /\ Spare(8)
    \/ part = "websheet" /\ Sheet!Init /\ Spare(11)
    \/ part = "ussd" /\ Ussd!Init /\ Spare(6)
    \/ part = "operator" /\ Mode!Init /\ Spare(7)

(* A part changes its own variables.                                       *)
SmsStep == part = "sms" /\ Sms!Next /\ UNCHANGED <<part, s9, s10, s11, s12, s13>>
DevsStep == part = "devices" /\ Devs!Next /\ UNCHANGED <<part, s10, s11, s12, s13>>
LiveStep == part = "live" /\ Live!Next /\ UNCHANGED <<part, s10, s11, s12, s13>>
EsimStep == part = "esim" /\ Esim!Next /\ UNCHANGED <<part, s11, s12, s13>>
PolicyStep == part = "policy" /\ Policy!Next /\ UNCHANGED <<part, s7, s8, s9, s10, s11, s12, s13>>
ProxyStep == part = "proxy" /\ Proxy!Next /\ UNCHANGED <<part, s10, s11, s12, s13>>
UpstreamStep == part = "upstream" /\ Upstream!Next /\ UNCHANGED <<part, s11, s12, s13>>
SettingsStep == part = "settings" /\ Settings!Next /\ UNCHANGED <<part>>
LogsStep == part = "logs" /\ Logs!Next /\ UNCHANGED <<part, s12, s13>>
PollStep == part = "poll" /\ Poll!Next /\ UNCHANGED <<part, s8, s9, s10, s11, s12, s13>>
SesStep == part = "session" /\ Ses!Next /\ UNCHANGED <<part, s12, s13>>
DashboardStep == part = "dashboard" /\ Dashboard!Next /\ UNCHANGED <<part, s11, s12, s13>>
AddStep == part = "add" /\ Add!Next /\ UNCHANGED <<part, s9, s10, s11, s12, s13>>
SheetStep == part = "websheet" /\ Sheet!Next /\ UNCHANGED <<part, s12, s13>>
UssdStep == part = "ussd" /\ Ussd!Next /\ UNCHANGED <<part, s7, s8, s9, s10, s11, s12, s13>>
ModeStep == part = "operator" /\ Mode!Next /\ UNCHANGED <<part, s8, s9, s10, s11, s12, s13>>

Next ==
    \/ SmsStep \/ DevsStep \/ LiveStep \/ EsimStep \/ PolicyStep \/ ProxyStep
    \/ UpstreamStep \/ SettingsStep \/ LogsStep \/ PollStep \/ SesStep
    \/ DashboardStep \/ AddStep \/ SheetStep \/ UssdStep \/ ModeStep

Spec == Init /\ [][Next]_vars
-----------------------------------------------------------------------------
(* The types of what a page or a part keeps.                                *)
TypeOK ==
    /\ part = "sms" => Sms!TypeOK
    /\ part = "devices" => Devs!TypeOK
    /\ part = "live" => Live!TypeOK
    /\ part = "esim" => Esim!TypeOK
    /\ part = "policy" => Policy!TypeOK
    /\ part = "proxy" => Proxy!TypeOK
    /\ part = "upstream" => Upstream!TypeOK
    /\ part = "settings" => Settings!TypeOK
    /\ part = "logs" => Logs!TypeOK
    /\ part = "poll" => Poll!TypeOK
    /\ part = "session" => Ses!TypeOK
    /\ part = "dashboard" => Dashboard!TypeOK
    /\ part = "add" => Add!TypeOK
    /\ part = "websheet" => Sheet!TypeOK
    /\ part = "ussd" => Ussd!TypeOK
    /\ part = "operator" => Mode!TypeOK

(* What these marks tell is in flight: an answer will take the mark back,   *)
(* and nothing may supersede the one that would (the finally blocks of the  *)
(* pages, the sequence numbers of Sms.vue, the retries of                   *)
(* TrafficAnalysisPanel.vue). They are the lists' and the history's marks   *)
(* of the messages, and the marks of the proxies, the upstream proxies, the *)
(* settings, the dashboard, the dialog that adds a device, the USSD tab and *)
(* the operator mode; the marks of a thread, of the device list and of the  *)
(* eSIM tab are not among them.                                             *)
SpinnersEnd ==
    /\ part = "sms" => Sms!LoadingEnds
    /\ part = "proxy" => Proxy!SpinnersEnd
    /\ part = "upstream" => Upstream!FlagsEnd
    /\ part = "settings" => Settings!FlagsEnd
    /\ part = "dashboard" => Dashboard!FlagsEnd /\ Dashboard!ChartComes
    /\ part = "add" => Add!FlagsEnd
    /\ part = "ussd" => Ussd!OneRound
    /\ part = "operator" => Mode!FlagsEnd

(* What is loaded for a selection lands only there: the latest messages of  *)
(* a thread while it is selected, the details of a device while it is, and  *)
(* the entries of the log stream on a page that is not paused               *)
(* (fetchThreadLatest of Sms.vue, fetchSelectedDetail of Devices.vue,       *)
(* togglePause of Logs.vue). Older messages (loadMoreHistory) do not keep   *)
(* to it: HistoryLandsStep of SmsView.                                      *)
RepliesLand ==
    [][/\ part = "sms" => Sms!LatestLandsStep
       /\ part = "devices" => Devs!DetailIsSelectedStep
       /\ part = "logs" => Logs!PausedIsStillStep]_vars

(* No refresh takes the selection from the user (ensureThreadSelection of   *)
(* Sms.vue, fetchAll of Devices.vue).                                       *)
SelectionKept ==
    [][/\ part = "sms" => Sms!SelectionKeptStep
       /\ part = "devices" => Devs!SelectionStaysStep]_vars

(* What a device's page shows is the selected device's, or nothing: its     *)
(* analysis, its live readings and samples, and the chip of its eSIM tab    *)
(* (the watches of Devices.vue, fetchOverview of DeviceEsimTab.vue).        *)
ShownIsSelected ==
    /\ part = "live" => Live!AnalysisMatchesDetail /\ Live!LiveIsSelected
    /\ part = "esim" => Esim!ChipIsSelected

(* A page that stays is kept up to date, one that is left or paused is not: *)
(* polling and the stream of entries neither die nor come twice             *)
(* (usePollingScheduler.ts, useEventStream.ts).                             *)
StreamsLive ==
    /\ part = "poll" => Poll!PollLives
    /\ part = "logs" => Logs!stream!StreamLives /\ Logs!stream!QuietWhenUnwanted

(* A login leads back to the page a 401 took the user from, and no one is   *)
(* let past the disclaimer (stores/auth.ts, Login.vue, App.vue).            *)
SessionHolds ==
    part = "session" => Ses!RedirectRemembered /\ Ses!DisclaimerFirst

(* A websheet is finished by its own page, and once, whatever copies of its *)
(* messages or of another's arrive late; only the message of a flow that    *)
(* returned to the broker, which has no token, finishes what is shown       *)
(* (CarrierWebsheetDialog.vue, bridge.js, websheet.go).                     *)
FinishedOnce ==
    part = "websheet" => Sheet!FinishedByPage /\ Sheet!CompletedOnce
=============================================================================
