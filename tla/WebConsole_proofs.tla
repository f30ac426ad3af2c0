-------------------------- MODULE WebConsole_proofs --------------------------
(* Theorems about the pages of the web interface and of the parts they      *)
(* share.  A page is proved about where MCWebConsole puts it, in the slots  *)
(* s1 to s13: each section names the variable every slot of its page stands *)
(* for, and ends with the page's inductive invariant, kept by the page's    *)
(* steps (...Next) and true when it is mounted (...Init).  The last section *)
(* puts them together.                                                      *)
EXTENDS MCWebConsole, TLAPS, FiniteSetTheorems

-----------------------------------------------------------------------------
(* The scheduler of polling, usePollingScheduler.ts: a scheduler that is    *)
(* not stopped ticks again.  The slots: s1 for stopped, s2 for running, s3  *)
(* for ticking, s4 for interval, s5 for enabled, s6 for tasks, s7 for       *)
(* mounted.                                                                 *)

(* Polling is stopped exactly when its page is gone, and a task runs when   *)
(* the scheduler says so.                                                   *)
PollInv ==
    /\ s2 \in BOOLEAN /\ s3 \in BOOLEAN /\ s1 \in BOOLEAN
    /\ s7 \in BOOLEAN /\ s5 \in BOOLEAN /\ (s1 <=> ~ s7)
    /\ Poll!PollLives

LEMMA PollNext == ASSUME PollInv, [Poll!Next]_(Poll!vars) PROVE PollInv'
<1> USE DEF PollInv, Poll!PollLives
<1>1. CASE Poll!TickIdle
  <2>1. s3' = TRUE \/ s3' = FALSE
    BY <1>1 DEF Poll!TickIdle, Poll!Schedule
  <2>2. s7 => s3'
    BY <1>1 DEF Poll!TickIdle, Poll!Schedule
  <2> QED
    BY <1>1, <2>1, <2>2 DEF Poll!TickIdle
<1>2. CASE Poll!Tick
  <2>1. s6 = 0 /\ s2' = TRUE /\ s6' = 1
    BY <1>2 DEF Poll!Tick
  <2> QED
    BY <1>2, <2>1 DEF Poll!Tick
<1>3. ASSUME NEW ok \in BOOLEAN, Poll!TaskEnds(ok) PROVE PollInv'
  <2>1. s6 = 1
    BY <1>3 DEF Poll!TaskEnds
  <2>2. s6' = 0 /\ s2' = FALSE
    BY <1>3, <2>1 DEF Poll!TaskEnds
  <2>3. s3' = s7
    BY <1>3 DEF Poll!TaskEnds, Poll!Schedule
  <2> QED
    BY <1>3, <2>2, <2>3 DEF Poll!TaskEnds
<1>4. CASE Poll!Enable
  <2>1. s3' = TRUE
    BY <1>4 DEF Poll!Enable, Poll!Schedule
  <2> QED
    BY <1>4, <2>1 DEF Poll!Enable
<1>5. CASE Poll!Disable
  BY <1>5 DEF Poll!Disable
<1>6. CASE Poll!Unmount
  BY <1>6 DEF Poll!Unmount
<1>7. CASE UNCHANGED Poll!vars
  BY <1>7 DEF Poll!vars
<1> QED
  BY <1>1, <1>2, <1>3, <1>4, <1>5, <1>6, <1>7 DEF Poll!Next

LEMMA PollInit == Poll!Init => PollInv
  BY DEF Poll!Init, PollInv, Poll!PollLives

-----------------------------------------------------------------------------
(* The log page and its stream, Logs.vue and useEventStream.ts: the stream  *)
(* and the page's entries.  The slots: s1 for mounted, s2 for loading, s3   *)
(* for logs, s4 for paused, s5 for shownUp, s6 for muted, s7 for            *)
(* connection, s8 for dying, s9 for timer, s10 for connected, s11 for       *)
(* wanted.                                                                  *)

(* The flags of the stream and its connection; the number of aborted        *)
(* connections plays no part.  A stream is not wanted while it is muted:    *)
(* this is what makes it safe to drop the timer that goes off then.         *)
StreamFlags ==
    /\ s6 \in BOOLEAN /\ s9 \in BOOLEAN /\ s10 \in BOOLEAN /\ s11 \in BOOLEAN
    /\ s7 \in {"none", "broken", "fetching", "reading"}

MutedIsUnwanted == s6 => ~ s11

StreamInv == StreamFlags /\ Logs!stream!QuietWhenUnwanted /\ Logs!stream!StreamLives /\ MutedIsUnwanted

LEMMA StreamStep ==
    ASSUME StreamInv, [Logs!stream!Next]_(Logs!streamVars)
    PROVE  StreamInv'
<1> USE DEF StreamFlags, StreamInv, Logs!stream!QuietWhenUnwanted, Logs!stream!StreamLives,
            MutedIsUnwanted, Logs!stream!Unsettled
<1>1. ASSUME NEW p \in BOOLEAN, Logs!stream!ConnectWith(p) PROVE StreamInv'
  BY <1>1 DEF Logs!stream!ConnectWith
<1>2. CASE Logs!stream!Connect \/ \E p \in BOOLEAN : Logs!stream!SetPaused(p)
  BY <1>1, <1>2 DEF Logs!stream!Connect, Logs!stream!SetPaused
<1>3. CASE Logs!stream!Disconnect
  BY <1>3 DEF Logs!stream!Disconnect
<1>4. CASE Logs!stream!Open
  BY <1>4 DEF Logs!stream!Open
<1>5. ASSUME NEW left \in {"none", "broken"}, s7 \in Logs!stream!Unsettled,
             Logs!stream!Lost(left)
      PROVE  StreamInv'
  <2>1. s11 /\ ~ s9
    BY <1>5
  <2> QED
    BY <1>5, <2>1 DEF Logs!stream!Lost
<1>6. CASE Logs!stream!Fail \/ Logs!stream!Malformed \/ Logs!stream!End
  BY <1>5, <1>6 DEF Logs!stream!Fail, Logs!stream!Malformed, Logs!stream!End
<1>7. CASE Logs!stream!SeeAbort
  BY <1>7 DEF Logs!stream!SeeAbort
<1>8. CASE Logs!stream!TimerFires
  BY <1>1, <1>8 DEF Logs!stream!TimerFires
<1>9. CASE UNCHANGED Logs!streamVars
  BY <1>9 DEF Logs!streamVars
<1> QED
  BY <1>2, <1>3, <1>4, <1>6, <1>7, <1>8, <1>9 DEF Logs!stream!Next

(* To go on connects twice; every other handler of the page takes one step  *)
(* of the stream, or none.                                                  *)
LEMMA LogsNext == ASSUME StreamInv, [Logs!Next]_(Logs!vars) PROVE StreamInv'
<1>1. CASE Logs!Continue
  BY <1>1 DEF Logs!Continue, StreamFlags, StreamInv, Logs!stream!QuietWhenUnwanted,
       Logs!stream!StreamLives,
       MutedIsUnwanted, Logs!stream!Unsettled
<1>2. CASE Logs!HistoryReply \/ Logs!Pause \/ Logs!FilterChanges
  <2>1. \/ Logs!stream!SetPaused(FALSE) \/ Logs!stream!SetPaused(TRUE)
        \/ UNCHANGED Logs!streamVars
    BY <1>2 DEF Logs!HistoryReply, Logs!Pause, Logs!FilterChanges, Logs!Connect
  <2> QED
    BY <2>1, StreamStep DEF Logs!stream!Next
<1>3. CASE Logs!Entry \/ Logs!ClearLogs \/ Logs!Leave \/ Logs!StreamMoves
  <2>1. Logs!stream!Next \/ UNCHANGED Logs!streamVars
    BY <1>3 DEF Logs!Entry, Logs!ClearLogs, Logs!Leave, Logs!StreamMoves, Logs!stream!Next
  <2> QED
    BY <2>1, StreamStep
<1>4. CASE UNCHANGED Logs!vars
  BY <1>4, StreamStep DEF Logs!vars, Logs!streamVars
<1> QED
  BY <1>1, <1>2, <1>3, <1>4 DEF Logs!Next

LEMMA LogsInit == Logs!Init => StreamInv
  BY DEF Logs!Init, Logs!stream!Init, StreamFlags, StreamInv, Logs!stream!QuietWhenUnwanted,
     Logs!stream!StreamLives, MutedIsUnwanted, Logs!stream!Unsettled

(* Only the answer of the history, once, fills a page that stays paused.    *)
LEMMA PauseIsStill == Logs!Next => Logs!PausedIsStillStep
  BY DEF Logs!Next, Logs!HistoryReply, Logs!Pause, Logs!Continue, Logs!FilterChanges, Logs!Entry,
     Logs!ClearLogs, Logs!Leave, Logs!StreamMoves, Logs!PausedIsStillStep

-----------------------------------------------------------------------------
(* The session, stores/auth.ts, Login.vue and App.vue.  The slots: s1 for   *)
(* valid, s2 for issued, s3 for token, s4 for page, s5 for redirect, s6 for *)
(* stored, s7 for loggingIn, s8 for shown, s9 for agreed, s10 for calls,    *)
(* s11 for ejected.                                                         *)

(* Both places that remember a page remember the same one: a login page     *)
(* that is reached in another way forgets only the query.                   *)
Remembered == s11 # Ses!Nowhere => s6 = s11 /\ s5 \in {Ses!Nowhere, s11}

LEMMA NextRemembered == ASSUME Remembered, [Ses!Next]_(Ses!vars) PROVE Remembered'
<1> USE DEF Remembered, Ses!server, Ses!route, Ses!disclaimer
<1>1. ASSUME NEW p, Ses!Visit(p) PROVE Remembered'
  BY <1>1 DEF Ses!Visit
<1>2. CASE UNCHANGED Ses!route
  BY <1>2
<1>3. CASE Ses!Read \/ Ses!ChangePassword
  BY <1>2, <1>3 DEF Ses!Read, Ses!ChangePassword
<1>4. CASE Ses!Logout \/ Ses!Reload \/ Ses!SendLogin
  BY <1>4 DEF Ses!Logout, Ses!Reload, Ses!SendLogin
<1>5. CASE Ses!Unauthorized
  BY <1>5 DEF Ses!Unauthorized
<1>6. ASSUME NEW c, Ses!Answered(c) \/ Ses!Refused(c) \/ Ses!Failed(c) \/ Ses!LoginRefused(c)
      PROVE  Remembered'
  BY <1>2, <1>5, <1>6 DEF Ses!Answered, Ses!Refused, Ses!Failed, Ses!LoginRefused
<1>7. ASSUME NEW c, Ses!LoginSucceeds(c) PROVE Remembered'
  BY <1>7 DEF Ses!LoginSucceeds
<1>8. CASE Ses!Accept \/ Ses!WeekPasses \/ \E t \in s1 : Ses!Expire(t)
  BY <1>2, <1>8 DEF Ses!Accept, Ses!WeekPasses, Ses!Expire
<1>9. CASE UNCHANGED Ses!vars
  BY <1>2, <1>9 DEF Ses!vars
<1> QED
  BY <1>1, <1>3, <1>4, <1>6, <1>7, <1>8, <1>9 DEF Ses!Next

LEMMA NextDisclaimer ==
    ASSUME Ses!DisclaimerFirst, [Ses!Next]_(Ses!vars)
    PROVE  Ses!DisclaimerFirst'
<1> USE DEF Ses!DisclaimerFirst, Ses!server, Ses!route, Ses!disclaimer
<1>1. CASE UNCHANGED <<s3, s8, s9>>
  BY <1>1
<1>2. ASSUME NEW p, Ses!Visit(p) PROVE Ses!DisclaimerFirst'
  BY <1>1, <1>2 DEF Ses!Visit
<1>3. CASE Ses!Read \/ Ses!ChangePassword \/ Ses!SendLogin
  BY <1>1, <1>3 DEF Ses!Read, Ses!ChangePassword, Ses!SendLogin
<1>4. CASE Ses!Logout
  BY <1>4 DEF Ses!Logout
<1>5. CASE Ses!Reload
  BY <1>5 DEF Ses!Reload
<1>6. ASSUME NEW c, Ses!Answered(c) \/ Ses!Failed(c) PROVE Ses!DisclaimerFirst'
  BY <1>1, <1>6 DEF Ses!Answered, Ses!Failed
<1>7. ASSUME NEW c, Ses!Refused(c) \/ Ses!LoginRefused(c) PROVE Ses!DisclaimerFirst'
  BY <1>7 DEF Ses!Refused, Ses!LoginRefused, Ses!Unauthorized
<1>8. ASSUME NEW c, Ses!LoginSucceeds(c) PROVE Ses!DisclaimerFirst'
  BY <1>8 DEF Ses!LoginSucceeds
<1>9. CASE Ses!Accept \/ Ses!WeekPasses
  BY <1>9 DEF Ses!Accept, Ses!WeekPasses
<1>10. ASSUME NEW t, Ses!Expire(t) PROVE Ses!DisclaimerFirst'
  BY <1>1, <1>10 DEF Ses!Expire
<1>11. CASE UNCHANGED Ses!vars
  BY <1>1, <1>11 DEF Ses!vars
<1> QED
  BY <1>2, <1>3, <1>4, <1>5, <1>6, <1>7, <1>8, <1>9, <1>10, <1>11 DEF Ses!Next

SesInv == Remembered /\ Ses!DisclaimerFirst

LEMMA SesNext == ASSUME SesInv, [Ses!Next]_(Ses!vars) PROVE SesInv'
  BY NextRemembered, NextDisclaimer DEF SesInv

LEMMA SesInit == Ses!Init => SesInv
  BY DEF Ses!Init, SesInv, Remembered, Ses!DisclaimerFirst

LEMMA RememberedLeadsBack == Remembered => Ses!RedirectRemembered
  BY DEF Remembered, Ses!RedirectRemembered, Ses!Landing

-----------------------------------------------------------------------------
(* The websheet dialog, CarrierWebsheetDialog.vue, bridge.js and the        *)
(* broker.  The slots: s1 for starting, s2 for open, s3 for current, s4 for *)
(* completing, s5 for posted, s6 for messages, s7 for session, s8 for done, *)
(* s9 for handlers, s10 for finishes, s11 for strays.                       *)

SheetTyped ==
    /\ s5 \in [Sheets -> SUBSET Sheet!Posts]
    /\ s7 \in [Sheets -> {"none", "live", "gone"}]
    /\ s10 \in [Sheets -> Nat] /\ s11 \subseteq Sheets
    /\ s9 \subseteq [sheet : Sheets, callback : Sheet!Callbacks, pc : {"get", "found"}]
    /\ s2 => s3 \in Sheets

(* Whatever tells of the end of a websheet, or acts on it, goes back to     *)
(* what the websheet's own page has posted, and a message without a token   *)
(* to a flow that returned.                                                 *)
Told(s, k) == s \in Sheets /\ k \in s5[s]

Tokened(m) == m.token = m.sheet /\ m.callback \in Sheet!Callbacks
Strays(m) == m.token = None /\ m.callback = "none"

ToldByPage ==
    /\ \A m \in s6 : Told(m.sheet, m.callback) /\ (Tokened(m) \/ Strays(m))
    /\ \A h \in s9 : Told(h.sheet, h.callback)
    /\ \A c \in s4 : c.sheet \in s11 \/ Told(c.sheet, "terminal")

(* One websheet is completed at a time, and one that was completed is not   *)
(* shown any more once that is over: a websheet is never started again.     *)
CompletingOne ==
    /\ \A c, d \in s4 : c = d
    /\ \A s \in Sheets : s10[s] > 0 =>
          s7[s] # "none" /\ (s2 /\ s3 = s => s4 # {})
    /\ \A s \in Sheets : s2 /\ s3 = s => s7[s] # "none"

SheetInv == SheetTyped /\ ToldByPage /\ CompletingOne /\ Sheet!FinishedByPage /\ Sheet!CompletedOnce

LEMMA SheetTypedNext == ASSUME SheetInv, [Sheet!Next]_(Sheet!vars) PROVE SheetTyped'
<1> USE DEF SheetInv, SheetTyped, Sheet!dialog, Sheet!broker
<1>1. CASE Sheet!Start \/ Sheet!StartFails \/ Sheet!Close
  BY <1>1 DEF Sheet!Start, Sheet!StartFails, Sheet!Close
<1>2. ASSUME NEW s \in Sheets, Sheet!Started(s) \/ Sheet!Expire(s) PROVE SheetTyped'
  BY <1>2 DEF Sheet!Started, Sheet!Expire
<1>8. ASSUME NEW s \in Sheets, Sheet!Returned(s) PROVE SheetTyped'
  BY <1>8 DEF Sheet!Returned, Sheet!Posts
<1>3. ASSUME NEW s \in Sheets, NEW k \in Sheet!Callbacks, Sheet!Post(s, k) PROVE SheetTyped'
  BY <1>3 DEF Sheet!Post, Sheet!Handler, Sheet!Posts
<1>4. ASSUME NEW m \in s6, Sheet!Message(m) PROVE SheetTyped'
  <2>1. /\ s2' = s2 /\ s3' = s3 /\ s5' = s5 /\ s7' = s7
    BY <1>4 DEF Sheet!Message
  <2>2. s9' = s9 \/ s9' = s9 \cup {Sheet!Handler(s3, "progress")}
    BY <1>4 DEF Sheet!Message
  <2>3. s2 => Sheet!Handler(s3, "progress") \in
           [sheet : Sheets, callback : Sheet!Callbacks, pc : {"get", "found"}]
    BY DEF Sheet!Handler, Sheet!Callbacks
  <2>4. s9' # s9 => s2
    BY <1>4 DEF Sheet!Message
  <2>5. s9' \subseteq [sheet : Sheets, callback : Sheet!Callbacks, pc : {"get", "found"}]
    BY <2>2, <2>3, <2>4
  <2>6. s10' \in [Sheets -> Nat] /\ s11' \subseteq Sheets
    BY <1>4 DEF Sheet!Message, Sheet!CompleteWebsheet
  <2> QED
    BY <2>1, <2>5, <2>6
<1>5. ASSUME NEW c \in s4, Sheet!ServerDone(c) \/ Sheet!Completed(c) PROVE SheetTyped'
  BY <1>5 DEF Sheet!ServerDone, Sheet!Completed
<1>6. ASSUME NEW h \in s9, Sheet!Get(h) \/ Sheet!Answer(h) PROVE SheetTyped'
  BY <1>6 DEF Sheet!Get, Sheet!Answer
<1>7. CASE UNCHANGED Sheet!vars
  BY <1>7 DEF Sheet!vars
<1> QED
  BY <1>1, <1>2, <1>3, <1>4, <1>5, <1>6, <1>7, <1>8 DEF Sheet!Next

LEMMA ToldByPageNext ==
    ASSUME SheetInv, [Sheet!Next]_(Sheet!vars)
    PROVE  ToldByPage' /\ Sheet!FinishedByPage'
<1> USE DEF SheetInv, SheetTyped, ToldByPage, Told, Tokened, Strays, Sheet!FinishedByPage,
             Sheet!dialog, Sheet!broker
<1>1. CASE Sheet!Start \/ Sheet!StartFails \/ Sheet!Close
  BY <1>1 DEF Sheet!Start, Sheet!StartFails, Sheet!Close
<1>2. ASSUME NEW s \in Sheets, Sheet!Started(s) \/ Sheet!Expire(s)
      PROVE  ToldByPage' /\ Sheet!FinishedByPage'
  BY <1>2 DEF Sheet!Started, Sheet!Expire
<1>8. ASSUME NEW s \in Sheets, Sheet!Returned(s) PROVE ToldByPage' /\ Sheet!FinishedByPage'
  <2>1. /\ s5' = [s5 EXCEPT ![s] = @ \cup {"none"}]
        /\ \A x \in Sheets : s5[x] \subseteq s5'[x]
        /\ "none" \in s5'[s]
    BY <1>8 DEF Sheet!Returned
  <2>2. s6' = s6 \cup
           {[sheet |-> s, token |-> None, callback |-> "none", by |-> None]}
    BY <1>8 DEF Sheet!Returned
  <2>3. \A x \in Sheets : "terminal" \in s5'[x] <=> "terminal" \in s5[x]
    BY <2>1
  <2> QED
    BY <1>8, <2>1, <2>2, <2>3 DEF Sheet!Returned
<1>3. ASSUME NEW s \in Sheets, NEW k \in Sheet!Callbacks, Sheet!Post(s, k)
      PROVE  ToldByPage' /\ Sheet!FinishedByPage'
  <2>1. /\ s \in Sheets /\ s5' = [s5 EXCEPT ![s] = @ \cup {k}]
        /\ \A x \in Sheets : s5[x] \subseteq s5'[x]
        /\ k \in s5'[s]
    BY <1>3 DEF Sheet!Post
  <2>2. \A m \in s6' \ s6 : m.sheet = s /\ m.token = s /\ m.callback = k
    BY <1>3 DEF Sheet!Post
  <2>3. \A h \in s9' \ s9 : h.sheet = s /\ h.callback = k
    BY <1>3 DEF Sheet!Post, Sheet!Handler
  <2>4. ToldByPage'
    BY <1>3, <2>1, <2>2, <2>3 DEF Sheet!Post
  <2> QED
    BY <1>3, <2>1, <2>4 DEF Sheet!Post
<1>4. ASSUME NEW m \in s6, Sheet!Message(m) PROVE ToldByPage' /\ Sheet!FinishedByPage'
  <2>1. /\ s6' \subseteq s6
        /\ s5' = s5 /\ s8' = s8
    BY <1>4 DEF Sheet!Message
  <2>2. CASE /\ s4' = s4 /\ s10' = s10 /\ s11' = s11
             /\ s9' = s9
    BY <2>1, <2>2
  <2>3. CASE /\ Sheet!IsCurrent(m) /\ m.callback = "progress" /\ s2
             /\ s9' = s9 \cup {Sheet!Handler(s3, m.callback)}
             /\ s4' = s4 /\ s10' = s10 /\ s11' = s11
    <3>1. m.sheet = s3
      BY <2>3, NoneAssumption DEF Sheet!IsCurrent
    <3> QED
      BY <2>1, <2>3, <3>1 DEF Sheet!Handler
  <2>4. CASE /\ Sheet!IsCurrent(m) /\ m.callback # "progress" /\ s2
             /\ Sheet!CompleteWebsheet(m) /\ s9' = s9
    <3>1. /\ s4' = s4 \cup {[sheet |-> s3, call |-> s10[s3]]}
          /\ s10' = [s10 EXCEPT ![s3] = @ + 1]
          /\ s3 \in Sheets /\ s11 \subseteq s11'
      BY <2>4 DEF Sheet!CompleteWebsheet
    <3>2. CASE m.token = None
      <4>1. s11' = s11 \cup {s3} /\ "none" \in s5[m.sheet]
        BY <2>4, <3>1, <3>2, NoneAssumption DEF Sheet!CompleteWebsheet
      <4> QED
        BY <2>1, <2>4, <3>1, <4>1
    <3>3. CASE m.token # None
      <4>1. m.sheet = s3 /\ s11' = s11
        BY <2>4, <3>3 DEF Sheet!CompleteWebsheet, Sheet!IsCurrent
      <4>2. "terminal" \in s5[s3]
        BY <2>4, <3>3, <4>1 DEF Sheet!Callbacks
      <4> QED
        BY <2>1, <2>4, <3>1, <4>1, <4>2
    <3> QED
      BY <3>2, <3>3
  <2> QED
    BY <1>4, <2>2, <2>3, <2>4 DEF Sheet!Message
<1>5. ASSUME NEW c \in s4, Sheet!ServerDone(c) \/ Sheet!Completed(c)
      PROVE  ToldByPage' /\ Sheet!FinishedByPage'
  BY <1>5 DEF Sheet!ServerDone, Sheet!Completed
<1>6. ASSUME NEW h \in s9, Sheet!Get(h) \/ Sheet!Answer(h)
      PROVE  ToldByPage' /\ Sheet!FinishedByPage'
  <2>1. \A x \in s9' : \E y \in s9 : x.sheet = y.sheet /\ x.callback = y.callback
    BY <1>6 DEF Sheet!Get, Sheet!Answer
  <2>2. ToldByPage'
    BY <1>6, <2>1 DEF Sheet!Get, Sheet!Answer
  <2>3. \A s \in s8' : s \in s8 \/ (s = h.sheet /\ h.callback = "terminal")
    BY <1>6 DEF Sheet!Get, Sheet!Answer
  <2> QED
    BY <1>6, <2>2, <2>3 DEF Sheet!Get, Sheet!Answer
<1>7. CASE UNCHANGED Sheet!vars
  BY <1>7 DEF Sheet!vars
<1> QED
  BY <1>1, <1>2, <1>3, <1>4, <1>5, <1>6, <1>7, <1>8 DEF Sheet!Next

LEMMA CompletingOneNext ==
    ASSUME SheetInv, [Sheet!Next]_(Sheet!vars)
    PROVE  CompletingOne' /\ Sheet!CompletedOnce'
<1> USE DEF SheetInv, SheetTyped, CompletingOne, Sheet!CompletedOnce, Sheet!dialog, Sheet!broker
<1>1. CASE Sheet!Start \/ Sheet!StartFails \/ Sheet!Close
  BY <1>1 DEF Sheet!Start, Sheet!StartFails, Sheet!Close
<1>2. ASSUME NEW s \in Sheets, Sheet!Started(s) PROVE CompletingOne' /\ Sheet!CompletedOnce'
  <2>1. s10[s] = 0
    BY <1>2 DEF Sheet!Started
  <2> QED
    BY <1>2, <2>1 DEF Sheet!Started
<1>3. ASSUME NEW s \in Sheets, Sheet!Expire(s) PROVE CompletingOne' /\ Sheet!CompletedOnce'
  BY <1>3 DEF Sheet!Expire
<1>4. ASSUME NEW s \in Sheets, NEW k \in Sheet!Callbacks, Sheet!Post(s, k)
      PROVE  CompletingOne' /\ Sheet!CompletedOnce'
  BY <1>4 DEF Sheet!Post
<1>10. ASSUME NEW s \in Sheets, Sheet!Returned(s) PROVE CompletingOne' /\ Sheet!CompletedOnce'
  BY <1>10 DEF Sheet!Returned
<1>5. ASSUME NEW m \in s6, Sheet!Message(m) PROVE CompletingOne' /\ Sheet!CompletedOnce'
  <2>1. s7' = s7 /\ s3' = s3 /\ s2' = s2
    BY <1>5 DEF Sheet!Message
  <2>2. CASE s4' = s4 /\ s10' = s10
    BY <2>1, <2>2
  <2>3. CASE s2 /\ s4 = {} /\ Sheet!CompleteWebsheet(m)
    <3>1. /\ s4' = {[sheet |-> s3, call |-> s10[s3]]}
          /\ s10' = [s10 EXCEPT ![s3] = @ + 1]
          /\ s3 \in Sheets /\ s10[s3] = 0 /\ s7[s3] # "none"
      BY <2>3 DEF Sheet!CompleteWebsheet
    <3> QED
      BY <2>1, <2>3, <3>1
  <2> QED
    BY <1>5, <2>2, <2>3 DEF Sheet!Message, Sheet!MayComplete
<1>6. ASSUME NEW c \in s4, Sheet!ServerDone(c) PROVE CompletingOne' /\ Sheet!CompletedOnce'
  BY <1>6 DEF Sheet!ServerDone
<1>7. ASSUME NEW c \in s4, Sheet!Completed(c) PROVE CompletingOne' /\ Sheet!CompletedOnce'
  <2>1. s2' = FALSE /\ s3' = None /\ s4' = {}
    BY <1>7 DEF Sheet!Completed
  <2> QED
    BY <1>7, <2>1 DEF Sheet!Completed
<1>8. ASSUME NEW h \in s9, Sheet!Get(h) \/ Sheet!Answer(h)
      PROVE  CompletingOne' /\ Sheet!CompletedOnce'
  BY <1>8 DEF Sheet!Get, Sheet!Answer
<1>9. CASE UNCHANGED Sheet!vars
  BY <1>9 DEF Sheet!vars
<1> QED
  BY <1>1, <1>2, <1>3, <1>4, <1>5, <1>6, <1>7, <1>8, <1>9, <1>10 DEF Sheet!Next

LEMMA SheetNext == ASSUME SheetInv, [Sheet!Next]_(Sheet!vars) PROVE SheetInv'
  BY SheetTypedNext, ToldByPageNext, CompletingOneNext DEF SheetInv

LEMMA SheetInit == Sheet!Init => SheetInv
  BY DEF Sheet!Init, SheetInv, SheetTyped, ToldByPage, CompletingOne, Sheet!FinishedByPage,
       Sheet!CompletedOnce

-----------------------------------------------------------------------------
(* A device's live panels, the watches of Devices.vue and                   *)
(* TrafficAnalysisPanel.vue.  The slots: s1 for selected, s2 for            *)
(* shownDetail, s3 for connected, s4 for cached, s5 for fallback, s6 for    *)
(* window, s7 for analysis, s8 for analysisLoading, s9 for analyses.        *)

(* The timer of the fallback is for the details that are shown.             *)
FallbackIsShown == s5 \in {None, s2}

LiveInv ==
    /\ s1 \in Live!Ids /\ s2 \in Live!Ids
    /\ s8 \in BOOLEAN /\ s9 \subseteq [of : Live!Ids, current : BOOLEAN]
    /\ FallbackIsShown /\ Live!AnalysisMatchesDetail /\ Live!LiveIsSelected

(* An analysis that is reset, asked for or kept.                            *)
AnalysisGood ==
    /\ s8 \in BOOLEAN /\ s9 \subseteq [of : Live!Ids, current : BOOLEAN]
    /\ Live!AnalysisMatchesDetail

LEMMA SupersededNone ==
    ASSUME NEW as, as \subseteq [of : Live!Ids, current : BOOLEAN]
    PROVE  \A a \in Live!Superseded(as) : a \in [of : Live!Ids, current : BOOLEAN] /\ ~ a.current
  BY DEF Live!Superseded

LEMMA ResetGood == ASSUME LiveInv, Live!ResetAnalysis PROVE AnalysisGood'
<1>1. \A a \in s9' : a \in [of : Live!Ids, current : BOOLEAN] /\ ~ a.current
  BY SupersededNone DEF LiveInv, Live!ResetAnalysis
<1> QED
  BY <1>1 DEF AnalysisGood, Live!AnalysisMatchesDetail, Live!ResetAnalysis

LEMMA FetchGood ==
    ASSUME LiveInv, NEW id \in Live!Ids, s2' = id, Live!FetchAnalysis(id)
    PROVE  AnalysisGood'
<1>1. CASE Live!ResetAnalysis
  BY <1>1, ResetGood
<1>2. CASE /\ s9' = Live!Superseded(s9) \cup {[of |-> id, current |-> TRUE]}
           /\ s8' = TRUE
  <2>1. \A a \in Live!Superseded(s9) : a \in [of : Live!Ids, current : BOOLEAN] /\ ~ a.current
    BY SupersededNone DEF LiveInv
  <2> DEFINE new == [of |-> id, current |-> TRUE]
  <2>2. new \in s9' /\ new.current = TRUE /\ new.of = s2'
    BY <1>2
  <2>3. \A a \in s9' : a = new \/ (a \in [of : Live!Ids, current : BOOLEAN] /\ ~ a.current)
    BY <1>2, <2>1
  <2>4. new \in [of : Live!Ids, current : BOOLEAN]
    OBVIOUS
  <2>5. (\E a \in s9' : a.current) /\ \A a \in s9' : a.current => a.of = s2'
    BY <2>2, <2>3
  <2> QED
    BY <1>2, <2>3, <2>4, <2>5 DEF AnalysisGood, Live!AnalysisMatchesDetail
<1> QED
  BY <1>1, <1>2 DEF Live!FetchAnalysis

LEMMA KeepGood ==
    ASSUME LiveInv, Live!KeepAnalysis, s2' = s2
    PROVE  AnalysisGood'
  BY DEF LiveInv, Live!KeepAnalysis, AnalysisGood, Live!AnalysisMatchesDetail

LEMMA LiveNext == ASSUME LiveInv, [Live!Next]_(Live!vars) PROVE LiveInv'
<1> USE DEF FallbackIsShown, Live!LiveIsSelected
<1> DEFINE Good == /\ AnalysisGood /\ FallbackIsShown /\ Live!LiveIsSelected
                   /\ s1 \in Live!Ids /\ s2 \in Live!Ids
<1>1. SUFFICES Good'
  BY DEF LiveInv, AnalysisGood
<1>2. ASSUME NEW id \in Live!Ids, Live!Select(id)
      PROVE  Good'
  BY <1>2, ResetGood DEF Live!Select, LiveInv, Live!Ids
<1>3. ASSUME NEW live \in {"yes", "no", "unknown"}, NEW conn \in BOOLEAN,
             Live!DetailArrives(live, conn)
      PROVE  Good'
  <2>1. FallbackIsShown' /\ Live!LiveIsSelected'
    BY <1>3 DEF LiveInv, Live!DetailArrives, Live!UpdateSpeed
  <2>2. s2' = s1 /\ s1' = s1 /\ s1 \in Live!Ids
    BY <1>3 DEF Live!DetailArrives, LiveInv
  <2>3. Live!FetchAnalysis(s1) \/ (s2 = s1 /\ Live!KeepAnalysis)
    BY <1>3 DEF Live!DetailArrives
  <2> QED
    BY <1>3, <2>1, <2>2, <2>3, FetchGood, KeepGood
<1>4. CASE Live!DetailFails
  BY <1>4, KeepGood DEF Live!DetailFails, Live!UpdateSpeed, LiveInv
<1>5. ASSUME NEW d, Live!CacheAges(d) PROVE Good'
  BY <1>5, KeepGood DEF Live!CacheAges, LiveInv
<1>6. CASE Live!FallbackFires
  <2>1. s2' = s2
    BY <1>6 DEF Live!FallbackFires, LiveInv
  <2> QED
    BY <1>6, <2>1, KeepGood DEF Live!FallbackFires, Live!UpdateSpeed, LiveInv
<1>7. CASE Live!TrafficEvent
  BY <1>7, KeepGood DEF Live!TrafficEvent, LiveInv
<1>8. CASE Live!RefreshAnalysis
  <2>1. s2' = s2 /\ Live!FetchAnalysis(s2)
    BY <1>8 DEF Live!RefreshAnalysis
  <2> QED
    BY <1>8, <2>1, FetchGood DEF Live!RefreshAnalysis, LiveInv
<1>9. ASSUME NEW a \in s9, Live!AnalysisReply(a)
      PROVE  Good'
  <2>1. /\ FallbackIsShown' /\ Live!LiveIsSelected'
        /\ s2' = s2 /\ s1' = s1
        /\ s1 \in Live!Ids /\ s2 \in Live!Ids
    BY <1>9 DEF Live!AnalysisReply, LiveInv
  <2>2. \A b \in s9 : b.current => b.of = s2 /\ b.current = TRUE
    BY DEF LiveInv, Live!AnalysisMatchesDetail
  <2>3. CASE a.current
    <3>1. \A b \in s9 \ {a} : ~ b.current
      BY <2>2, <2>3 DEF LiveInv
    <3> QED
      BY <1>9, <2>1, <2>2, <2>3, <3>1 DEF Live!AnalysisReply, LiveInv, AnalysisGood,
         Live!AnalysisMatchesDetail
  <2>4. CASE ~ a.current
    BY <1>9, <2>1, <2>4 DEF Live!AnalysisReply, LiveInv, AnalysisGood,
         Live!AnalysisMatchesDetail
  <2> QED
    BY <2>1, <2>3, <2>4
<1>10. CASE UNCHANGED Live!vars
  <2>1. Live!KeepAnalysis /\ UNCHANGED <<s2, s5, s6, s1>>
    BY <1>10 DEF Live!vars, Live!KeepAnalysis
  <2> QED
    BY <2>1, KeepGood DEF LiveInv
<1> QED
  BY <1>2, <1>3, <1>4, <1>5, <1>6, <1>7, <1>8, <1>9, <1>10 DEF Live!Next

LEMMA LiveInit == Live!Init => LiveInv
  BY DEF Live!Init, LiveInv, Live!Ids, FallbackIsShown, Live!AnalysisMatchesDetail,
       Live!LiveIsSelected

-----------------------------------------------------------------------------
(* The eSIM tab, DeviceEsimTab.vue.  The slots: s1 for device, s2 for       *)
(* active, s3 for chip, s4 for profiles, s5 for overviewLoading, s6 for     *)
(* profilesRefreshing, s7 for notifications, s8 for notificationsLoading,   *)
(* s9 for retrying, s10 for queries.                                        *)

(* An overview that may still land was asked for of the device of the tab.  *)
LastIsOwn(qs, d) == \A q \in qs : q.op \in Esim!Overviews /\ q.state = "current" => q.of = d

EsimInv ==
    /\ s1 \in Devices /\ s10 \subseteq Esim!Queries
    /\ LastIsOwn(s10, s1) /\ Esim!ChipIsSelected

(* What a mark does to the overviews in flight.                             *)
LEMMA QueryMarkPasses ==
    ASSUME NEW qs \in SUBSET Esim!Queries, NEW from, NEW to \in {"aborted", "superseded"},
           "current" \in from, NEW d
    PROVE  Esim!Mark(qs, from, to) \subseteq Esim!Queries /\ LastIsOwn(Esim!Mark(qs, from, to), d)
<1>1. ASSUME NEW q \in qs
      PROVE  /\ [q EXCEPT !.state = to] \in Esim!Queries
             /\ [q EXCEPT !.state = to].state = to
  BY DEF Esim!Queries
<1>2. to # "current"
  OBVIOUS
<1> QED
  BY <1>1, <1>2 DEF Esim!Mark, LastIsOwn

LEMMA QueryPasses ==
    ASSUME NEW d \in Devices,
           NEW op \in Esim!Overviews \cup Esim!Operations \cup {"profiles", "notifications", "retry", "reread"}
    PROVE  Esim!Query(op, d) \in Esim!Queries /\ Esim!Query(op, d).of = d
  BY DEF Esim!Query, Esim!Queries

LEMMA FetchPasses ==
    ASSUME NEW qs \in SUBSET Esim!Queries, NEW d \in Devices, NEW op \in Esim!Overviews,
           Esim!FetchOverview(op, d, qs)
    PROVE  s10' \subseteq Esim!Queries /\ LastIsOwn(s10', d)
<1>1. /\ Esim!Mark(qs, {"current", "aborted"}, "superseded") \subseteq Esim!Queries
      /\ LastIsOwn(Esim!Mark(qs, {"current", "aborted"}, "superseded"), d)
  BY QueryMarkPasses
<1>2. Esim!Query(op, d) \in Esim!Queries /\ Esim!Query(op, d).of = d
  BY QueryPasses
<1> QED
  BY <1>1, <1>2 DEF Esim!FetchOverview, LastIsOwn

LEMMA EsimNext == ASSUME EsimInv, [Esim!Next]_(Esim!vars) PROVE EsimInv'
<1> USE DEF EsimInv, Esim!ChipIsSelected, Esim!shown, Esim!notes
<1>1. ASSUME NEW d \in Devices, NEW a \in BOOLEAN, Esim!Change(d, a) PROVE EsimInv'
  <2>1. CASE ~ a
    BY <1>1, <2>1, QueryMarkPasses DEF Esim!Change
  <2>2. CASE a
    BY <1>1, <2>2, FetchPasses DEF Esim!Change, Esim!Overviews
  <2> QED
    BY <2>1, <2>2
<1>2. CASE Esim!Refresh
  BY <1>2, FetchPasses DEF Esim!Refresh, Esim!Overviews
<1>3. CASE Esim!OpenNotifications \/ Esim!RetryNotification
  BY <1>3, QueryPasses DEF Esim!OpenNotifications, Esim!RetryNotification, LastIsOwn
<1>4. ASSUME NEW op \in Esim!Operations, Esim!Operate(op) PROVE EsimInv'
  BY <1>4, QueryPasses DEF Esim!Operate, LastIsOwn
<1>5. ASSUME NEW q \in s10, Esim!OverviewReply(q) PROVE EsimInv'
  BY <1>5 DEF Esim!OverviewReply, LastIsOwn
<1>6. ASSUME NEW q \in s10, Esim!ProfilesReply(q) \/ Esim!NotificationsReply(q) PROVE EsimInv'
  BY <1>6 DEF Esim!ProfilesReply, Esim!NotificationsReply, LastIsOwn
<1>7. ASSUME NEW q \in s10, Esim!OperationReply(q) PROVE EsimInv'
  <2>1. CASE s10' \subseteq s10 \cup {Esim!Query("profiles", s1)} /\ UNCHANGED s3
    BY <1>7, <2>1, QueryPasses DEF Esim!OperationReply, LastIsOwn
  <2>2. CASE Esim!FetchOverview("refresh", s1, s10 \ {q}) /\ UNCHANGED s3
    BY <1>7, <2>2, FetchPasses DEF Esim!OperationReply, Esim!Overviews
  <2> QED
    BY <1>7, <2>1, <2>2 DEF Esim!OperationReply
<1>8. ASSUME NEW q \in s10, Esim!RetryReply(q) PROVE EsimInv'
  <2>1. s10' \subseteq s10 \cup {Esim!Query("reread", s1)}
    BY <1>8 DEF Esim!RetryReply
  <2> QED
    BY <1>8, <2>1, QueryPasses DEF Esim!RetryReply, LastIsOwn
<1>9. CASE UNCHANGED Esim!vars
  BY <1>9 DEF Esim!vars
<1> QED
  BY <1>1, <1>2, <1>3, <1>4, <1>5, <1>6, <1>7, <1>8, <1>9 DEF Esim!Next

LEMMA EsimInit == Esim!Init => EsimInv
  BY QueryPasses DEF Esim!Init, EsimInv, Esim!ChipIsSelected, LastIsOwn, Esim!Overviews

-----------------------------------------------------------------------------
(* The message centre, Sms.vue.  The slots: s1 for selectedDevice, s2 for   *)
(* selectedKey, s3 for threads, s4 for shown, s5 for loading, s6 for        *)
(* threadLoading, s7 for loadingHistoryMore, s8 for calls.                  *)

(* What is known of the calls: their shape, and that only the poll is       *)
(* silent.                                                                  *)
Sound(cs) ==
    /\ \A c \in cs : {"op", "what", "then", "cur"} \subseteq DOMAIN c
    /\ \A c \in cs : c.op \in {"deleteMessage", "deleteThread"} => ~ Sms!Silent(c.then)

(* The calls that take the marks back, and those whose messages may still   *)
(* be shown: of the selected thread, if one is selected.                    *)
Spinning(cs) == \E c \in cs : c.op = "contacts" /\ c.cur /\ ~ Sms!Silent(c.then)
Reaching(cs) == \E c \in cs : c.op = "history"
ThreadOwn(cs, key) == \A c \in cs : c.op = "thread" /\ c.cur => key \in {c.what, None}

SmsInv ==
    /\ Sound(s8) /\ ThreadOwn(s8, s2)
    /\ s5 => Spinning(s8)
    /\ s7 => Reaching(s8)

(* The requests of one kind are superseded.                                 *)
Drop(cs, op) == {IF c.op = op THEN [c EXCEPT !.cur = FALSE] ELSE c : c \in cs}

LEMMA DropPasses ==
    ASSUME NEW cs, Sound(cs), NEW op
    PROVE  /\ Sound(Drop(cs, op))
           /\ \A c \in Drop(cs, op) : c.op = op => c.cur = FALSE
           /\ \A c \in Drop(cs, op) : c.op # op => c \in cs
           /\ \A c \in cs : c.op # op => c \in Drop(cs, op)
<1>1. \A c \in cs : LET d == [c EXCEPT !.cur = FALSE] IN
          /\ {"op", "what", "then", "cur"} \subseteq DOMAIN d
          /\ d.op = c.op /\ d.then = c.then /\ d.cur = FALSE
  BY DEF Sound
<1> QED
  BY <1>1 DEF Drop, Sound

LEMMA CallDomain ==
    ASSUME NEW a, NEW b, NEW t
    PROVE  {"op", "what", "then", "cur"} \subseteq DOMAIN Sms!Call(a, b, t)
  BY DEF Sms!Call

LEMMA CallShape ==
    ASSUME NEW a, NEW b, NEW t
    PROVE  /\ Sms!Call(a, b, t).op = a /\ Sms!Call(a, b, t).what = b
           /\ Sms!Call(a, b, t).then = t
  BY DEF Sms!Call

LEMMA CallIsLast ==
    ASSUME NEW a, NEW b, NEW t
    PROVE  Sms!Call(a, b, t).cur
  BY DEF Sms!Call

LEMMA CallSound ==
    ASSUME NEW a, NEW b, NEW t, a \notin {"deleteMessage", "deleteThread"} \/ ~ Sms!Silent(t)
    PROVE  Sound({Sms!Call(a, b, t)})
<1> DEFINE c == Sms!Call(a, b, t)
<1>1. {"op", "what", "then", "cur"} \subseteq DOMAIN c
  BY CallDomain
<1>2. c.op = a /\ c.then = t
  BY CallShape
<1> HIDE DEF c
<1>3. Sound({c})
  BY <1>1, <1>2 DEF Sound
<1> QED
  BY <1>3 DEF c

LEMMA SoundUnion ==
    ASSUME NEW cs, NEW ds, Sound(cs), Sound(ds)
    PROVE  Sound(cs \cup ds)
  BY DEF Sound

LEMMA WithPasses ==
    ASSUME NEW cs, Sound(cs), NEW op \in {"contacts", "thread", "devices"}, NEW what, NEW then
    PROVE  /\ Sound(Sms!With(cs, op, what, then))
           /\ Sms!Call(op, what, then) \in Sms!With(cs, op, what, then)
           /\ \A c \in Sms!With(cs, op, what, then) :
                 c.op = op => c.cur = FALSE \/ c = Sms!Call(op, what, then)
           /\ \A c \in Sms!With(cs, op, what, then) : c.op # op => c \in cs
           /\ \A c \in cs : c.op # op => c \in Sms!With(cs, op, what, then)
<1>1. Sms!With(cs, op, what, then) = Drop(cs, op) \cup {Sms!Call(op, what, then)}
  BY DEF Sms!With, Drop
<1>2. Sound({Sms!Call(op, what, then)}) /\ Sms!Call(op, what, then).op = op
  BY CallSound, CallShape
<1> DEFINE x == Sms!Call(op, what, then)
<1> HIDE DEF x
<1>3. Sms!With(cs, op, what, then) = Drop(cs, op) \cup {x} /\ Sound({x}) /\ x.op = op
  BY <1>1, <1>2 DEF x
<1>4. Sound(Sms!With(cs, op, what, then))
  <2>1. Sound(Drop(cs, op))
    BY DropPasses
  <2> QED
    BY <1>3, <2>1, SoundUnion
<1>5. /\ x \in Sms!With(cs, op, what, then)
      /\ \A c \in Sms!With(cs, op, what, then) : c.op = op => c.cur = FALSE \/ c = x
      /\ \A c \in Sms!With(cs, op, what, then) : c.op # op => c \in cs
      /\ \A c \in cs : c.op # op => c \in Sms!With(cs, op, what, then)
  BY <1>3, DropPasses
<1> QED
  BY <1>4, <1>5 DEF x

(* Calls that go on from cs: nothing that takes a mark back is lost.        *)
Onward(cs) ==
    /\ Sound(s8') /\ ThreadOwn(s8', s2')
    /\ Spinning(cs) => Spinning(s8')
    /\ Reaching(cs) => Reaching(s8')

LEMMA ThreadOnward ==
    ASSUME NEW cs, Sound(cs), NEW key, NEW then, Sms!FetchThread(key, then, cs), s2' = key
    PROVE  Onward(cs)
<1> DEFINE x == Sms!Call("thread", key, then)
<1>1. x.op = "thread" /\ x.what = key /\ s8' = Sms!With(cs, "thread", key, then)
  BY CallShape DEF Sms!FetchThread
<1>2. /\ Sound(s8')
      /\ \A c \in s8' : c.op = "thread" => c.cur = FALSE \/ c = x
      /\ \A c \in cs : c.op # "thread" => c \in s8'
  BY <1>1, WithPasses
<1> HIDE DEF x
<1>3. ThreadOwn(s8', key)
  BY <1>1, <1>2 DEF ThreadOwn
<1> QED
  BY <1>2, <1>3 DEF Onward, Spinning, Reaching

LEMMA ClearOnward ==
    ASSUME NEW cs, Sound(cs), Sms!ClearSelected(cs)
    PROVE  Onward(cs)
<1>1. s8' = Drop(cs, "thread") /\ s2' = None
  BY DEF Sms!ClearSelected, Drop
<1> QED
  BY <1>1, DropPasses DEF Onward, ThreadOwn, Spinning, Reaching

LEMMA StayOnward ==
    ASSUME NEW cs, Sound(cs), ThreadOwn(cs, s2), s8' = cs, s2' \in {s2, None}
    PROVE  Onward(cs)
  BY DEF Onward, ThreadOwn

LEMMA EnsureOnward ==
    ASSUME NEW cs, Sound(cs), ThreadOwn(cs, s2), NEW list, NEW then, Sms!EnsureThread(list, then, cs)
    PROVE  Onward(cs)
<1>1. CASE Sms!FetchThread(s2, then, cs) /\ UNCHANGED s2
  BY <1>1, ThreadOnward
<1>2. CASE Sms!ClearSelected(cs)
  BY <1>2, ClearOnward
<1>3. CASE s2' = None /\ s8' = cs
  BY <1>3, StayOnward
<1>4. ASSUME NEW key, Sms!ShowThread(key, then, cs) PROVE Onward(cs)
  BY <1>4, ThreadOnward DEF Sms!ShowThread
<1> QED
  BY <1>1, <1>2, <1>3, <1>4 DEF Sms!EnsureThread

LEMMA AfterOnward ==
    ASSUME NEW cs, Sound(cs), ThreadOwn(cs, s2), NEW c, NEW ok, NEW list,
           Sms!AfterContacts(c, ok, list, cs)
    PROVE  Onward(cs)
<1>1. CASE \E then : s8' = cs \cup {Sms!Call("resume", c.what, then)} /\ UNCHANGED s2
  <2>1. PICK then : s8' = cs \cup {Sms!Call("resume", c.what, then)} /\ s2' = s2
    BY <1>1
  <2>2. Sound(s8') /\ ThreadOwn(s8', s2')
    BY <2>1, CallSound, SoundUnion, CallShape, CallIsLast DEF Sound, ThreadOwn
  <2> QED
    BY <2>1, <2>2 DEF Onward, Spinning, Reaching
<1>2. CASE Sms!EnsureThread(list, c.then, cs)
  BY <1>2, EnsureOnward
<1>3. CASE Sms!Finish(c.then, cs)
  BY <1>3, ClearOnward, StayOnward DEF Sms!Finish
<1> QED
  BY <1>1, <1>2, <1>3 DEF Sms!AfterContacts

(* The list is asked for: what was asked before is superseded, but a mark   *)
(* that waited for it now waits for the new request.                        *)
LEMMA MessagesOnward ==
    ASSUME NEW cs, Sound(cs), NEW d, NEW then, Sms!FetchMessages(d, then, cs),
           Sms!Silent(then) => ~ s5
    PROVE  /\ Sound(s8') /\ \A key : ThreadOwn(cs, key) => ThreadOwn(s8', key)
           /\ s5' => Spinning(s8')
           /\ Reaching(cs) => Reaching(s8')
<1>1. s8' = Sms!With(cs, "contacts", d, then)
  BY DEF Sms!FetchMessages
<1> DEFINE x == Sms!Call("contacts", d, then)
<1>2. x.op = "contacts" /\ x.then = then /\ x.cur /\ x \in s8'
  <2>1. x.op = "contacts" /\ x.then = then
    BY CallShape
  <2>2. x \in s8'
    BY <1>1, WithPasses
  <2> QED
    BY <2>1, <2>2, CallIsLast
<1> HIDE DEF x
<1>4. ~ Sms!Silent(then) => Spinning(s8')
  BY <1>2 DEF Spinning
<1>3. s5' => ~ Sms!Silent(then)
  BY DEF Sms!FetchMessages
<1> QED
  BY <1>1, <1>3, <1>4, WithPasses DEF ThreadOwn, Reaching

LEMMA SmsKeeps ==
    ASSUME SmsInv, Onward(s8), UNCHANGED <<s5, s7>>
    PROVE  SmsInv'
  BY DEF SmsInv, Onward

LEMMA OneLess ==
    ASSUME SmsInv, NEW c \in s8
    PROVE  Sound(s8 \ {c}) /\ ThreadOwn(s8 \ {c}, s2)
  BY DEF SmsInv, Sound, ThreadOwn

LEMMA ContactsKeep == ASSUME SmsInv, NEW c \in s8, Sms!ContactsReply(c) PROVE SmsInv'
<1>1. s7' = s7 /\ c.op = "contacts"
  BY DEF Sms!ContactsReply
<1>2. PICK ok, list : Sms!AfterContacts(c, ok, list, s8 \ {c})
  BY DEF Sms!ContactsReply
<1>3. Onward(s8 \ {c})
  BY <1>2, OneLess, AfterOnward
<1>4. s5' => Spinning(s8 \ {c})
  <2>1. s5' => s5 /\ (c.cur => Sms!Silent(c.then))
    BY DEF Sms!ContactsReply
  <2> QED
    BY <2>1 DEF SmsInv, Spinning
<1>5. Reaching(s8) => Reaching(s8 \ {c})
  BY <1>1 DEF Reaching
<1> QED
  BY <1>1, <1>3, <1>4, <1>5 DEF SmsInv, Onward

LEMMA DevicesKeep == ASSUME SmsInv, NEW c \in s8, Sms!DevicesReply(c) PROVE SmsInv'
<1> DEFINE left == (s8 \ {c}) \cup
                   (IF c.then = "reload" THEN {Sms!Call("resume", "all", "reload")} ELSE {})
<1>1. Sound(left) /\ ThreadOwn(left, s2)
  BY CallSound, SoundUnion, CallShape, CallIsLast DEF SmsInv, Sound, ThreadOwn
<1>2. /\ Spinning(s8) => Spinning(left)
      /\ Reaching(s8) => Reaching(left)
  BY DEF Sms!DevicesReply, Spinning, Reaching
<1>3. \/ s8' = left /\ UNCHANGED s2
      \/ Sms!ClearSelected(left)
  BY DEF Sms!DevicesReply
<1> HIDE DEF left
<1>4. Onward(left)
  BY <1>1, <1>3, StayOnward, ClearOnward
<1> QED
  BY <1>2, <1>4 DEF SmsInv, Onward, Sms!DevicesReply

LEMMA ThreadKeeps == ASSUME SmsInv, NEW c \in s8, Sms!ThreadReply(c) PROVE SmsInv'
<1>1. Onward(s8 \ {c})
  BY OneLess, StayOnward, ClearOnward DEF Sms!ThreadReply
<1>2. /\ Spinning(s8) => Spinning(s8 \ {c})
      /\ Reaching(s8) => Reaching(s8 \ {c})
  BY DEF Sms!ThreadReply, Spinning, Reaching
<1> QED
  BY <1>1, <1>2 DEF SmsInv, Onward, Sms!ThreadReply

LEMMA ResumeKeeps == ASSUME SmsInv, NEW c \in s8, Sms!Resume(c) PROVE SmsInv'
<1>1. s7' = s7 /\ c.op = "resume"
  BY DEF Sms!Resume
<1>2. /\ Spinning(s8) => Spinning(s8 \ {c})
      /\ Reaching(s8) => Reaching(s8 \ {c})
  BY <1>1 DEF Spinning, Reaching
<1>3. ASSUME NEW then \in {"reload", "remount"},
             Sms!FetchMessages(s1, then, s8 \ {c}), UNCHANGED s2
      PROVE  SmsInv'
  BY <1>1, <1>2, <1>3, OneLess, MessagesOnward DEF SmsInv, Sms!Silent
<1>4. CASE Sms!EnsureThread(s3, "end", s8 \ {c}) /\ UNCHANGED s5
  BY <1>1, <1>2, <1>4, OneLess, EnsureOnward DEF SmsInv, Onward
<1> QED
  BY <1>3, <1>4 DEF Sms!Resume

LEMMA DeleteKeeps == ASSUME SmsInv, NEW c \in s8, Sms!DeleteReply(c) PROVE SmsInv'
<1>1. /\ s7' = s7
      /\ c.op \in {"deleteMessage", "deleteThread"} /\ ~ Sms!Silent(c.then)
  BY DEF Sms!DeleteReply, SmsInv, Sound
<1>2. /\ Spinning(s8) => Spinning(s8 \ {c})
      /\ Reaching(s8) => Reaching(s8 \ {c})
  BY <1>1 DEF Spinning, Reaching
<1>3. CASE s8' = s8 \ {c} /\ UNCHANGED <<s2, s5>>
  BY <1>1, <1>2, <1>3, OneLess DEF SmsInv
<1>4. CASE /\ s2' = None
           /\ Sms!FetchMessages(s1, "end", Drop(s8 \ {c}, "thread"))
  <2>1. Sound(Drop(s8 \ {c}, "thread"))
    BY OneLess, DropPasses
  <2>2. Reaching(s8 \ {c}) => Reaching(Drop(s8 \ {c}, "thread"))
    BY OneLess, DropPasses DEF Reaching
  <2> QED
    BY <1>1, <1>2, <1>4, <2>1, <2>2, MessagesOnward DEF SmsInv, Sms!Silent, ThreadOwn
<1>5. CASE Sms!FetchMessages(s1, c.then, s8 \ {c}) /\ UNCHANGED s2
  BY <1>1, <1>2, <1>5, OneLess, MessagesOnward DEF SmsInv
<1> QED
  BY <1>3, <1>4, <1>5 DEF Sms!DeleteReply, Drop

LEMMA SmsNext == ASSUME SmsInv, [Sms!Next]_(Sms!vars) PROVE SmsInv'
<1> USE DEF Sms!flags
<1>1. Sound(s8) /\ ThreadOwn(s8, s2)
  BY DEF SmsInv
<1>2. ASSUME NEW key, Sms!SelectThread(key) PROVE SmsInv'
  BY <1>1, <1>2, ThreadOnward, SmsKeeps DEF Sms!SelectThread, Sms!ShowThread
<1>3. ASSUME NEW x, Sound({x}), x.op # "thread", s8' = s8 \cup {x},
             UNCHANGED <<s2, s5>>,
             s7' => s7 \/ x.op = "history"
      PROVE  SmsInv'
  BY <1>3 DEF SmsInv, Sound, ThreadOwn, Spinning, Reaching
<1>4. ASSUME NEW op \in {"send", "deleteMessage", "deleteThread"}, NEW what,
             NEW then \in {"reload", "empty", "end"}, Sms!Submit(op, what, then)
      PROVE  SmsInv'
  <2>1. Sound({Sms!Call(op, what, then)})
    BY CallSound, SoundUnion, CallShape, CallIsLast DEF Sound, Sms!Silent
  <2> QED
    BY <1>3, <1>4, <2>1, CallSound, SoundUnion, CallShape, CallIsLast DEF Sms!Submit
<1>5. ASSUME NEW d, Sms!SelectDevice(d) PROVE SmsInv'
  <2>1. /\ Sms!FetchMessages(d, "select", Drop(s8, "thread"))
        /\ s2' = None /\ s7' = s7
    BY <1>5 DEF Sms!SelectDevice, Drop
  <2>2. /\ Sound(Drop(s8, "thread"))
        /\ Reaching(s8) => Reaching(Drop(s8, "thread"))
    BY <1>1, DropPasses DEF Reaching
  <2> QED
    BY <2>1, <2>2, MessagesOnward DEF SmsInv, Sms!Silent, ThreadOwn
<1>6. CASE Sms!BackToList
  BY <1>1, <1>6, ClearOnward, SmsKeeps DEF Sms!BackToList
<1>7. CASE Sms!Refresh
  <2>1. Onward(s8)
    BY <1>1, <1>7, WithPasses DEF Sms!Refresh, Onward, ThreadOwn, Spinning, Reaching
  <2> QED
    BY <1>7, <2>1, SmsKeeps DEF Sms!Refresh
<1>8. CASE Sms!LoadMoreHistory
  <2>1. Sound({Sms!Call("history", s2, "end")})
    BY CallSound, SoundUnion, CallShape, CallIsLast DEF Sound
  <2> QED
    BY <1>3, <1>8, <2>1, CallSound, SoundUnion, CallShape, CallIsLast DEF Sms!LoadMoreHistory
<1>9. CASE Sms!Send \/ Sms!DeleteMessage
  BY <1>4, <1>9 DEF Sms!Send, Sms!DeleteMessage
<1>10. ASSUME NEW key, Sms!DeleteThread(key) PROVE SmsInv'
  BY <1>4, <1>10 DEF Sms!DeleteThread
<1>11. CASE Sms!Poll
  BY <1>1, <1>11, MessagesOnward DEF Sms!Poll, SmsInv
<1>12. ASSUME NEW c \in s8, Sms!HistoryReply(c) PROVE SmsInv'
  BY <1>12, OneLess DEF Sms!HistoryReply, SmsInv, Spinning
<1>13. ASSUME NEW c \in s8, Sms!SendReply(c) PROVE SmsInv'
  <2>1. PICK ok \in BOOLEAN :
            s8' = (s8 \ {c}) \cup (IF ok THEN {Sms!Call("resume", "all", "reload")} ELSE {})
    BY <1>13 DEF Sms!SendReply
  <2>2. Sound(s8') /\ ThreadOwn(s8', s2)
    BY <1>1, <2>1, CallSound, SoundUnion, CallShape, CallIsLast DEF Sound, ThreadOwn
  <2>3. (Spinning(s8) => Spinning(s8')) /\ (Reaching(s8) => Reaching(s8'))
    BY <1>13, <2>1 DEF Sms!SendReply, Spinning, Reaching
  <2> QED
    BY <1>13, <2>2, <2>3 DEF Sms!SendReply, SmsInv
<1>14. ASSUME NEW c \in s8, Sms!Reply(c) PROVE SmsInv'
  BY <1>12, <1>13, <1>14, DevicesKeep, ContactsKeep, ThreadKeeps, DeleteKeeps, ResumeKeeps
  DEF Sms!Reply
<1>15. CASE UNCHANGED Sms!vars
  BY <1>1, <1>15, StayOnward, SmsKeeps DEF Sms!vars
<1> QED
  BY <1>2, <1>5, <1>6, <1>7, <1>8, <1>9, <1>10, <1>11, <1>14, <1>15 DEF Sms!Next, Sms!Widen

LEMMA SmsInit == Sms!Init => SmsInv
<1> SUFFICES ASSUME Sms!Init PROVE SmsInv
  OBVIOUS
<1>1. s8 = {Sms!Call("devices", "all", "mount"), Sms!Call("contacts", s1, "mount")}
  BY DEF Sms!Init
<1>2. Sound(s8) /\ Spinning(s8) /\ ThreadOwn(s8, s2)
  BY <1>1, CallSound, SoundUnion, CallShape, CallIsLast DEF Sound, Spinning, ThreadOwn,
       Sms!Silent
<1> QED
  BY <1>2 DEF Sms!Init, SmsInv

LEMMA LoadingComes == SmsInv => Sms!LoadingEnds
  BY DEF SmsInv, Sms!LoadingEnds, Spinning, Reaching

LEMMA MessagesLand == ASSUME SmsInv PROVE Sms!LatestLandsStep
  BY DEF SmsInv, ThreadOwn, Sms!LatestLandsStep, Sms!ThreadReply

LEMMA ReplyLeavesSelection == Sms!SelectionKeptStep
<1> SUFFICES ASSUME NEW c \in s8, c.then # "empty",
                    Sms!ContactsReply(c) \/ Sms!ThreadReply(c) \/ Sms!HistoryReply(c) \/ Sms!Resume(c)
             PROVE  s2' = s2 \/ s2 \notin s3'
  BY DEF Sms!SelectionKeptStep
<1>1. ASSUME NEW list, NEW cs, NEW then, Sms!EnsureThread(list, then, cs), s2 \in list
      PROVE  s2' = s2
  BY <1>1 DEF Sms!EnsureThread
<1>2. ASSUME NEW ok, NEW list, NEW cs, Sms!AfterContacts(c, ok, list, cs), s2 \in list
      PROVE  s2' = s2
  <2>1. \/ s2' = s2 \/ Sms!EnsureThread(list, c.then, cs)
        \/ Sms!Finish(c.then, cs)
    BY <1>2 DEF Sms!AfterContacts
  <2> QED
    BY <1>1, <1>2, <2>1 DEF Sms!Finish
<1>3. CASE Sms!ContactsReply(c)
  <2>1. PICK ok, list : s3' = list /\ Sms!AfterContacts(c, ok, list, s8 \ {c})
    BY <1>3 DEF Sms!ContactsReply
  <2> QED
    BY <1>2, <2>1
<1>4. CASE Sms!ThreadReply(c) \/ Sms!HistoryReply(c)
  BY <1>4 DEF Sms!ThreadReply, Sms!HistoryReply
<1>5. CASE Sms!Resume(c)
  BY <1>1, <1>5 DEF Sms!Resume
<1> QED
  BY <1>3, <1>4, <1>5

-----------------------------------------------------------------------------
(* The devices page, Devices.vue.  The slots: s1 for list, s2 for           *)
(* selectedId, s3 for hasAutoSelected, s4 for queryDevice, s5 for detail,   *)
(* s6 for editConfig, s7 for editDirty, s8 for pageLoading, s9 for          *)
(* requests.                                                                *)

(* What a call that may still succeed was asked for.                        *)
RequestsShaped(rs) == \A r \in rs : {"op", "of", "aborted"} \subseteq DOMAIN r
Running(rs, op) == {r \in rs : r.op = op /\ ~ r.aborted}

(* Details that may still come are those of the selected device, unless     *)
(* none is selected any more.                                               *)
DetailsOwn(rs) == \A r \in Running(rs, "detail") : s2 \in {r.of, None}

(* One list may still come.  If it was asked for under another selection    *)
(* the user has chosen since, and the route does not say otherwise.         *)
Chosen == s2 # None /\ s4 \in {s2, None}
ListOwn(rs) ==
    /\ \A r, x \in Running(rs, "list") : r = x
    /\ \A r \in Running(rs, "list") : r.of = s2 \/ Chosen

DevsInv ==
    /\ s1 \subseteq Devices
    /\ RequestsShaped(s9) /\ DetailsOwn(s9) /\ ListOwn(s9)

(* What is aborted, and what is not.                                        *)
LEMMA AbortPasses ==
    ASSUME NEW rs, RequestsShaped(rs), NEW op
    PROVE  /\ RequestsShaped(Devs!Abort(rs, op)) /\ Running(Devs!Abort(rs, op), op) = {}
           /\ \A x : x # op => Running(Devs!Abort(rs, op), x) \subseteq Running(rs, x)
<1>1. \A r \in rs : LET a == [r EXCEPT !.aborted = TRUE] IN
          /\ {"op", "of", "aborted"} \subseteq DOMAIN a /\ a.op = r.op /\ a.aborted = TRUE
  BY DEF RequestsShaped
<1> QED
  BY <1>1 DEF Devs!Abort, RequestsShaped, Running

LEMMA RequestShape ==
    ASSUME NEW op, NEW of, NEW then
    PROVE  /\ {"op", "of", "aborted"} \subseteq DOMAIN Devs!Request(op, of, then)
           /\ Devs!Request(op, of, then).op = op /\ Devs!Request(op, of, then).of = of
           /\ ~ Devs!Request(op, of, then).aborted
  BY DEF Devs!Request

LEMMA FetchListPasses ==
    ASSUME NEW rs, RequestsShaped(rs), NEW then
    PROVE  /\ RequestsShaped(Devs!FetchList(then, rs))
           /\ Running(Devs!FetchList(then, rs), "list") = {Devs!Request("list", s2, then)}
           /\ \A x : x # "list" => Running(Devs!FetchList(then, rs), x) \subseteq Running(rs, x)
<1>1. /\ RequestsShaped(Devs!Abort(rs, "list")) /\ Running(Devs!Abort(rs, "list"), "list") = {}
      /\ \A x : x # "list" => Running(Devs!Abort(rs, "list"), x) \subseteq Running(rs, x)
  BY AbortPasses
<1> QED
  BY <1>1, RequestShape DEF Devs!FetchList, RequestsShaped, Running

LEMMA FetchDetailPasses ==
    ASSUME NEW rs, RequestsShaped(rs), NEW id, NEW then
    PROVE  /\ RequestsShaped(Devs!FetchDetail(id, then, rs))
           /\ Running(Devs!FetchDetail(id, then, rs), "detail") = {Devs!Request("detail", id, then)}
           /\ \A x : x # "detail" => Running(Devs!FetchDetail(id, then, rs), x) \subseteq Running(rs, x)
<1>1. /\ RequestsShaped(Devs!Abort(rs, "detail")) /\ Running(Devs!Abort(rs, "detail"), "detail") = {}
      /\ \A x : x # "detail" => Running(Devs!Abort(rs, "detail"), x) \subseteq Running(rs, x)
  BY AbortPasses
<1> QED
  BY <1>1, RequestShape DEF Devs!FetchDetail, RequestsShaped, Running

(* The configuration is asked for, or nothing is.                           *)
LEMMA SyncPasses ==
    ASSUME NEW rs, RequestsShaped(rs), NEW id, NEW force, NEW then, Devs!SyncConfig(id, force, then, rs)
    PROVE  /\ RequestsShaped(s9')
           /\ \A x : x # "config" => Running(s9', x) \subseteq Running(rs, x)
<1>1. s9' = rs \/ s9' = rs \cup {Devs!Request("config", id, then)}
  BY DEF Devs!SyncConfig
<1> QED
  BY <1>1, RequestShape DEF RequestsShaped, Running

(* Nothing new is asked for while the selection stays.                      *)
LEMMA FewerKeep ==
    ASSUME DevsInv, RequestsShaped(s9'), UNCHANGED <<s1, s2, s4>>,
           Running(s9', "list") \subseteq Running(s9, "list"),
           Running(s9', "detail") \subseteq Running(s9, "detail")
    PROVE  DevsInv'
  BY DEF DevsInv, DetailsOwn, ListOwn, Chosen

(* A device is selected by the user or the route.                           *)
LEMMA ShowKeeps ==
    ASSUME DevsInv, NEW id \in Devices, Devs!ShowDevice(id), s4' = id
    PROVE  DevsInv'
<1> DEFINE rs == Devs!FetchDetail(id, "end", s9)
<1>1. /\ RequestsShaped(rs) /\ Running(rs, "detail") = {Devs!Request("detail", id, "end")}
      /\ Running(rs, "list") \subseteq Running(s9, "list")
  BY FetchDetailPasses DEF DevsInv
<1>2. /\ RequestsShaped(s9')
      /\ Running(s9', "list") \subseteq Running(rs, "list")
      /\ Running(s9', "detail") \subseteq Running(rs, "detail")
  <2>1. Devs!SyncConfig(id, FALSE, "end", rs)
    BY DEF Devs!ShowDevice
  <2> HIDE DEF rs
  <2> QED
    BY <1>1, <2>1, SyncPasses
<1>3. s2' = id /\ s1' = s1 /\ id # None
  BY NoneAssumption DEF Devs!ShowDevice
<1> HIDE DEF rs
<1> QED
  BY <1>1, <1>2, <1>3, RequestShape DEF DevsInv, DetailsOwn, ListOwn, Chosen

(* The list has come: the details of another device are asked for again,    *)
(* and those in flight aborted.                                             *)
LEMMA ListKeeps ==
    ASSUME DevsInv, NEW r \in s9, Devs!ListComes(r)
    PROVE  DevsInv'
<1> DEFINE left == s9 \ {r}
<1>1. r \in Running(s9, "list") /\ s4' = s4
  BY DEF Devs!ListComes, Running
<1>2. Running(left, "list") = {} /\ RequestsShaped(left) /\ Running(left, "detail") \subseteq Running(s9, "detail")
  BY <1>1 DEF DevsInv, ListOwn, RequestsShaped, Running
<1>3. PICK l, id :
          /\ l \subseteq Devices /\ id \in Devs!Selections(l, r.then)
          /\ s1' = l /\ s2' = id
          /\ \/ id # None /\ s9' = Devs!FetchDetail(id, r.then, left)
             \/ id = None /\ Devs!SyncConfig(id, FALSE, r.then, left)
             \/ r.of = id /\ Devs!SyncConfig(id, FALSE, r.then, left)
             \/ r.of = id /\ s9' = left
  BY DEF Devs!ListComes
<1> HIDE DEF left
<1>4. CASE s9' = Devs!FetchDetail(id, r.then, left)
  <2>1. /\ RequestsShaped(s9') /\ Running(s9', "detail") = {Devs!Request("detail", id, r.then)}
        /\ Running(s9', "list") = {}
    BY <1>2, <1>4, FetchDetailPasses
  <2> QED
    BY <1>3, <2>1, RequestShape DEF DevsInv, DetailsOwn, ListOwn
<1>5. CASE (id = None \/ r.of = id) /\ (s9' = left \/ Devs!SyncConfig(id, FALSE, r.then, left))
  <2>1. /\ RequestsShaped(s9') /\ Running(s9', "list") = {}
        /\ Running(s9', "detail") \subseteq Running(s9, "detail")
    BY <1>2, <1>5, SyncPasses
  <2>2. id = None \/ id = s2
    <3>1. CASE Chosen
      BY <1>3, <3>1 DEF Devs!Selections, Devs!Routed, Chosen
    <3>2. CASE ~ Chosen
      BY <1>1, <1>5, <3>2 DEF DevsInv, ListOwn
    <3> QED
      BY <3>1, <3>2
  <2> QED
    BY <1>3, <2>1, <2>2 DEF DevsInv, DetailsOwn, ListOwn
<1> QED
  BY <1>3, <1>4, <1>5

LEMMA DevsNext == ASSUME DevsInv, [Devs!Next]_(Devs!vars) PROVE DevsInv'
<1>1. RequestsShaped(s9)
  BY DEF DevsInv
<1>2. ASSUME NEW id \in Devs!Ids, Devs!SelectDevice(id) \/ Devs!RouteChanges(id) PROVE DevsInv'
  <2>1. CASE Devs!SelectDevice(id)
    BY <2>1, ShowKeeps DEF Devs!SelectDevice, DevsInv
  <2>2. CASE Devs!RouteChanges(id) /\ id \notin {None, s2}
    BY <2>2, ShowKeeps DEF Devs!RouteChanges, Devs!Ids
  <2>3. CASE Devs!RouteChanges(id) /\ id \in {None, s2}
    BY <2>3 DEF Devs!RouteChanges, DevsInv, DetailsOwn, ListOwn, Chosen
  <2> QED
    BY <1>2, <2>1, <2>2, <2>3
<1>3. ASSUME NEW then, NEW rs, RequestsShaped(rs), s9' = Devs!FetchList(then, rs),
             \A r \in Running(rs, "detail") : s2 \in {r.of, None},
             UNCHANGED <<s1, s2, s4>>
      PROVE  DevsInv'
  <2>1. /\ RequestsShaped(s9') /\ Running(s9', "list") = {Devs!Request("list", s2, then)}
        /\ Running(s9', "detail") \subseteq Running(rs, "detail")
    BY <1>3, FetchListPasses
  <2> QED
    BY <1>3, <2>1, RequestShape DEF DevsInv, DetailsOwn, ListOwn
<1>4. CASE Devs!FetchAll \/ Devs!PollList
  BY <1>1, <1>3, <1>4 DEF Devs!FetchAll, Devs!PollList, DevsInv, DetailsOwn
<1>5. CASE Devs!Edit \/ Devs!OverviewEvent \/ UNCHANGED Devs!vars
  BY <1>1, <1>5, FewerKeep DEF Devs!Edit, Devs!OverviewEvent, Devs!vars
<1>6. ASSUME NEW op \in {"save", "delete", "command"}, Devs!Submit(op) PROVE DevsInv'
  <2>1. s9' = s9 \cup {Devs!Request(op, s2, "end")}
    BY <1>6 DEF Devs!Submit
  <2>2. /\ RequestsShaped(s9')
        /\ Running(s9', "list") \subseteq Running(s9, "list")
        /\ Running(s9', "detail") \subseteq Running(s9, "detail")
    BY <1>1, <2>1, RequestShape DEF RequestsShaped, Running
  <2> QED
    BY <1>6, <2>2, FewerKeep DEF Devs!Submit
<1>7. ASSUME NEW rs \in SUBSET s9, s9' = rs,
             UNCHANGED <<s1, s2, s4>>
      PROVE  DevsInv'
  BY <1>1, <1>7, FewerKeep DEF RequestsShaped, Running
<1>8. ASSUME NEW rs \in SUBSET s9, NEW id, NEW force, NEW then,
             Devs!SyncConfig(id, force, then, rs), UNCHANGED <<s1, s2, s4>>
      PROVE  DevsInv'
  <2>1. RequestsShaped(rs) /\ \A x : Running(rs, x) \subseteq Running(s9, x)
    BY <1>1 DEF RequestsShaped, Running
  <2> QED
    BY <1>8, <2>1, SyncPasses, FewerKeep
<1>9. ASSUME NEW r \in s9, Devs!ListComes(r) PROVE DevsInv'
  BY <1>9, ListKeeps
<1>10. ASSUME NEW r \in s9, Devs!ListFails(r) \/ Devs!ConfigReply(r) PROVE DevsInv'
  BY <1>7, <1>10 DEF Devs!ListFails, Devs!ConfigReply
<1>11. ASSUME NEW r \in s9, Devs!DetailReply(r) \/ Devs!SaveEnds(r) PROVE DevsInv'
  BY <1>7, <1>8, <1>11 DEF Devs!DetailReply, Devs!SaveEnds
<1>12. ASSUME NEW rs \in SUBSET s9, NEW then
       PROVE  LET show == IF s2 = None THEN rs ELSE Devs!FetchDetail(s2, then, rs)
              IN  /\ RequestsShaped(show)
                  /\ \A r \in Running(show, "detail") : s2 \in {r.of, None}
  <2>1. RequestsShaped(rs) /\ Running(rs, "detail") \subseteq Running(s9, "detail")
    BY <1>1 DEF RequestsShaped, Running
  <2>2. /\ RequestsShaped(Devs!FetchDetail(s2, then, rs))
        /\ Running(Devs!FetchDetail(s2, then, rs), "detail") = {Devs!Request("detail", s2, then)}
    BY <2>1, FetchDetailPasses
  <2> QED
    BY <2>1, <2>2, RequestShape DEF DevsInv, DetailsOwn
<1>13. ASSUME NEW r \in s9, Devs!SaveReply(r) PROVE DevsInv'
  <2> DEFINE left == s9 \ {r}
             show == IF s2 = None THEN left ELSE Devs!FetchDetail(s2, "save", left)
  <2>1. CASE s9' = left
    BY <1>7, <1>13, <2>1 DEF Devs!SaveReply
  <2>2. CASE s9' = Devs!FetchList("saved", show) \cup {Devs!Request("saveEnd", r.of, "end")}
    <3>1. RequestsShaped(show) /\ \A x \in Running(show, "detail") : s2 \in {x.of, None}
      BY <1>12
    <3> HIDE DEF show
    <3>2. /\ RequestsShaped(Devs!FetchList("saved", show))
          /\ Running(Devs!FetchList("saved", show), "list") = {Devs!Request("list", s2, "saved")}
          /\ Running(Devs!FetchList("saved", show), "detail") \subseteq Running(show, "detail")
      BY <3>1, FetchListPasses
    <3>3. /\ RequestsShaped(s9')
          /\ Running(s9', "list") = {Devs!Request("list", s2, "saved")}
          /\ Running(s9', "detail") \subseteq Running(show, "detail")
      BY <2>2, <3>2, RequestShape DEF RequestsShaped, Running
    <3> QED
      BY <1>13, <3>1, <3>3, RequestShape DEF Devs!SaveReply, DevsInv, DetailsOwn, ListOwn
  <2> QED
    BY <1>13, <2>1, <2>2 DEF Devs!SaveReply
<1>14. ASSUME NEW r \in s9, Devs!CommandReply(r) PROVE DevsInv'
  <2> DEFINE left == s9 \ {r}
             show == IF s2 = None THEN left ELSE Devs!FetchDetail(s2, "end", left)
  <2>1. CASE s9' = left
    BY <1>7, <1>14, <2>1 DEF Devs!CommandReply
  <2>2. CASE s9' = Devs!FetchList("poll", show)
    <3>1. RequestsShaped(show) /\ \A x \in Running(show, "detail") : s2 \in {x.of, None}
      BY <1>12
    <3> HIDE DEF show
    <3> QED
      BY <1>3, <1>14, <2>2, <3>1 DEF Devs!CommandReply
  <2> QED
    BY <1>14, <2>1, <2>2 DEF Devs!CommandReply
<1>15. ASSUME NEW r \in s9, Devs!DeleteReply(r) PROVE DevsInv'
  <2>1. CASE s9' = s9 \ {r} /\ s2' = s2
    BY <1>7, <1>15, <2>1 DEF Devs!DeleteReply
  <2>2. CASE /\ s2' = None
             /\ s9' = Devs!Abort(s9 \ {r}, "list") \cup {Devs!Request("list", None, "all")}
    <3> DEFINE rs == Devs!Abort(s9 \ {r}, "list")
               new == Devs!Request("list", None, "all")
    <3>1. RequestsShaped(s9 \ {r})
      BY <1>1 DEF RequestsShaped
    <3>2. RequestsShaped(rs) /\ Running(rs, "list") = {}
      BY <3>1, AbortPasses
    <3>3. {"op", "of", "aborted"} \subseteq DOMAIN new /\ new.of = None
      BY RequestShape
    <3>4. s9' = rs \cup {new} /\ s1' = s1
      BY <1>15, <2>2 DEF Devs!DeleteReply
    <3> HIDE DEF rs, new
    <3>5. RequestsShaped(s9') /\ \A x \in Running(s9', "list") : x = new
      BY <3>2, <3>3, <3>4 DEF RequestsShaped, Running
    <3> QED
      BY <2>2, <3>3, <3>4, <3>5 DEF DevsInv, DetailsOwn, ListOwn
  <2> QED
    BY <1>15, <2>1, <2>2 DEF Devs!DeleteReply
<1> QED
  BY <1>2, <1>4, <1>5, <1>6, <1>9, <1>10, <1>11, <1>13, <1>14, <1>15 DEF Devs!Next

LEMMA DevsInit == Devs!Init => DevsInv
  BY RequestShape DEF Devs!Init, DevsInv, DetailsOwn, ListOwn, RequestsShaped, Running

LEMMA DetailLands == ASSUME DevsInv PROVE Devs!DetailIsSelectedStep
  BY DEF DevsInv, DetailsOwn, Running, Devs!DetailReply, Devs!DetailIsSelectedStep

LEMMA ListLeavesSelection == Devs!SelectionStaysStep
<1> SUFFICES ASSUME NEW r \in s9, Devs!ListComes(r), s2 # None, s1' # {}
             PROVE  s2' \in {s2, Devs!Routed(r.then)}
  BY DEF Devs!SelectionStaysStep
<1>1. PICK l, id : id \in Devs!Selections(l, r.then) /\ s1' = l /\ s2' = id
  BY DEF Devs!ListComes
<1>2. Devs!Routed(r.then) # None
  BY DEF Devs!Routed
<1> QED
  BY <1>1, <1>2 DEF Devs!Selections

-----------------------------------------------------------------------------
(* The dialog that adds a device, the dialog of Devices.vue that adds a     *)
(* device.  The slots: s1 for discovered, s2 for open, s3 for chosen, s4    *)
(* for fields, s5 for backend, s6 for discovering, s7 for saving, s8 for    *)
(* calls.                                                                   *)

(* The flags, and the device that is to be added: one of those found.       *)
AddInv == Add!FlagsEnd /\ s1 \subseteq Add!Found /\ s3 \in Add!Found \cup {None}

LEMMA ChosenNext ==
    ASSUME AddInv, [Add!Next]_(Add!vars)
    PROVE  s1' \subseteq Add!Found /\ s3' \in Add!Found \cup {None}
<1> USE DEF AddInv, Add!form
<1>1. CASE Add!OpenAddDialog \/ Add!DiscoveredReply \/ Add!Close \/ Add!AddDevice
  BY <1>1 DEF Add!OpenAddDialog, Add!DiscoveredReply, Add!Close, Add!AddDevice
<1>2. ASSUME NEW d \in s1, Add!SelectDiscovered(d)
      PROVE  s1' \subseteq Add!Found /\ s3' \in Add!Found \cup {None}
  BY <1>2 DEF Add!SelectDiscovered
<1>3. ASSUME NEW b \in Add!Backends, Add!ChooseBackend(b)
      PROVE  s1' \subseteq Add!Found /\ s3' \in Add!Found \cup {None}
  BY <1>3 DEF Add!ChooseBackend
<1>4. ASSUME NEW c \in s8, Add!Added(c) \/ Add!Over(c)
      PROVE  s1' \subseteq Add!Found /\ s3' \in Add!Found \cup {None}
  BY <1>4 DEF Add!Added, Add!Over
<1>5. CASE UNCHANGED Add!vars
  BY <1>5 DEF Add!vars
<1> QED
  BY <1>1, <1>2, <1>3, <1>4, <1>5 DEF Add!Next

(* Who waits for the end of saving is another than who waits for the list   *)
(* of what was discovered.                                                  *)
LEMMA AddFlagsNext == ASSUME AddInv, [Add!Next]_(Add!vars) PROVE Add!FlagsEnd'
<1> DEFINE Savers == Add!Adds \cup {Add!Plain("list")}
<1>1. Add!Plain("discover") \notin Savers /\ Add!Plain("list") \in Savers
  BY DEF Add!Adds, Add!Plain
<1>2. s6 => Add!Plain("discover") \in s8
  BY DEF AddInv, Add!FlagsEnd
<1>3. s7 => s8 \cap Savers # {}
  BY DEF AddInv, Add!FlagsEnd
<1>4. SUFFICES /\ s6' => Add!Plain("discover") \in s8'
               /\ s7' => s8' \cap Savers # {}
  BY DEF Add!FlagsEnd, Add!Plain, Add!Adds
<1> HIDE DEF Savers
<1>5. CASE Add!OpenAddDialog
  BY <1>3, <1>5 DEF Add!OpenAddDialog, Add!Ask
<1>6. CASE Add!DiscoveredReply
  BY <1>1, <1>3, <1>6 DEF Add!DiscoveredReply
<1>7. CASE Add!AddDevice
  <2>1. [op |-> "add", device |-> s3, backend |-> Add!BackendOf(s3)] \in Savers
    BY <1>7 DEF AddInv, Add!AddDevice, Savers, Add!Adds, Add!BackendOf, Add!Found, Add!Backends
  <2> QED
    BY <1>2, <1>7, <2>1 DEF Add!AddDevice, Add!Ask
<1>8. ASSUME NEW d, Add!SelectDiscovered(d) PROVE UNCHANGED <<s6, s7, s8>>
  BY <1>8 DEF Add!SelectDiscovered
<1>9. ASSUME NEW b, Add!ChooseBackend(b) PROVE UNCHANGED <<s6, s7, s8>>
  BY <1>9 DEF Add!ChooseBackend
<1>10. CASE Add!Close \/ UNCHANGED Add!vars
  BY <1>2, <1>3, <1>10 DEF Add!Close, Add!vars
<1>11. ASSUME NEW c \in s8, Add!Added(c)
       PROVE  /\ s6' => Add!Plain("discover") \in s8'
              /\ s7' => s8' \cap Savers # {}
  BY <1>1, <1>2, <1>11 DEF Add!Added, Savers
<1>12. ASSUME NEW c \in s8, Add!Over(c)
       PROVE  /\ s6' => Add!Plain("discover") \in s8'
              /\ s7' => s8' \cap Savers # {}
  BY <1>1, <1>2, <1>12 DEF Add!Over, Savers
<1> QED
  BY <1>2, <1>3, <1>5, <1>6, <1>7, <1>8, <1>9, <1>10, <1>11, <1>12 DEF Add!Next

LEMMA AddNext == ASSUME AddInv, [Add!Next]_(Add!vars) PROVE AddInv'
  BY ChosenNext, AddFlagsNext DEF AddInv

LEMMA AddInit == Add!Init => AddInv
  BY DEF Add!Init, AddInv, Add!FlagsEnd

-----------------------------------------------------------------------------
(* The dialog of the operator mode, the operator dialog of a device.  The   *)
(* slots: s1 for device, s2 for open, s3 for loading, s4 for current, s5    *)
(* for calls, s6 for modem, s7 for config.                                  *)

LEMMA ModeNext == ASSUME Mode!FlagsEnd, [Mode!Next]_(Mode!vars) PROVE Mode!FlagsEnd'
<1> USE DEF Mode!FlagsEnd, Mode!dialog, Mode!server
<1>1. CASE Mode!Open
  BY <1>1 DEF Mode!Open, Mode!LoadCurrent
<1>2. CASE Mode!Close
  BY <1>2 DEF Mode!Close
<1>3. ASSUME NEW d, Mode!DeviceChanges(d) PROVE Mode!FlagsEnd'
  BY <1>3 DEF Mode!DeviceChanges
<1>4. ASSUME NEW m, Mode!Set(m) PROVE Mode!FlagsEnd'
  BY <1>4 DEF Mode!Set
<1>5. ASSUME NEW c \in s5, Mode!ServerReads(c) \/ Mode!ModemSet(c) \/ Mode!ConfigSet(c)
      PROVE  Mode!FlagsEnd'
  BY <1>5 DEF Mode!ServerReads, Mode!ModemSet, Mode!ConfigSet
<1>6. ASSUME NEW c \in s5, Mode!LoadReply(c) \/ Mode!SetReply(c) PROVE Mode!FlagsEnd'
  BY <1>6 DEF Mode!LoadReply, Mode!SetReply, Mode!LoadCurrent
<1>7. CASE UNCHANGED Mode!vars
  BY <1>7 DEF Mode!vars
<1> QED
  BY <1>1, <1>2, <1>3, <1>4, <1>5, <1>6, <1>7 DEF Mode!Next

LEMMA ModeInit == Mode!Init => Mode!FlagsEnd
  BY DEF Mode!Init, Mode!FlagsEnd

-----------------------------------------------------------------------------
(* The USSD tab, DeviceUssdTab.vue.  The slots: s1 for device, s2 for       *)
(* sessionId, s3 for sending, s4 for rounds, s5 for cancels, s6 for open.   *)

(* A round that runs at the server stays the only one.                      *)
OnlyRound ==
    \/ s3 = FALSE /\ s4 = {}
    \/ s3 = TRUE /\ \E r : s4 = {r}

LEMMA OnlyRoundIsOneRound == OnlyRound => Ussd!OneRound
<1>1. \A S : Ussd!Cardinality(S) = Cardinality(S)
  BY DEF Ussd!Cardinality, Cardinality
<1> QED
  BY <1>1, FS_EmptySet, FS_Singleton DEF OnlyRound, Ussd!OneRound

LEMMA UssdNext == ASSUME OnlyRound, [Ussd!Next]_(Ussd!vars) PROVE OnlyRound'
<1> USE DEF OnlyRound
<1>1. CASE Ussd!SendUSSD
  BY <1>1 DEF Ussd!SendUSSD
<1>2. CASE Ussd!CancelSession \/ Ussd!ClearHistory
  BY <1>2 DEF Ussd!CancelSession, Ussd!ClearHistory, Ussd!EndSession
<1>3. ASSUME NEW r \in s4, Ussd!ServerRuns(r) PROVE OnlyRound'
  <2>1. s4 = {r} /\ s3
    OBVIOUS
  <2>2. PICK state, s : s4' = (s4 \ {r}) \cup {[r EXCEPT !.state = state, !.opened = s]}
    BY <1>3 DEF Ussd!ServerRuns, Ussd!Ran
  <2>3. s3' = s3
    BY <1>3 DEF Ussd!ServerRuns
  <2>4. s4' = {[r EXCEPT !.state = state, !.opened = s]}
    BY <2>1, <2>2
  <2> QED
    BY <2>1, <2>3, <2>4
<1>4. ASSUME NEW r \in s4, Ussd!RoundReply(r) PROVE OnlyRound'
  BY <1>4 DEF Ussd!RoundReply
<1>5. ASSUME NEW c \in s5, Ussd!ServerCancels(c) \/ Ussd!CancelReply(c) PROVE OnlyRound'
  BY <1>5 DEF Ussd!ServerCancels, Ussd!CancelReply, Ussd!EndSession
<1>6. ASSUME NEW d, Ussd!DeviceChanges(d) PROVE OnlyRound'
  BY <1>6 DEF Ussd!DeviceChanges
<1>7. ASSUME NEW s, Ussd!SessionLapses(s) PROVE OnlyRound'
  BY <1>7 DEF Ussd!SessionLapses
<1>8. CASE UNCHANGED Ussd!vars
  BY <1>8 DEF Ussd!vars
<1> QED
  BY <1>1, <1>2, <1>3, <1>4, <1>5, <1>6, <1>7, <1>8 DEF Ussd!Next

LEMMA UssdInit == Ussd!Init => OnlyRound
  BY DEF Ussd!Init, OnlyRound

-----------------------------------------------------------------------------
(* The dashboard, Dashboard.vue and its chart.  The slots: s1 for loading,  *)
(* s2 for range, s3 for analysis, s4 for analysisLoading, s5 for calls, s6  *)
(* for chart, s7 for chartLoading, s8 for chartError, s9 for import, s10    *)
(* for callers.                                                             *)

(* The flags, and the chart: what was loaded is there.                      *)
LoadedIsThere == s9 = "loaded" => s6

DashInv ==
    /\ {s6, s7, s8} \subseteq BOOLEAN
    /\ LoadedIsThere /\ Dashboard!FlagsEnd /\ Dashboard!ChartComes

(* A caller that makes an attempt finds the chart, or is at it.             *)
LEMMA AttemptGood ==
    ASSUME DashInv, NEW attempts, attempts # {},
           NEW others \in SUBSET s10,
           \A c \in s10 \ others : c.at = "sleep",
           Dashboard!Attempt(attempts, others)
    PROVE  /\ {s6', s7', s8'} \subseteq BOOLEAN
           /\ LoadedIsThere'
           /\ s6' \/ s10' # {}
           /\ s7' => s10' # {}
           /\ (\E c \in s10' : c.at = "import") <=> s9' = "pending"
<1> USE DEF DashInv, LoadedIsThere, Dashboard!ChartComes
<1>1. CASE s9 = "loaded"
  BY <1>1 DEF Dashboard!Attempt
<1>2. CASE s9 # "loaded"
  <2>1. PICK a : a \in attempts
    OBVIOUS
  <2>2. [attempt |-> a, at |-> "import"] \in s10' /\ s9' = "pending"
    BY <1>2, <2>1 DEF Dashboard!Attempt
  <2> QED
    BY <1>2, <2>2 DEF Dashboard!Attempt
<1> QED
  BY <1>1, <1>2

LEMMA PanelKeeps ==
    ASSUME DashInv, UNCHANGED Dashboard!panel, s3' = s3 \/ s3' = None \/ s6 \/ s8
    PROVE  /\ {s6', s7', s8'} \subseteq BOOLEAN
           /\ LoadedIsThere' /\ Dashboard!ChartComes'
  BY DEF DashInv, LoadedIsThere, Dashboard!ChartComes, Dashboard!panel

(* The actions of the panel leave the requests alone.                       *)
LEMMA RequestsKeep ==
    ASSUME Dashboard!FlagsEnd, UNCHANGED Dashboard!requests
    PROVE  Dashboard!FlagsEnd' /\ s3' = s3
  BY DEF Dashboard!FlagsEnd, Dashboard!requests

LEMMA ImportFailsGood ==
    ASSUME DashInv, Dashboard!ImportFails
    PROVE  {s6', s7', s8'} \subseteq BOOLEAN /\ LoadedIsThere' /\ Dashboard!ChartComes'
<1>1. /\ {s6, s7, s8} \subseteq BOOLEAN
      /\ Dashboard!ChartComes /\ Dashboard!FlagsEnd
  BY DEF DashInv
<1>2. s9 = "pending" /\ s9' = "none" /\ s6' = s6
  BY DEF Dashboard!ImportFails
<1>3. PICK chunk \in BOOLEAN :
          /\ s10' = {c \in s10 : c.at = "sleep"} \cup Dashboard!Retrying(chunk)
          /\ Dashboard!Fails(chunk)
  BY DEF Dashboard!ImportFails
<1>4. \A c \in s10' : c.at = "sleep"
  BY <1>3 DEF Dashboard!Retrying
<1>5. {s7', s8'} \subseteq BOOLEAN
  BY <1>1, <1>3 DEF Dashboard!Fails
<1>6. PICK c \in s10 : c.at = "import"
  BY <1>1, <1>2 DEF Dashboard!ChartComes
<1>7. CASE \E d \in s10 : Dashboard!GivesUp(d, chunk)
  <2>1. s8' /\ ~ s7'
    BY <1>1, <1>3, <1>7 DEF Dashboard!Fails
  <2> QED
    BY <1>1, <1>2, <1>4, <1>5, <2>1 DEF LoadedIsThere, Dashboard!ChartComes
<1>8. CASE ~ \E d \in s10 : Dashboard!GivesUp(d, chunk)
  <2>1. s10' # {}
    BY <1>3, <1>6, <1>8 DEF Dashboard!Retrying
  <2> QED
    BY <1>1, <1>2, <1>4, <1>5, <2>1 DEF LoadedIsThere, Dashboard!ChartComes
<1> QED
  BY <1>7, <1>8

LEMMA DashNext == ASSUME DashInv, [Dashboard!Next]_(Dashboard!vars) PROVE DashInv'
<1> DEFINE Panel == /\ {s6, s7, s8} \subseteq BOOLEAN
                    /\ LoadedIsThere /\ Dashboard!ChartComes
<1>1. Dashboard!FlagsEnd /\ Panel
  BY DEF DashInv
<1>2. SUFFICES Dashboard!FlagsEnd' /\ Panel'
  BY DEF DashInv
<1>3. ASSUME NEW c \in s10, Dashboard!Wake(c) PROVE Dashboard!FlagsEnd' /\ Panel'
  <2>1. Dashboard!FlagsEnd' /\ s3' = s3
    BY <1>1, <1>3, RequestsKeep DEF Dashboard!Wake
  <2>2. PICK attempts \in {{1, 2}, {2}} : Dashboard!Attempt(attempts, s10 \ {c})
    BY <1>3 DEF Dashboard!Wake
  <2>3. c.at = "sleep"
    BY <1>3 DEF Dashboard!Wake
  <2> QED
    BY <2>1, <2>2, <2>3, AttemptGood DEF Dashboard!ChartComes
<1>4. CASE Dashboard!ImportComes
  BY <1>1, <1>4, RequestsKeep DEF Dashboard!ImportComes, LoadedIsThere, Dashboard!ChartComes
<1>5. CASE Dashboard!ImportFails
  BY <1>1, <1>5, RequestsKeep, ImportFailsGood DEF Dashboard!ImportFails
<1>6. CASE Dashboard!RetryChartLoad
  <2>1. Dashboard!FlagsEnd' /\ s3' = s3
    BY <1>1, <1>6, RequestsKeep DEF Dashboard!RetryChartLoad
  <2>2. CASE s6
    BY <1>1, <1>6, <2>1, <2>2 DEF Dashboard!RetryChartLoad, LoadedIsThere, Dashboard!ChartComes
  <2>3. CASE ~ s6
    <3>1. [attempt |-> 1, at |-> "import"] \in s10' /\ s9' = "pending"
      BY <1>6, <2>3 DEF Dashboard!RetryChartLoad
    <3> QED
      BY <1>1, <1>6, <2>1, <2>3, <3>1 DEF Dashboard!RetryChartLoad, LoadedIsThere,
           Dashboard!ChartComes
  <2> QED
    BY <2>2, <2>3
<1>7. CASE Dashboard!FetchDevices \/ Dashboard!DevicesReply
  <2>1. Dashboard!FlagsEnd'
    BY <1>1, <1>7, RangesAssumption DEF Dashboard!FetchDevices, Dashboard!DevicesReply,
         Dashboard!FlagsEnd
  <2> QED
    BY <1>7, <2>1, PanelKeeps DEF Dashboard!FetchDevices, Dashboard!DevicesReply
<1>8. ASSUME NEW r \in Ranges, Dashboard!FetchAnalysis(r) PROVE Dashboard!FlagsEnd' /\ Panel'
  <2>1. Dashboard!FlagsEnd'
    BY <1>1, <1>8 DEF Dashboard!FetchAnalysis, Dashboard!FlagsEnd
  <2> QED
    BY <1>8, <2>1, PanelKeeps DEF Dashboard!FetchAnalysis
<1>9. ASSUME NEW r \in s5 \cap Ranges, Dashboard!AnalysisReply(r)
      PROVE  Dashboard!FlagsEnd' /\ Panel'
  <2>1. Dashboard!FlagsEnd'
    BY <1>1, <1>9, RangesAssumption DEF Dashboard!AnalysisReply, Dashboard!FlagsEnd
  <2>2. PICK data \in {r, None} : s3' = data /\ Dashboard!EffectRuns(data)
    BY <1>9 DEF Dashboard!AnalysisReply
  <2>3. CASE data # None /\ ~ s6 /\ ~ s8
    <3>1. Dashboard!Attempt({1}, s10)
      BY <2>2, <2>3 DEF Dashboard!EffectRuns
    <3> QED
      BY <2>1, <3>1, AttemptGood DEF Dashboard!ChartComes
  <2>4. CASE ~ (data # None /\ ~ s6 /\ ~ s8)
    BY <2>1, <2>2, <2>4, PanelKeeps DEF Dashboard!EffectRuns
  <2> QED
    BY <2>3, <2>4
<1>10. CASE UNCHANGED Dashboard!vars
  <2>1. UNCHANGED Dashboard!requests /\ UNCHANGED Dashboard!panel
    BY <1>10 DEF Dashboard!vars, Dashboard!requests, Dashboard!panel
  <2> QED
    BY <1>1, <2>1, RequestsKeep, PanelKeeps
<1> QED
  BY <1>3, <1>4, <1>5, <1>6, <1>7, <1>8, <1>9, <1>10 DEF Dashboard!Next

LEMMA DashInit == Dashboard!Init => DashInv
  BY DEF Dashboard!Init, DashInv, LoadedIsThere, Dashboard!FlagsEnd, Dashboard!ChartComes

-----------------------------------------------------------------------------
(* The page of upstream proxies, UpstreamProxy.vue.  The slots: s1 for      *)
(* server, s2 for proxies, s3 for rules, s4 for loading, s5 for refreshing, *)
(* s6 for editing, s7 for ruleOpen, s8 for target, s9 for selected, s10 for *)
(* calls.                                                                   *)

(* The flags, and what they need to know of the shape of a call.            *)
UpInv == Upstream!FlagsEnd /\ \A c \in s10 : {"op", "arg"} \subseteq DOMAIN c

(* A step that leaves the flags alone and no fetch without its answer.      *)
LEMMA FetchesStay ==
    ASSUME UpInv, UNCHANGED Upstream!flags,
           \A c \in s10 : c.op = "fetch" =>
               \E d \in s10' : d.op = c.op /\ d.arg = c.arg
    PROVE  Upstream!FlagsEnd'
  BY DEF UpInv, Upstream!FlagsEnd, Upstream!flags

LEMMA UpNext == ASSUME UpInv, [Upstream!Next]_(Upstream!vars) PROVE UpInv'
<1> USE DEF UpInv
<1>1. ASSUME NEW kind \in {"silent", "user"}, NEW cs \in SUBSET s10,
             \A c \in s10 : c.op = "fetch" => c \in cs,
             Upstream!FetchUpstream(kind, cs), s4' = s4
      PROVE  UpInv'
  <2>1. /\ Upstream!Fetch(kind).op = "fetch" /\ Upstream!Fetch(kind).arg = kind
        /\ {"op", "arg"} \subseteq DOMAIN Upstream!Fetch(kind)
    BY DEF Upstream!Fetch, Upstream!Blank
  <2> QED
    BY <1>1, <2>1 DEF Upstream!FetchUpstream, Upstream!FlagsEnd
<1>2. CASE Upstream!Poll \/ Upstream!Retry
  BY <1>1, <1>2 DEF Upstream!Poll, Upstream!Retry
<1>3. ASSUME s10' = s10, UNCHANGED Upstream!flags PROVE UpInv'
  BY <1>3, FetchesStay
<1>4. CASE Upstream!CloseDrawer \/ Upstream!CloseRules
  BY <1>3, <1>4 DEF Upstream!CloseDrawer, Upstream!CloseRules
<1>5. ASSUME NEW id, NEW k, Upstream!OpenDrawer(id) \/ Upstream!OpenRules(id) \/ Upstream!SelectCountry(k)
      PROVE  UpInv'
  BY <1>3, <1>5 DEF Upstream!OpenDrawer, Upstream!OpenRules, Upstream!SelectCountry
<1>6. ASSUME NEW op, NEW id, NEW k, s10' = s10 \cup {Upstream!Change(op, id, k)}, UNCHANGED Upstream!flags
      PROVE  UpInv'
  BY <1>6, FetchesStay DEF Upstream!Change, Upstream!Blank
<1>7. CASE Upstream!UpsertRule
  BY <1>6, <1>7 DEF Upstream!UpsertRule
<1>8. ASSUME NEW id, NEW k, Upstream!SaveForm(id) \/ Upstream!DeleteUpstream(id) \/ Upstream!DeleteRule(k)
      PROVE  UpInv'
  BY <1>6, <1>8 DEF Upstream!SaveForm, Upstream!DeleteUpstream, Upstream!DeleteRule
<1>9. ASSUME NEW c \in s10, Upstream!ServerReads(c) PROVE UpInv'
  <2>1. PICK d : /\ s10' = (s10 \ {c}) \cup {d}
                 /\ \/ d = [c EXCEPT !.got = @ \cup {"proxies"}, !.proxies = s1.proxies]
                    \/ d = [c EXCEPT !.got = @ \cup {"rules"}, !.rules = s1.rules]
    BY <1>9 DEF Upstream!ServerReads
  <2>2. d.op = c.op /\ d.arg = c.arg /\ {"op", "arg"} \subseteq DOMAIN d
    BY <2>1
  <2> QED
    BY <1>9, <2>1, <2>2, FetchesStay DEF Upstream!ServerReads
<1>10. ASSUME NEW c \in s10, Upstream!FetchReply(c) PROVE UpInv'
  BY <1>10 DEF Upstream!FetchReply, Upstream!FlagsEnd
<1>11. ASSUME NEW c \in s10, Upstream!ServerChanges(c) PROVE UpInv'
  BY <1>11, FetchesStay DEF Upstream!ServerChanges, Upstream!Change, Upstream!Blank
<1>12. ASSUME NEW c \in s10, Upstream!ChangeReply(c) PROVE UpInv'
  <2>1. CASE Upstream!FetchUpstream("user", s10 \ {c})
    BY <1>1, <1>12, <2>1 DEF Upstream!ChangeReply
  <2>2. CASE s10' = s10 \ {c} /\ UNCHANGED s5
    BY <1>12, <2>2, FetchesStay DEF Upstream!ChangeReply, Upstream!flags
  <2> QED
    BY <1>12, <2>1, <2>2 DEF Upstream!ChangeReply
<1>13. CASE UNCHANGED Upstream!vars
  BY <1>3, <1>13 DEF Upstream!vars, Upstream!flags
<1> QED
  BY <1>2, <1>4, <1>5, <1>7, <1>8, <1>9, <1>10, <1>11, <1>12, <1>13 DEF Upstream!Next

LEMMA UpInit == Upstream!Init => UpInv
  BY DEF Upstream!Init, UpInv, Upstream!FlagsEnd, Upstream!Fetch, Upstream!Blank

-----------------------------------------------------------------------------
(* The settings, Settings.vue.  The slots: s1 for server, s2 for form, s3   *)
(* for rows, s4 for mounted, s5 for loading, s6 for saving, s7 for          *)
(* changing, s8 for testing, s9 for info, s10 for checking, s11 for update, *)
(* s12 for applying, s13 for calls.                                         *)

(* The flags, and what they need to know of the shape of a call.            *)
ChangesShaped(cs) == \A c \in cs : {"op", "here"} \subseteq DOMAIN c

SetInv == Settings!FlagsEnd /\ ChangesShaped(s13) /\ s8 \subseteq Settings!Channels

LEMMA CallShaped ==
    ASSUME NEW op
    PROVE  Settings!Call(op).op = op /\ Settings!Call(op).here = TRUE /\ {"op", "here"} \subseteq DOMAIN Settings!Call(op)
  BY DEF Settings!Call

(* A flag may be taken back, but is not set, by the answer of its own call. *)
LEMMA AnswerEnds ==
    ASSUME SetInv, NEW c \in s13, Settings!Done(c),
           s5' => s5 /\ c.op # "load",
           s6' => s6 /\ c.op # "save",
           s7' => s7 /\ c.op # "password",
           s8' \subseteq s8, c.op \in Settings!Channels => c.op \notin s8',
           s9' => s9 /\ c.op # "info",
           s10' => s10 /\ (c.op = "check" => ~ c.here),
           s12' => s12 /\ (c.op = "apply" => ~ c.here)
    PROVE  SetInv'
<1>1. \A op : Settings!Asked(op) /\ op # c.op => Settings!Asked(op)'
  BY DEF Settings!Asked, Settings!Done
<1>2. \A op : (\E d \in s13 : d.op = op /\ d.here) /\ (c.op = op => ~ c.here)
              => \E d \in s13' : d.op = op /\ d.here
  BY DEF Settings!Done
<1>3. ChangesShaped(s13')
  BY DEF SetInv, ChangesShaped, Settings!Done
<1> QED
  BY <1>1, <1>2, <1>3 DEF SetInv, Settings!FlagsEnd

(* A flag is set with its call, and no call goes.                           *)
LEMMA AskingMarks ==
    ASSUME SetInv, \A c \in s13 : \E d \in s13' : d.op = c.op /\ d.here = c.here,
           ChangesShaped(s13'),
           s5' => s5 \/ Settings!Asked("load")',
           s6' => s6 \/ Settings!Asked("save")',
           s7' => s7 \/ Settings!Asked("password")',
           \A ch \in s8' : ch \in s8 \/ (ch \in Settings!Channels /\ Settings!Asked(ch)'),
           s9' => s9 \/ Settings!Asked("info")',
           s10' => s10 \/ \E c \in s13' : c.op = "check" /\ c.here,
           s12' => s12 \/ \E c \in s13' : c.op = "apply" /\ c.here
    PROVE  SetInv'
<1>1. \A op : Settings!Asked(op) => Settings!Asked(op)'
  BY DEF Settings!Asked
<1>2. \A op : (\E d \in s13 : d.op = op /\ d.here) => \E d \in s13' : d.op = op /\ d.here
  OBVIOUS
<1> QED
  BY <1>1, <1>2 DEF SetInv, Settings!FlagsEnd

LEMMA SetNext == ASSUME SetInv, [Settings!Next]_(Settings!vars) PROVE SetInv'
<1> USE DEF Settings!notify, Settings!rest, Settings!updater
<1>1. CASE Settings!Unmount
  <2>1. \A c \in s13 : [c EXCEPT !.here = FALSE].op = c.op
    BY DEF SetInv, ChangesShaped
  <2>2. \A c \in s13 : [c EXCEPT !.here = FALSE] \in s13'
    BY <1>1 DEF Settings!Unmount
  <2>3. \A op : Settings!Asked(op) => Settings!Asked(op)'
    BY <2>1, <2>2 DEF Settings!Asked
  <2>4. ChangesShaped(s13')
    BY <1>1 DEF Settings!Unmount, SetInv, ChangesShaped
  <2> QED
    BY <1>1, <2>3, <2>4 DEF Settings!Unmount, SetInv, Settings!FlagsEnd
<1>2. ASSUME NEW op, s13' = s13 \cup {Settings!Call(op)}
      PROVE  /\ \A c \in s13 : \E d \in s13' : d.op = c.op /\ d.here = c.here
             /\ ChangesShaped(s13')
             /\ Settings!Asked(op)' /\ \E d \in s13' : d.op = op /\ d.here
  BY <1>2, CallShaped DEF SetInv, ChangesShaped, Settings!Asked
<1>3. CASE Settings!Mount
  <2>1. s13' = (s13 \cup {Settings!Call("load")}) \cup {Settings!Call("info")}
    BY <1>3 DEF Settings!Mount
  <2>2. Settings!Asked("load")' /\ Settings!Asked("info")' /\ ChangesShaped(s13')
    BY <2>1, CallShaped DEF SetInv, ChangesShaped, Settings!Asked
  <2>3. \A c \in s13 : \E d \in s13' : d.op = c.op /\ d.here = c.here
    BY <2>1
  <2> QED
    BY <1>3, <2>2, <2>3, AskingMarks DEF Settings!Mount
<1>4. CASE Settings!Save
  <2>1. PICK x : x.op = "save" /\ {"op", "here"} \subseteq DOMAIN x /\ s13' = s13 \cup {x}
    BY <1>4 DEF Settings!Save, Settings!Call
  <2>2. Settings!Asked("save")' /\ ChangesShaped(s13')
    BY <2>1 DEF SetInv, ChangesShaped, Settings!Asked
  <2>3. \A c \in s13 : \E d \in s13' : d.op = c.op /\ d.here = c.here
    BY <2>1
  <2> QED
    BY <1>4, <2>2, <2>3, AskingMarks DEF Settings!Save
<1>5. CASE Settings!ChangePassword
  BY <1>2, <1>5, AskingMarks DEF Settings!ChangePassword, Settings!Ask
<1>6. CASE Settings!CheckUpdate
  BY <1>2, <1>6, AskingMarks DEF Settings!CheckUpdate, Settings!Ask
<1>7. CASE Settings!ApplyUpdate
  BY <1>2, <1>7, AskingMarks DEF Settings!ApplyUpdate, Settings!Ask
<1>8. ASSUME NEW ch \in Settings!Channels, Settings!Test(ch) PROVE SetInv'
  BY <1>2, <1>8, AskingMarks DEF Settings!Test, Settings!Ask
<1>9. CASE Settings!Reload
  <2>1. /\ s13' = {Settings!Call("load"), Settings!Call("info")} /\ s8' = {}
        /\ ~ s6' /\ ~ s7' /\ ~ s10' /\ ~ s12'
    BY <1>9 DEF Settings!Reload
  <2>2. ChangesShaped(s13')
    BY <2>1, CallShaped DEF ChangesShaped
  <2>3. Settings!Call("load") \in s13' /\ Settings!Call("info") \in s13'
    BY <2>1
  <2>4. Settings!Asked("load")' /\ Settings!Asked("info")'
    BY <2>3, CallShaped DEF Settings!Asked
  <2> QED
    BY <2>1, <2>2, <2>4 DEF SetInv, Settings!FlagsEnd
<1>10. ASSUME UNCHANGED <<s13, s5, s6, Settings!rest, Settings!updater>> PROVE SetInv'
  BY <1>10 DEF SetInv, Settings!FlagsEnd, ChangesShaped, Settings!Asked
<1>11. ASSUME NEW hs, Settings!EditRows(hs) PROVE SetInv'
  BY <1>10, <1>11 DEF Settings!EditRows
<1>12. ASSUME NEW f, Settings!Edit(f) PROVE SetInv'
  BY <1>10, <1>12 DEF Settings!Edit
<1>13. ASSUME NEW c \in s13, Settings!ServerReads(c) \/ Settings!ServerSaves(c) PROVE SetInv'
  <2>1. PICK d : /\ d.op = c.op /\ d.here = c.here /\ {"op", "here"} \subseteq DOMAIN d
                 /\ s13' = (s13 \ {c}) \cup {d}
    BY <1>13 DEF Settings!ServerReads, Settings!ServerSaves, SetInv, ChangesShaped
  <2>2. \A x \in s13 : \E y \in s13' : y.op = x.op /\ y.here = x.here
    BY <2>1
  <2>3. ChangesShaped(s13')
    BY <2>1 DEF SetInv, ChangesShaped
  <2>4. UNCHANGED <<s5, s6, Settings!rest, Settings!updater>>
    BY <1>13 DEF Settings!ServerReads, Settings!ServerSaves
  <2> QED
    BY <2>2, <2>3, <2>4, AskingMarks
<1>14. ASSUME NEW c \in s13, Settings!LoadReply(c) PROVE SetInv'
  BY <1>14, AnswerEnds DEF Settings!LoadReply, Settings!Channels
<1>15. ASSUME NEW c \in s13, Settings!SaveReply(c) PROVE SetInv'
  BY <1>15, AnswerEnds DEF Settings!SaveReply, Settings!Channels
<1>16. ASSUME NEW c \in s13, Settings!PasswordReply(c) PROVE SetInv'
  BY <1>16, AnswerEnds DEF Settings!PasswordReply, Settings!Channels
<1>17. ASSUME NEW c \in s13, Settings!InfoReply(c) PROVE SetInv'
  BY <1>17, AnswerEnds DEF Settings!InfoReply, Settings!Channels
<1>18. ASSUME NEW c \in s13, Settings!TestReply(c) PROVE SetInv'
  BY <1>18, AnswerEnds DEF Settings!TestReply, Settings!Channels
<1>19. ASSUME NEW c \in s13, Settings!CheckReply(c) PROVE SetInv'
  BY <1>19, AnswerEnds DEF Settings!CheckReply, Settings!Channels
<1>20. ASSUME NEW c \in s13, Settings!ApplyReply(c) PROVE SetInv'
  BY <1>20, AnswerEnds DEF Settings!ApplyReply, Settings!Channels
<1>21. CASE UNCHANGED Settings!vars
  BY <1>10, <1>21 DEF Settings!vars
<1> QED
  BY <1>1, <1>3, <1>4, <1>5, <1>6, <1>7, <1>8, <1>9, <1>11, <1>12, <1>13, <1>14, <1>15,
     <1>16, <1>17, <1>18, <1>19, <1>20, <1>21 DEF Settings!Next

LEMMA SetInit == Settings!Init => SetInv
  BY CallShaped DEF Settings!Init, SetInv, Settings!FlagsEnd, Settings!Asked, ChangesShaped

-----------------------------------------------------------------------------
(* The proxy page, Proxy.vue.  The slots: s1 for config, s2 for instances,  *)
(* s3 for drawerOpen, s4 for editing, s5 for form, s6 for initialLoading,   *)
(* s7 for refreshing, s8 for saving, s9 for calls.                          *)

(* A mark is taken back by a reply with the list, a save also by its own;   *)
(* the id of an instance never passes for the kind of such a call.          *)
Awaited(cs, kinds) == \E c \in cs : c.op = "overview" /\ c.arg \in kinds
Saving(cs) == Awaited(cs, {"save"}) \/ \E c \in cs : c.op = "save"

ProxInv ==
    /\ \A c \in s9 : {"op", "arg"} \subseteq DOMAIN c
    /\ s6 => Awaited(s9, {"initial"})
    /\ s7 => Awaited(s9, {"user", "save"})
    /\ s8 => Saving(s9)

(* No call that takes a mark back goes, and a mark is set with its call.    *)
LEMMA MarksKept ==
    ASSUME ProxInv, \A c \in s9' : {"op", "arg"} \subseteq DOMAIN c,
           \A c \in s9 : c.op \in {"overview", "save"} =>
               \E d \in s9' : d.op = c.op /\ d.arg = c.arg,
           s6' => s6,
           s7' => s7 \/ Awaited(s9', {"user", "save"}),
           s8' => s8 \/ Saving(s9')
    PROVE  ProxInv'
  BY DEF ProxInv, Awaited, Saving

LEMMA OverviewShape ==
    ASSUME NEW kind
    PROVE  /\ Proxy!Overview(kind).op = "overview" /\ Proxy!Overview(kind).arg = kind
           /\ {"op", "arg"} \subseteq DOMAIN Proxy!Overview(kind)
  BY DEF Proxy!Overview

LEMMA Fetching ==
    ASSUME ProxInv, NEW kind \in {"silent", "user", "save"}, NEW cs \in SUBSET s9,
           \A c \in s9 : c.op \in {"overview", "save"} => c \in cs,
           Proxy!FetchOverview(kind, cs), UNCHANGED <<s6, s8>>
    PROVE  ProxInv'
<1>1. \A c \in s9' : {"op", "arg"} \subseteq DOMAIN c
  BY OverviewShape DEF ProxInv, Proxy!FetchOverview
<1>2. kind # "silent" => Awaited(s9', {"user", "save"})
  BY OverviewShape DEF Proxy!FetchOverview, Awaited
<1>3. s7' => s7 \/ kind # "silent"
  BY DEF Proxy!FetchOverview
<1> QED
  BY <1>1, <1>2, <1>3, MarksKept DEF Proxy!FetchOverview

LEMMA SaveMarks ==
    ASSUME ProxInv, NEW list, Proxy!SaveConfig(list), UNCHANGED <<s6, s7>>
    PROVE  ProxInv'
<1>1. Proxy!Save(list).op = "save" /\ {"op", "arg"} \subseteq DOMAIN Proxy!Save(list)
  BY DEF Proxy!Save
<1>2. Saving(s9')
  BY <1>1 DEF Proxy!SaveConfig, Saving
<1>3. \A c \in s9' : {"op", "arg"} \subseteq DOMAIN c
  BY <1>1 DEF ProxInv, Proxy!SaveConfig
<1> QED
  BY <1>2, <1>3, MarksKept DEF Proxy!SaveConfig

LEMMA ProxNext == ASSUME ProxInv, [Proxy!Next]_(Proxy!vars) PROVE ProxInv'
<1> USE DEF Proxy!drawer, Proxy!flags
<1>1. CASE Proxy!Refresh \/ Proxy!Poll
  BY <1>1, Fetching DEF Proxy!Refresh, Proxy!Poll
<1>2. ASSUME UNCHANGED Proxy!flags, s9' = s9 PROVE ProxInv'
  BY <1>2 DEF ProxInv, Awaited, Saving
<1>3. CASE Proxy!CloseDrawer
  BY <1>2, <1>3 DEF Proxy!CloseDrawer
<1>4. CASE Proxy!SaveForm
  BY <1>4, SaveMarks DEF Proxy!SaveForm
<1>5. ASSUME NEW id, Proxy!DeleteInstance(id) PROVE ProxInv'
  BY <1>5, SaveMarks DEF Proxy!DeleteInstance
<1>6. ASSUME NEW id, Proxy!OpenNew(id) PROVE ProxInv'
  BY <1>2, <1>6 DEF Proxy!OpenNew
<1>7. ASSUME NEW x, {"op", "arg"} \subseteq DOMAIN x, s9' = s9 \cup {x}, UNCHANGED Proxy!flags
      PROVE  ProxInv'
  BY <1>7, MarksKept DEF ProxInv
<1>8. ASSUME NEW id, Proxy!OpenEdit(id) \/ Proxy!ActOn(id) PROVE ProxInv'
  BY <1>7, <1>8 DEF Proxy!OpenEdit, Proxy!ActOn, Proxy!Instance, Proxy!Action
<1>9. ASSUME NEW c \in s9, Proxy!ServerReads(c) \/ Proxy!ServerSaves(c) PROVE ProxInv'
  <2>1. PICK d : /\ d.op = c.op /\ d.arg = c.arg /\ {"op", "arg"} \subseteq DOMAIN d
                 /\ s9' = (s9 \ {c}) \cup {d}
    BY <1>9 DEF Proxy!ServerReads, Proxy!ServerSaves, ProxInv
  <2>2. UNCHANGED Proxy!flags
    BY <1>9 DEF Proxy!ServerReads, Proxy!ServerSaves
  <2> QED
    BY <2>1, <2>2, MarksKept DEF ProxInv
<1>10. ASSUME NEW c \in s9, Proxy!OverviewReply(c) PROVE ProxInv'
  <2>1. \A d \in s9 : d # c => d \in s9'
    BY <1>10 DEF Proxy!OverviewReply
  <2>2. s6' => s6 /\ c.arg # "initial"
    BY <1>10 DEF Proxy!OverviewReply
  <2>3. s7' => s7 /\ c.arg \notin {"user", "save"}
    BY <1>10 DEF Proxy!OverviewReply
  <2>4. s8' => s8 /\ c.arg # "save" /\ c.op # "save"
    BY <1>10 DEF Proxy!OverviewReply
  <2>5. s9' \subseteq s9
    BY <1>10 DEF Proxy!OverviewReply
  <2> QED
    BY <2>1, <2>2, <2>3, <2>4, <2>5 DEF ProxInv, Awaited, Saving
<1>11. ASSUME NEW c \in s9, Proxy!InstanceReply(c) PROVE ProxInv'
  BY <1>11, MarksKept DEF Proxy!InstanceReply, ProxInv
<1>12. ASSUME NEW c \in s9, Proxy!SaveReply(c) PROVE ProxInv'
  <2>1. CASE Proxy!FetchOverview("save", s9 \ {c}) /\ UNCHANGED s8
    <3>1. /\ s9' = (s9 \ {c}) \cup {Proxy!Overview("save")}
          /\ s7' = (s7 \/ "save" # "silent") /\ s6' = s6
          /\ c.op = "save"
      BY <1>12, <2>1 DEF Proxy!FetchOverview, Proxy!SaveReply
    <3>2. Awaited(s9', {"save"}) /\ Awaited(s9', {"user", "save"})
      BY <3>1, OverviewShape DEF Awaited
    <3>3. Awaited(s9, {"initial"}) => Awaited(s9', {"initial"})
      BY <3>1 DEF Awaited
    <3>4. \A d \in s9' : {"op", "arg"} \subseteq DOMAIN d
      BY <3>1, OverviewShape DEF ProxInv
    <3> QED
      BY <3>1, <3>2, <3>3, <3>4 DEF ProxInv, Saving
  <2>2. CASE s9' = s9 \ {c} /\ s8' = FALSE /\ UNCHANGED s7
    <3>1. s6' = s6 /\ c.op = "save"
      BY <1>12 DEF Proxy!SaveReply
    <3> QED
      BY <2>2, <3>1 DEF ProxInv, Awaited
  <2> QED
    BY <1>12, <2>1, <2>2 DEF Proxy!SaveReply
<1>13. ASSUME NEW c \in s9, Proxy!ActionReply(c) PROVE ProxInv'
  <2>1. CASE Proxy!FetchOverview("user", s9 \ {c})
    BY <1>13, <2>1, Fetching DEF Proxy!ActionReply
  <2>2. CASE s9' = s9 \ {c} /\ UNCHANGED s7
    BY <1>13, <2>2, MarksKept DEF Proxy!ActionReply, ProxInv
  <2> QED
    BY <1>13, <2>1, <2>2 DEF Proxy!ActionReply
<1>14. CASE UNCHANGED Proxy!vars
  BY <1>2, <1>14 DEF Proxy!vars
<1> QED
  BY <1>1, <1>3, <1>4, <1>5, <1>6, <1>8, <1>9, <1>10, <1>11, <1>12, <1>13, <1>14 DEF Proxy!Next

LEMMA ProxInit == Proxy!Init => ProxInv
  BY OverviewShape DEF Proxy!Init, ProxInv, Awaited

LEMMA ProxShows == ProxInv => Proxy!SpinnersEnd
  BY DEF ProxInv, Proxy!SpinnersEnd, Awaited, Saving

-----------------------------------------------------------------------------
(* All of them.  A behaviour shows one part, whose invariant its steps      *)
(* keep; of the card policy nothing but its types is claimed.               *)
ConsoleInv ==
    /\ part = "poll" => PollInv
    /\ part = "logs" => StreamInv
    /\ part = "session" => SesInv
    /\ part = "websheet" => SheetInv
    /\ part = "live" => LiveInv
    /\ part = "esim" => EsimInv
    /\ part = "sms" => SmsInv
    /\ part = "devices" => DevsInv
    /\ part = "add" => AddInv
    /\ part = "operator" => Mode!FlagsEnd
    /\ part = "ussd" => OnlyRound
    /\ part = "dashboard" => DashInv
    /\ part = "upstream" => UpInv
    /\ part = "settings" => SetInv
    /\ part = "proxy" => ProxInv

LEMMA ConsoleInit == Init => ConsoleInv
<1> SUFFICES ASSUME Init PROVE ConsoleInv
  OBVIOUS
<1>1. part = "poll" => PollInv
  BY PollInit DEF Init
<1>2. part = "logs" => StreamInv
  BY LogsInit DEF Init
<1>3. part = "session" => SesInv
  BY SesInit DEF Init
<1>4. part = "websheet" => SheetInv
  BY SheetInit DEF Init
<1>5. part = "live" => LiveInv
  BY LiveInit DEF Init
<1>6. part = "esim" => EsimInv
  BY EsimInit DEF Init
<1>7. part = "sms" => SmsInv
  BY SmsInit DEF Init
<1>8. part = "devices" => DevsInv
  BY DevsInit DEF Init
<1>9. part = "add" => AddInv
  BY AddInit DEF Init
<1>10. part = "operator" => Mode!FlagsEnd
  BY ModeInit DEF Init
<1>11. part = "ussd" => OnlyRound
  BY UssdInit DEF Init
<1>12. part = "dashboard" => DashInv
  BY DashInit DEF Init
<1>13. part = "upstream" => UpInv
  BY UpInit DEF Init
<1>14. part = "settings" => SetInv
  BY SetInit DEF Init
<1>15. part = "proxy" => ProxInv
  BY ProxInit DEF Init
<1> QED
  BY <1>1, <1>2, <1>3, <1>4, <1>5, <1>6, <1>7, <1>8, <1>9, <1>10, <1>11, <1>12, <1>13, <1>14,
       <1>15 DEF ConsoleInv

LEMMA ConsoleNext == ASSUME ConsoleInv, [Next]_vars PROVE ConsoleInv'
<1>1. CASE PollStep
  BY <1>1, PollNext DEF PollStep, ConsoleInv
<1>2. CASE LogsStep
  BY <1>2, LogsNext DEF LogsStep, ConsoleInv
<1>3. CASE SesStep
  BY <1>3, SesNext DEF SesStep, ConsoleInv
<1>4. CASE SheetStep
  BY <1>4, SheetNext DEF SheetStep, ConsoleInv
<1>5. CASE LiveStep
  BY <1>5, LiveNext DEF LiveStep, ConsoleInv
<1>6. CASE EsimStep
  BY <1>6, EsimNext DEF EsimStep, ConsoleInv
<1>7. CASE SmsStep
  BY <1>7, SmsNext DEF SmsStep, ConsoleInv
<1>8. CASE DevsStep
  BY <1>8, DevsNext DEF DevsStep, ConsoleInv
<1>9. CASE AddStep
  BY <1>9, AddNext DEF AddStep, ConsoleInv
<1>10. CASE ModeStep
  BY <1>10, ModeNext DEF ModeStep, ConsoleInv
<1>11. CASE UssdStep
  BY <1>11, UssdNext DEF UssdStep, ConsoleInv
<1>12. CASE DashboardStep
  BY <1>12, DashNext DEF DashboardStep, ConsoleInv
<1>13. CASE UpstreamStep
  BY <1>13, UpNext DEF UpstreamStep, ConsoleInv
<1>14. CASE SettingsStep
  BY <1>14, SetNext DEF SettingsStep, ConsoleInv
<1>15. CASE ProxyStep
  BY <1>15, ProxNext DEF ProxyStep, ConsoleInv
<1>16. CASE PolicyStep
  BY <1>16 DEF PolicyStep, ConsoleInv
<1>17. CASE UNCHANGED vars
  <2>1. part = "poll" => PollInv'
    BY <1>17, PollNext DEF ConsoleInv, vars, slots, Poll!vars
  <2>2. part = "logs" => StreamInv'
    BY <1>17, LogsNext DEF ConsoleInv, vars, slots, Logs!vars
  <2>3. part = "session" => SesInv'
    BY <1>17, SesNext DEF ConsoleInv, vars, slots, Ses!vars
  <2>4. part = "websheet" => SheetInv'
    BY <1>17, SheetNext DEF ConsoleInv, vars, slots, Sheet!vars
  <2>5. part = "live" => LiveInv'
    BY <1>17, LiveNext DEF ConsoleInv, vars, slots, Live!vars
  <2>6. part = "esim" => EsimInv'
    BY <1>17, EsimNext DEF ConsoleInv, vars, slots, Esim!vars
  <2>7. part = "sms" => SmsInv'
    BY <1>17, SmsNext DEF ConsoleInv, vars, slots, Sms!vars
  <2>8. part = "devices" => DevsInv'
    BY <1>17, DevsNext DEF ConsoleInv, vars, slots, Devs!vars
  <2>9. part = "add" => AddInv'
    BY <1>17, AddNext DEF ConsoleInv, vars, slots, Add!vars
  <2>10. part = "operator" => Mode!FlagsEnd'
    BY <1>17, ModeNext DEF ConsoleInv, vars, slots, Mode!vars
  <2>11. part = "ussd" => OnlyRound'
    BY <1>17, UssdNext DEF ConsoleInv, vars, slots, Ussd!vars
  <2>12. part = "dashboard" => DashInv'
    BY <1>17, DashNext DEF ConsoleInv, vars, slots, Dashboard!vars
  <2>13. part = "upstream" => UpInv'
    BY <1>17, UpNext DEF ConsoleInv, vars, slots, Upstream!vars
  <2>14. part = "settings" => SetInv'
    BY <1>17, SetNext DEF ConsoleInv, vars, slots, Settings!vars
  <2>15. part = "proxy" => ProxInv'
    BY <1>17, ProxNext DEF ConsoleInv, vars, slots, Proxy!vars
  <2> QED
    BY <1>17, <2>1, <2>2, <2>3, <2>4, <2>5, <2>6, <2>7, <2>8, <2>9, <2>10, <2>11, <2>12,
         <2>13, <2>14, <2>15 DEF ConsoleInv, vars
<1> QED
  BY <1>1, <1>2, <1>3, <1>4, <1>5, <1>6, <1>7, <1>8, <1>9, <1>10, <1>11, <1>12, <1>13, <1>14,
       <1>15, <1>16, <1>17 DEF Next

LEMMA ConsoleHolds == Spec => []ConsoleInv
  BY ConsoleInit, ConsoleNext, PTL DEF Spec

(* However many requests are refused, whatever logins fail and however      *)
(* often the page is reloaded, a login leads back to the page the first 401 *)
(* took the user from, and no one uses the interface without having agreed  *)
(* to the disclaimer (the interceptor of stores/auth.ts, handleLogin() of   *)
(* Login.vue, App.vue).                                                     *)
THEOREM LoginIsKept == Spec => []SessionHolds
<1>1. ConsoleInv => SessionHolds
  BY RememberedLeadsBack DEF ConsoleInv, SesInv, SessionHolds
<1> QED
  BY <1>1, ConsoleHolds, PTL

(* A scheduler that is not stopped has its next tick or a tick that runs,   *)
(* and a stream of log entries that is wanted is connected, about to be, or *)
(* will be tried again; one that is not wanted stays quiet                  *)
(* (usePollingScheduler.ts, useEventStream.ts, Logs.vue).                   *)
THEOREM PagesKeepUp == Spec => []StreamsLive
<1>1. ConsoleInv => StreamsLive
  BY DEF ConsoleInv, PollInv, StreamInv, StreamsLive
<1> QED
  BY <1>1, ConsoleHolds, PTL

(* Whatever messages arrive late or twice, a websheet is completed once,    *)
(* and it is finished by what its own page has told or by the message,      *)
(* without a token, of a flow that returned (CarrierWebsheetDialog.vue,     *)
(* bridge.js, the broker).                                                  *)
THEOREM WebsheetIsFinishedOnce == Spec => []FinishedOnce
<1>1. ConsoleInv => FinishedOnce
  BY DEF ConsoleInv, SheetInv, FinishedOnce
<1> QED
  BY <1>1, ConsoleHolds, PTL

(* Whatever replies are under way when the device or the chip is changed, a *)
(* device's page shows the analysis and the live readings of the selected   *)
(* device, and the eSIM tab its own chip (the watches of Devices.vue,       *)
(* DeviceEsimTab.vue).                                                      *)
THEOREM OnlyTheSelectedIsShown == Spec => []ShownIsSelected
<1>1. ConsoleInv => ShownIsSelected
  BY DEF ConsoleInv, LiveInv, EsimInv, ShownIsSelected
<1> QED
  BY <1>1, ConsoleHolds, PTL

(* While one of the marks SpinnersEnd lists tells of loading, saving or     *)
(* sending, the call that takes it back is in flight, however many calls    *)
(* there are and in whatever order they are answered, superseded or fail.   *)
THEOREM MarksAreTakenBack == Spec => []SpinnersEnd
<1>1. ConsoleInv => SpinnersEnd
  BY LoadingComes, ProxShows, OnlyRoundIsOneRound
  DEF ConsoleInv, UpInv, SetInv, DashInv, AddInv, SpinnersEnd
<1> QED
  BY <1>1, ConsoleHolds, PTL

(* Every step of every page: the latest messages of a thread come to the    *)
(* selected thread, details to the selected device, and a paused log page   *)
(* takes no entry of its stream (fetchThreadLatest of Sms.vue,              *)
(* fetchSelectedDetail of Devices.vue, togglePause of Logs.vue).            *)
THEOREM LatestLandOnTheSelection == Spec => RepliesLand
<1> DEFINE Lands == /\ part = "sms" => Sms!LatestLandsStep
                    /\ part = "devices" => Devs!DetailIsSelectedStep
                    /\ part = "logs" => Logs!PausedIsStillStep
<1>1. ASSUME ConsoleInv, Next PROVE Lands
  <2>1. part = "sms" => Sms!LatestLandsStep
    BY <1>1, MessagesLand DEF ConsoleInv
  <2>2. part = "devices" => Devs!DetailIsSelectedStep
    BY <1>1, DetailLands DEF ConsoleInv
  <2>3. part = "logs" => Logs!Next
    BY <1>1 DEF Next, SmsStep, DevsStep, LiveStep, EsimStep, PolicyStep, ProxyStep,
       UpstreamStep, SettingsStep, LogsStep, PollStep, SesStep, DashboardStep, AddStep,
       SheetStep, UssdStep, ModeStep
  <2> QED
    BY <2>1, <2>2, <2>3, PauseIsStill
<1>2. ConsoleInv /\ [Next]_vars => [Lands]_vars
  BY <1>1
<1> QED
  BY <1>2, ConsoleHolds, PTL DEF Spec, RepliesLand

(* Every step of every page: no refresh and no late reply takes the         *)
(* selection from the user while what is selected is still there            *)
(* (ensureThreadSelection of Sms.vue, fetchAll of Devices.vue).             *)
THEOREM SelectionStays == Spec => SelectionKept
<1>1. /\ part = "sms" => Sms!SelectionKeptStep
      /\ part = "devices" => Devs!SelectionStaysStep
  BY ReplyLeavesSelection, ListLeavesSelection
<1> QED
  BY <1>1, PTL DEF Spec, SelectionKept
=============================================================================
