-------------------------- MODULE WorkerPool_proofs --------------------------
(* Theorems about WorkerPool: the types, NoWorkerLost, MarkIsOwned and      *)
(* RecoveryMarks, for any sets of calls, any groups of them beside each     *)
(* other, any numbers for workers and any bound on the rounds of a recovery.*)
EXTENDS WorkerPool, TLAPS

Steps == {"add", "remove", "replace", "release", "round", "refresh", "finish"}
Places == {"plan", "away", "stopping", "settling", "scheduled", "observed",
           "finishing"} \cup Starting
Works == [at : Places, plan : Seq(Steps), token : Tokens \cup {None},
          watched : BOOLEAN, current : BOOLEAN, own : BOOLEAN]

(* A recovery is a goroutine of its own, nobody is not a worker, and the    *)
(* bound is a number.                                                       *)
Parameters ==
    /\ Recoveries \cap (Ticks \cup Scans \cup Users) = {}
    /\ None \notin Tokens
    /\ MaxRounds \in Nat

TypeOK ==
    /\ backend \in {"qmi", "mbim", "at"}
    /\ worker \in Tokens \cup {None} /\ running \subseteq Tokens \cup {None}
    /\ retrying \subseteq Tokens \cup {None} /\ early \subseteq Tokens \cup {None}
    /\ rebuilding \in BOOLEAN /\ recovering \in BOOLEAN /\ active \in BOOLEAN
    /\ calls \in [Calls -> Works]

Spec == Init /\ [][Next]_vars
-----------------------------------------------------------------------------
(* What the steps do to the calls.                                          *)

LEMMA NewWorker ==
    ASSUME Fresh # {}
    PROVE  (CHOOSE t \in Fresh : TRUE) \in Fresh
OBVIOUS

LEMMA EmptyPlan ==
    ASSUME NEW p \in Seq(Steps)
    PROVE  p = <<>> <=> Len(p) = 0
OBVIOUS

LEMMA TailIsPlan ==
    ASSUME NEW p \in Seq(Steps), p # <<>>
    PROVE  /\ Tail(p) \in Seq(Steps) /\ Len(p) \in Nat \ {0} /\ Head(p) = p[1]
           /\ Len(Tail(p)) = Len(p) - 1
           /\ \A i \in 1..Len(p) - 1 : Tail(p)[i] = p[i + 1]
           /\ Head(p) \in Steps
OBVIOUS

LEMMA PlanIsJoined ==
    ASSUME NEW p \in Seq(Steps), NEW q \in Seq(Steps)
    PROVE  /\ p \o q \in Seq(Steps) /\ Len(p \o q) = Len(p) + Len(q)
           /\ \A i \in 1..Len(p) : (p \o q)[i] = p[i]
           /\ \A i \in 1..Len(q) : (p \o q)[Len(p) + i] = q[i]
OBVIOUS

LEMMA JoinIsMore ==
    ASSUME NEW p \in Seq(Steps), NEW q \in Seq(Steps), q # <<>>
    PROVE  p \o q # <<>>
<1>1. Len(p \o q) = Len(p) + Len(q) /\ Len(p) \in Nat /\ Len(q) \in Nat \ {0} /\ p \o q \in Seq(Steps)
  BY PlanIsJoined, TailIsPlan
<1>2. Len(p \o q) # 0
  BY <1>1
<1> QED BY <1>1, <1>2, EmptyPlan

LEMMA RoundsArePlan ==
    ASSUME Parameters
    PROVE  /\ Rounds \in Seq(Steps) /\ Len(Rounds) = MaxRounds
           /\ \A i \in 1..MaxRounds : Rounds[i] = "round"
<1>1. \A i \in 1..MaxRounds : "round" \in Steps
  BY DEF Steps
<1> QED BY <1>1 DEF Rounds, Parameters
-----------------------------------------------------------------------------
(* Plans.  A removal that stands for a replacement is followed by a start;  *)
(* only users release the mark by hand; rounds are those of recoveries, and *)
(* what a recovery does ends with "finish".                                 *)
Fits(c, p) ==
    /\ \A i \in 1..Len(p) : p[i] = "replace" => i < Len(p) /\ p[i + 1] = "add"
    /\ \A i \in 1..Len(p) : p[i] = "release" => c \in Users
    /\ \A i \in 1..Len(p) : p[i] \in {"round", "refresh", "finish"} => c \in Recoveries
    /\ c \in Recoveries /\ p # <<>> => p[Len(p)] = "finish"

Releases(p) == \E i \in 1..Len(p) : p[i] = "release"

LEMMA TailFits ==
    ASSUME NEW c \in Calls, NEW p \in Seq(Steps), p # <<>>, Fits(c, p)
    PROVE  /\ Fits(c, Tail(p))
           /\ c \in Recoveries /\ Head(p) # "finish" => Tail(p) # <<>>
           /\ Releases(Tail(p)) => Releases(p)
           /\ Releases(p) /\ Head(p) # "release" => Releases(Tail(p))
<1>1. \A i \in 1..Len(p) - 1 : i + 1 \in 1..Len(p)
  BY TailIsPlan
<1>2. /\ Fits(c, Tail(p))
      /\ c \in Recoveries /\ Head(p) # "finish" => Tail(p) # <<>>
  <2>1. /\ Len(p) \in Nat \ {0} /\ Len(Tail(p)) = Len(p) - 1 /\ Head(p) = p[1]
        /\ \A i \in 1..Len(Tail(p)) : i + 1 \in 1..Len(p) /\ Tail(p)[i] = p[i + 1]
        /\ Tail(p) = <<>> <=> Len(p) = 1
    <3>1. Tail(p) \in Seq(Steps) /\ Len(p) \in Nat \ {0} /\ Len(Tail(p)) = Len(p) - 1
      BY TailIsPlan
    <3>2. Tail(p) = <<>> <=> Len(Tail(p)) = 0
      BY <3>1, EmptyPlan
    <3> QED BY <1>1, <3>1, <3>2, TailIsPlan
  <2>2. \A i \in 1..Len(Tail(p)) : Tail(p)[i] = "replace"
            => i < Len(Tail(p)) /\ Tail(p)[i + 1] = "add"
    <3> SUFFICES ASSUME NEW i \in 1..Len(Tail(p)), Tail(p)[i] = "replace"
                 PROVE  i < Len(Tail(p)) /\ Tail(p)[i + 1] = "add"
      OBVIOUS
    <3>1. i + 1 < Len(p) /\ p[i + 1 + 1] = "add"
      BY <2>1 DEF Fits
    <3>2. i + 1 \in 1..Len(Tail(p))
      BY <2>1, <3>1
    <3> QED BY <2>1, <3>1, <3>2
  <2>3. c \in Recoveries => p[Len(p)] = "finish"
    BY DEF Fits
  <2>4. Tail(p) # <<>> => Len(p) - 1 \in 1..Len(Tail(p)) /\ Tail(p)[Len(Tail(p))] = p[Len(p)]
    BY <2>1
  <2>5. c \in Recoveries /\ Head(p) # "finish" => Tail(p) # <<>>
    BY <2>1, <2>3
  <2>6. /\ \A i \in 1..Len(Tail(p)) : Tail(p)[i] = "release" => c \in Users
        /\ \A i \in 1..Len(Tail(p)) : Tail(p)[i] \in {"round", "refresh", "finish"} => c \in Recoveries
    BY <2>1 DEF Fits
  <2> QED BY <2>2, <2>3, <2>4, <2>5, <2>6 DEF Fits
<1>3. Releases(Tail(p)) => Releases(p)
  BY <1>1, TailIsPlan DEF Releases
<1>4. ASSUME Releases(p), Head(p) # "release" PROVE Releases(Tail(p))
  <2>1. PICK i \in 1..Len(p) : p[i] = "release"
    BY <1>4 DEF Releases
  <2>2. i # 1
    BY <2>1, <1>4, TailIsPlan
  <2>3. i - 1 \in 1..Len(Tail(p)) /\ Tail(p)[i - 1] = p[i]
    BY <2>2, TailIsPlan
  <2> QED BY <2>1, <2>3 DEF Releases
<1> QED BY <1>2, <1>3, <1>4

(* A removal that fails leaves out the start that was to follow it.         *)
LEMMA FailedFits ==
    ASSUME NEW c \in Calls, calls[c].plan \in Seq(Steps), calls[c].plan # <<>>,
           Fits(c, calls[c].plan), Head(calls[c].plan) \in {"remove", "replace"}
    PROVE  /\ RestOfFailed(c) \in Seq(Steps) /\ Fits(c, RestOfFailed(c))
           /\ c \in Recoveries => RestOfFailed(c) # <<>>
           /\ Releases(calls[c].plan) => Releases(RestOfFailed(c))
<1> DEFINE p == calls[c].plan
<1>1. /\ Tail(p) \in Seq(Steps) /\ Fits(c, Tail(p)) /\ (c \in Recoveries => Tail(p) # <<>>)
      /\ Releases(p) => Releases(Tail(p))
  BY TailFits, TailIsPlan
<1>2. CASE Head(p) = "replace"
  <2>1. Tail(p) # <<>> /\ Head(Tail(p)) = "add"
    <3>1. 1 \in 1..Len(p) /\ p[1] = "replace"
      BY <1>2, TailIsPlan
    <3>2. 1 < Len(p) /\ p[2] = "add"
      BY <3>1 DEF Fits
    <3>3. Len(Tail(p)) >= 1 /\ Tail(p)[1] = p[2]
      BY <3>2, TailIsPlan
    <3>4. Tail(p) # <<>>
      <4>1. Tail(p) = <<>> <=> Len(Tail(p)) = 0
        BY <1>1, EmptyPlan
      <4> QED BY <3>3, <4>1
    <3> QED BY <3>2, <3>3, <3>4, <1>1, TailIsPlan
  <2> QED BY <1>1, <1>2, <2>1, TailFits, TailIsPlan DEF RestOfFailed, Rest
<1>3. CASE Head(p) # "replace"
  BY <1>1, <1>3 DEF RestOfFailed, Rest
<1> QED BY <1>2, <1>3

(* What a recovery puts in front of the rest of its plan.                   *)
Inserted(p) ==
    /\ \A i \in 1..Len(p) : p[i] = "replace" => i < Len(p) /\ p[i + 1] = "add"
    /\ \A i \in 1..Len(p) : p[i] # "release"

(* A recovery goes on as it began.                                          *)
LEMMA JoinFits ==
    ASSUME NEW c \in Recoveries, Parameters, NEW p \in Seq(Steps), NEW q \in Seq(Steps),
           q # <<>>, Fits(c, q), Inserted(p)
    PROVE  p \o q \in Seq(Steps) /\ Fits(c, p \o q) /\ p \o q # <<>>
<1> DEFINE r == p \o q
<1>1. /\ r \in Seq(Steps) /\ Len(r) = Len(p) + Len(q) /\ Len(p) \in Nat /\ Len(q) \in Nat \ {0}
      /\ \A i \in 1..Len(p) : r[i] = p[i]
      /\ \A i \in 1..Len(q) : r[Len(p) + i] = q[i]
  BY PlanIsJoined, TailIsPlan
<1>2. \A i \in 1..Len(r) : i \in 1..Len(p) \/ \E j \in 1..Len(q) : i = Len(p) + j
  <2> SUFFICES ASSUME NEW i \in 1..Len(r), i \notin 1..Len(p)
               PROVE  \E j \in 1..Len(q) : i = Len(p) + j
    OBVIOUS
  <2>1. i - Len(p) \in 1..Len(q) /\ i = Len(p) + (i - Len(p))
    BY <1>1
  <2> QED BY <2>1
<1>3. \A i \in 1..Len(r) : r[i] = "replace" => i < Len(r) /\ r[i + 1] = "add"
  <2> SUFFICES ASSUME NEW i \in 1..Len(r), r[i] = "replace"
               PROVE  i < Len(r) /\ r[i + 1] = "add"
    OBVIOUS
  <2>1. CASE i \in 1..Len(p)
    <3>1. i < Len(p) /\ p[i + 1] = "add"
      BY <1>1, <2>1 DEF Inserted
    <3> QED BY <1>1, <2>1, <3>1
  <2>2. ASSUME NEW j \in 1..Len(q), i = Len(p) + j PROVE i < Len(r) /\ r[i + 1] = "add"
    <3>1. j < Len(q) /\ q[j + 1] = "add"
      BY <1>1, <2>2 DEF Fits
    <3>2. j + 1 \in 1..Len(q) /\ i + 1 = Len(p) + (j + 1)
      BY <1>1, <2>2, <3>1
    <3> QED BY <1>1, <2>2, <3>1, <3>2
  <2> QED BY <1>2, <2>1, <2>2
<1>4. \A i \in 1..Len(r) : r[i] # "release"
  <2> SUFFICES ASSUME NEW i \in 1..Len(r) PROVE r[i] # "release"
    OBVIOUS
  <2>1. CASE i \in 1..Len(p)
    BY <1>1, <2>1 DEF Inserted
  <2>2. ASSUME NEW j \in 1..Len(q), i = Len(p) + j PROVE r[i] # "release"
    <3>1. q[j] # "release"
      BY DEF Fits, Parameters
    <3> QED BY <1>1, <2>2, <3>1
  <2> QED BY <1>2, <2>1, <2>2
<1>5. r # <<>> /\ r[Len(r)] = "finish"
  <2>1. Len(q) \in 1..Len(q) /\ q[Len(q)] = "finish"
    BY <1>1 DEF Fits
  <2> QED BY <1>1, <2>1
<1> QED BY <1>1, <1>3, <1>4, <1>5 DEF Fits
LEMMA InsertedJoin ==
    ASSUME NEW p \in Seq(Steps), NEW q \in Seq(Steps), Inserted(p), Inserted(q)
    PROVE  p \o q \in Seq(Steps) /\ Inserted(p \o q)
<1> DEFINE r == p \o q
<1>1. /\ r \in Seq(Steps) /\ Len(r) = Len(p) + Len(q) /\ Len(p) \in Nat /\ Len(q) \in Nat
      /\ \A i \in 1..Len(p) : r[i] = p[i]
      /\ \A i \in 1..Len(q) : r[Len(p) + i] = q[i]
  BY PlanIsJoined
<1>2. SUFFICES ASSUME NEW i \in 1..Len(r)
               PROVE  /\ r[i] = "replace" => i < Len(r) /\ r[i + 1] = "add"
                      /\ r[i] # "release"
  BY <1>1 DEF Inserted
<1>3. CASE i \in 1..Len(p)
  <2>1. r[i] = p[i] /\ p[i] # "release"
    BY <1>1, <1>3 DEF Inserted
  <2>2. ASSUME r[i] = "replace" PROVE i < Len(r) /\ r[i + 1] = "add"
    <3>1. i < Len(p) /\ p[i + 1] = "add"
      BY <1>3, <2>1, <2>2 DEF Inserted
    <3>2. i + 1 \in 1..Len(p)
      BY <1>1, <1>3, <3>1
    <3> QED BY <1>1, <3>1, <3>2
  <2> QED BY <2>1, <2>2
<1>4. CASE i \notin 1..Len(p)
  <2> DEFINE j == i - Len(p)
  <2>1. j \in 1..Len(q) /\ i = Len(p) + j
    BY <1>1, <1>2, <1>4
  <2>2. r[i] = q[j] /\ q[j] # "release"
    BY <1>1, <2>1 DEF Inserted
  <2>3. ASSUME r[i] = "replace" PROVE i < Len(r) /\ r[i + 1] = "add"
    <3>1. j < Len(q) /\ q[j + 1] = "add"
      BY <2>1, <2>2, <2>3 DEF Inserted
    <3>2. j + 1 \in 1..Len(q) /\ i + 1 = Len(p) + (j + 1)
      BY <1>1, <2>1, <3>1
    <3> QED BY <1>1, <2>1, <3>1, <3>2
  <2> QED BY <2>2, <2>3
<1> QED BY <1>3, <1>4

LEMMA InsertedPlans ==
    ASSUME Parameters
    PROVE  /\ \A p \in {<<>>, <<"add">>, <<"remove">>, <<"refresh">>, <<"remove", "add">>,
                       <<"replace", "add">>} : p \in Seq(Steps) /\ Inserted(p)
           /\ Rounds \in Seq(Steps) /\ Inserted(Rounds)
           /\ <<"remove">> \o Rounds \in Seq(Steps) /\ Inserted(<<"remove">> \o Rounds)
<1>1. <<>> \in Seq(Steps) /\ Inserted(<<>>)
  BY DEF Inserted, Steps
<1>2. <<"add">> \in Seq(Steps) /\ Inserted(<<"add">>)
  BY DEF Inserted, Steps
<1>3. <<"remove">> \in Seq(Steps) /\ Inserted(<<"remove">>)
  BY DEF Inserted, Steps
<1>4. <<"refresh">> \in Seq(Steps) /\ Inserted(<<"refresh">>)
  BY DEF Inserted, Steps
<1>5. <<"remove", "add">> \in Seq(Steps) /\ Inserted(<<"remove", "add">>)
  BY DEF Inserted, Steps
<1>6. <<"replace", "add">> \in Seq(Steps) /\ Inserted(<<"replace", "add">>)
  BY DEF Inserted, Steps
<1>7. Rounds \in Seq(Steps) /\ Inserted(Rounds)
  BY RoundsArePlan DEF Inserted
<1>8. <<"remove">> \o Rounds \in Seq(Steps) /\ Inserted(<<"remove">> \o Rounds)
  BY <1>3, <1>7, InsertedJoin
<1> HIDE DEF Inserted
<1> QED BY <1>1, <1>2, <1>3, <1>4, <1>5, <1>6, <1>7, <1>8

-----------------------------------------------------------------------------
(* Types.  A step writes the work of the call that makes it; a start that   *)
(* begins takes the title of the latest from the others.                    *)
Planned(c) ==
    /\ Fits(c, calls[c].plan)
    /\ calls[c].at \in Starting => calls[c].plan # <<>> /\ Head(calls[c].plan) = "add"
    /\ calls[c].at \in {"stopping", "settling"} =>
          calls[c].plan # <<>> /\ Head(calls[c].plan) \in {"remove", "replace"}
    /\ calls[c].at \in {"scheduled", "observed", "finishing"} =>
          calls[c].plan = <<>> /\ c \in Recoveries
    /\ calls[c].at = "away" => calls[c].plan = <<>>
PlanInv == \A c \in Calls : Planned(c)

(* A call at its plan, with what it has left to do.                         *)
LEMMA ShortPlans ==
    ASSUME NEW c \in Calls
    PROVE  /\ <<>> \in Seq(Steps) /\ Fits(c, <<>>)
           /\ c \notin Recoveries => Fits(c, <<"add">>) /\ Fits(c, <<"remove">>)
           /\ c \notin Recoveries => Fits(c, <<"remove", "add">>)
           /\ c \notin Recoveries => Fits(c, <<"replace", "add">>)
           /\ c \in Users \ Recoveries =>
                 Fits(c, <<"release">>) /\ Fits(c, <<"remove", "release", "add">>)
           /\ {<<"add">>, <<"remove">>, <<"remove", "add">>, <<"replace", "add">>,
               <<"release">>, <<"remove", "release", "add">>, <<"finish">>,
               <<"refresh">>} \subseteq Seq(Steps)
           /\ c \in Recoveries => Fits(c, <<"finish">>)
BY DEF Fits, Steps

LEMMA ScanPlansArePlans ==
    ASSUME NEW p \in {<<>>} \cup {scan \o <<"refresh">> : scan \in ScanPlans}
    PROVE  p \in Seq(Steps)
<1>1. {<<>>, <<"add">>, <<"remove">>, <<"remove", "add">>, <<"replace", "add">>, <<"refresh">>}
        \subseteq Seq(Steps)
  BY DEF Steps
<1>2. ScanPlans \subseteq Seq(Steps)
  BY <1>1 DEF ScanPlans
<1>3. \A scan \in ScanPlans : scan \o <<"refresh">> \in Seq(Steps)
  BY <1>1, <1>2, PlanIsJoined
<1> QED BY <1>1, <1>3

LEMMA FinishIsRecovery ==
    ASSUME NEW c \in Calls, calls[c].plan \in Seq(Steps), Planned(c), Doing(c, "finish")
    PROVE  c \in Recoveries
<1>1. calls[c].plan # <<>> /\ 1 \in 1..Len(calls[c].plan) /\ calls[c].plan[1] = "finish"
  BY TailIsPlan DEF Doing
<1> QED BY <1>1 DEF Planned, Fits

(* What a step of c leaves of the others, and its own plan.                 *)
Frame(c) ==
    /\ calls' \in [Calls -> Works]
    /\ \A d \in Calls \ {c} :
          /\ calls'[d].at = calls[d].at /\ calls'[d].plan = calls[d].plan
          /\ calls'[d].token = calls[d].token /\ calls'[d].own = calls[d].own
          /\ calls'[d].current => calls[d].current
Request(c) == Tick(c) \/ Rescan(c) \/ RebuildWorker(c) \/ ReleaseRebuilding(c) \/ DeleteDevice(c)
Keeps(c) == Frame(c) /\ TypeOK' /\ Planned(c)'

LEMMA StartKeeps ==
    ASSUME Parameters, TypeOK, PlanInv, NEW c \in Calls, Start(c)
    PROVE  Keeps(c)
<1>1. /\ calls[c] \in Works /\ calls[c].plan \in Seq(Steps)
      /\ calls[c].token \in Tokens \cup {None} /\ Planned(c)
  BY DEF TypeOK, PlanInv, Works
<1> USE DEF Keeps, Frame, TypeOK, Works, Places, Starting, registry, ports, marks,
            At, Goto, Plan, Held, Doing, Free, Planned
<1>2. CASE BeginRebuildAttempt(c)
  BY <1>1, <1>2, NewWorker DEF BeginRebuildAttempt, Fresh
<1>3. CASE StartIsRefused(c)
  BY <1>1, <1>3, TailIsPlan, TailFits DEF StartIsRefused, Rest
<1>4. CASE Build(c)
  BY <1>1, <1>4 DEF Build
<1>5. CASE BuildFails(c)
  BY <1>1, <1>5 DEF BuildFails
<1>6. CASE Register(c)
  <2>1. PICK place \in {"starting", "ending"} : calls' = [calls EXCEPT ![c].at = place]
    BY <1>6 DEF Register
  <2>2. worker' \in {worker, calls[c].token} /\ UNCHANGED <<backend, ports, rebuilding, marks>>
    BY <1>6 DEF Register
  <2>3. calls[c].plan # <<>> /\ Head(calls[c].plan) = "add"
    BY <1>1, <1>6 DEF Register
  <2>4. Frame(c)
    BY <1>1, <2>1
  <2>5. Planned(c)'
    BY <1>1, <2>1, <2>3
  <2>6. TypeOK'
    BY <1>1, <2>2, <2>4
  <2> QED BY <2>4, <2>5, <2>6
<1>7. CASE CoreStarts(c)
  BY <1>1, <1>7 DEF CoreStarts
<1>11. CASE CoreRetries(c)
  BY <1>1, <1>11 DEF CoreRetries
<1>8. CASE CoreFails(c)
  BY <1>1, <1>8 DEF CoreFails
<1>9. CASE EndRebuildAttempt(c)
  BY <1>1, <1>9, TailIsPlan, TailFits DEF EndRebuildAttempt, Rest
<1>10. CASE Watchdog(c)
  BY <1>1, <1>10 DEF Watchdog
<1> QED
  BY <1>2, <1>3, <1>4, <1>5, <1>6, <1>7, <1>8, <1>9, <1>10, <1>11 DEF Start

LEMMA RemoveKeeps ==
    ASSUME Parameters, TypeOK, PlanInv, NEW c \in Calls, Remove(c)
    PROVE  Keeps(c)
<1>1. /\ calls[c] \in Works /\ calls[c].plan \in Seq(Steps)
      /\ calls[c].token \in Tokens \cup {None} /\ Planned(c)
  BY DEF TypeOK, PlanInv, Works
<1> USE DEF Keeps, Frame, TypeOK, Works, Places, Starting, registry, ports, marks,
            At, Goto, Plan, Held, Doing, Free, Planned
<1>2. CASE RemoveWorker(c)
  <2>0. calls[c].plan # <<>> /\ Head(calls[c].plan) \in {"remove", "replace"}
    BY <1>2 DEF RemoveWorker
  <2>1. CASE worker # None
    <3>1. calls' = [calls EXCEPT ![c].at = "stopping", ![c].token = worker, ![c].own = ~ rebuilding]
      BY <1>2, <2>1 DEF RemoveWorker
    <3>2. worker' = None /\ rebuilding' = TRUE /\ UNCHANGED <<backend, ports, marks>>
      BY <1>2, <2>1 DEF RemoveWorker
    <3>3. (~ rebuilding) \in BOOLEAN
      OBVIOUS
    <3> HIDE DEF Fits
    <3>4. /\ calls'[c].at = "stopping" /\ calls'[c].plan = calls[c].plan
          /\ calls'[c].token = worker /\ calls'[c] \in Works
      BY <1>1, <3>1, <3>3
    <3>5. calls' \in [Calls -> Works] /\ \A d \in Calls \ {c} : calls'[d] = calls[d]
      BY <3>1, <3>4
    <3>6. Planned(c)'
      BY <1>1, <2>0, <3>4 DEF Fits
    <3> HIDE DEF Planned
    <3> QED BY <3>2, <3>5, <3>6
  <2>2. CASE worker = None /\ rebuilding
    <3>1. calls' = [calls EXCEPT ![c].at = "settling"]
      BY <1>2, <2>2 DEF RemoveWorker
    <3>2. UNCHANGED <<registry, marks>>
      BY <1>2, <2>2 DEF RemoveWorker
    <3> QED BY <1>1, <2>0, <3>1, <3>2
  <2>3. CASE worker = None /\ ~ rebuilding
    <3>1. RestOfFailed(c) \in Seq(Steps) /\ Fits(c, RestOfFailed(c))
      BY <1>1, <1>2, FailedFits DEF RemoveWorker
    <3> QED BY <1>1, <1>2, <2>3, <3>1 DEF RemoveWorker
  <2> QED BY <2>1, <2>2, <2>3 DEF TypeOK
<1>3. CASE Settled(c)
  BY <1>1, <1>3 DEF Settled
<1>4. CASE SettlingTimesOut(c)
  BY <1>1, <1>4, FailedFits DEF SettlingTimesOut
<1>5. CASE StopWorker(c)
  BY <1>1, <1>5, TailIsPlan, TailFits DEF StopWorker, Rest
<1> QED
  BY <1>2, <1>3, <1>4, <1>5 DEF Remove

LEMMA RecoveryKeeps ==
    ASSUME Parameters, TypeOK, PlanInv, NEW c \in Calls, Recovery(c)
    PROVE  Keeps(c)
<1>1. /\ calls[c] \in Works /\ calls[c].plan \in Seq(Steps)
      /\ calls[c].token \in Tokens \cup {None} /\ Planned(c)
  BY DEF TypeOK, PlanInv, Works
<1> USE DEF Keeps, Frame, TypeOK, Works, Places, Starting, registry, ports, marks,
            At, Goto, Plan, Held, Doing, Free, Planned
<1>2. CASE ScheduleByEvent(c)
  BY <1>1, <1>2 DEF ScheduleByEvent
<1>3. CASE Schedule(c)
  BY <1>1, <1>3 DEF Schedule
<1>4. CASE BeginRecovery(c)
  <2>1. PICK plan \in {<<"remove">> \o Rounds, Rounds} : Plan(c, plan \o <<"finish">>)
    BY <1>4 DEF BeginRecovery
  <2>2. c \in Recoveries
    BY <1>1, <1>4 DEF BeginRecovery, Scheduled
  <2>3. plan \in Seq(Steps) /\ Inserted(plan)
    BY InsertedPlans, RoundsArePlan
  <2>4. plan \o <<"finish">> \in Seq(Steps) /\ Fits(c, plan \o <<"finish">>)
        /\ plan \o <<"finish">> # <<>>
    BY <2>2, <2>3, ShortPlans, JoinFits
  <2> QED BY <1>1, <1>4, <2>1, <2>4 DEF BeginRecovery
<1>5. CASE SkipRecovery(c)
  BY <1>1, <1>5 DEF SkipRecovery, Scheduled
<1>6. CASE Round(c)
  <2> DEFINE plans == {<<>>} \cup {scan \o <<"refresh">> : scan \in ScanPlans}
  <2>1. PICK plan \in plans : Plan(c, plan \o Rest(c))
    BY <1>6 DEF Round
  <2>2. c \in Recoveries /\ calls[c].plan # <<>>
    <3>1. 1 \in 1..Len(calls[c].plan) /\ calls[c].plan[1] = "round"
      BY <1>1, <1>6, TailIsPlan DEF Round
    <3> QED BY <1>1, <1>6, <3>1 DEF Round, Fits
  <2>3. Rest(c) \in Seq(Steps) /\ Rest(c) # <<>> /\ Fits(c, Rest(c))
    BY <1>1, <1>6, <2>2, TailIsPlan, TailFits DEF Round, Rest
  <2>4. plan \in Seq(Steps) /\ Inserted(plan)
    <3>1. \A scan \in ScanPlans : scan \in Seq(Steps) /\ Inserted(scan)
      BY InsertedPlans DEF ScanPlans
    <3>2. <<"refresh">> \in Seq(Steps) /\ Inserted(<<"refresh">>)
      BY InsertedPlans
    <3>3. CASE plan = <<>>
      BY <3>3, InsertedPlans
    <3>4. ASSUME NEW scan \in ScanPlans, plan = scan \o <<"refresh">>
          PROVE  plan \in Seq(Steps) /\ Inserted(plan)
      BY <3>1, <3>2, <3>4, InsertedJoin
    <3> QED BY <3>3, <3>4
  <2>5. plan \o Rest(c) \in Seq(Steps) /\ Fits(c, plan \o Rest(c)) /\ plan \o Rest(c) # <<>>
    BY <2>2, <2>3, <2>4, JoinFits
  <2> QED BY <1>1, <1>6, <2>1, <2>5 DEF Round
<1>7. CASE Refresh(c)
  <2>1. calls[c].plan # <<>> /\ c \in Recoveries
    <3>1. 1 \in 1..Len(calls[c].plan) /\ calls[c].plan[1] = "refresh"
      BY <1>1, <1>7, TailIsPlan DEF Refresh
    <3> QED BY <1>1, <1>7, <3>1 DEF Refresh, Fits
  <2>2. Rest(c) \in Seq(Steps) /\ Rest(c) # <<>> /\ Fits(c, Rest(c))
    BY <1>1, <1>7, <2>1, TailIsPlan, TailFits DEF Refresh, Rest
  <2>3. <<"remove">> \o Rest(c) \in Seq(Steps) /\ Fits(c, <<"remove">> \o Rest(c))
    BY <2>1, <2>2, InsertedPlans, JoinFits
  <2>4. PICK plan \in {Rest(c), <<"remove">> \o Rest(c), <<"finish">>} : Plan(c, plan)
    BY <1>7 DEF Refresh
  <2>5. plan \in Seq(Steps) /\ Fits(c, plan)
    BY <2>1, <2>2, <2>3, ShortPlans
  <2>6. UNCHANGED <<registry, marks>>
    BY <1>7 DEF Refresh
  <2> QED BY <1>1, <1>7, <2>4, <2>5, <2>6 DEF Refresh
<1>8. CASE FinishRecovery(c)
  BY <1>1, <1>8, ShortPlans, FinishIsRecovery DEF FinishRecovery
<1>9. CASE FinishTransport(c)
  BY <1>1, <1>9, ShortPlans DEF FinishTransport
<1> QED
  BY <1>2, <1>3, <1>4, <1>5, <1>6, <1>7, <1>8, <1>9 DEF Recovery

LEMMA RequestKeeps ==
    ASSUME Parameters, TypeOK, PlanInv, NEW c \in Calls, Request(c)
    PROVE  Keeps(c)
<1>1. /\ calls[c] \in Works /\ calls[c].plan \in Seq(Steps)
      /\ calls[c].token \in Tokens \cup {None} /\ Planned(c)
  BY DEF TypeOK, PlanInv, Works
<1> USE DEF Keeps, Frame, TypeOK, Works, Places, Starting, registry, ports, marks,
            At, Goto, Plan, Held, Doing, Free, Planned
<1>2. CASE Tick(c)
  BY <1>1, <1>2, ShortPlans DEF Tick, Parameters
<1>3. CASE Rescan(c)
  <2>1. PICK plan \in ScanPlans : Plan(c, plan)
    BY <1>3 DEF Rescan
  <2>2. plan \in Seq(Steps) /\ Fits(c, plan)
    BY <1>3, ShortPlans DEF Rescan, ScanPlans, Parameters
  <2> QED BY <1>1, <1>3, <2>1, <2>2 DEF Rescan
<1>4. CASE RebuildWorker(c)
  BY <1>1, <1>4, ShortPlans DEF RebuildWorker, Parameters
<1>5. CASE ReleaseRebuilding(c)
  BY <1>1, <1>5, TailIsPlan, TailFits DEF ReleaseRebuilding, Rest
<1>6. CASE DeleteDevice(c)
  BY <1>1, <1>6, ShortPlans DEF DeleteDevice, Parameters
<1> QED
  BY <1>2, <1>3, <1>4, <1>5, <1>6 DEF Request

LEMMA StepKeeps ==
    ASSUME Parameters, TypeOK, PlanInv, NEW c \in Calls, Step(c)
    PROVE  Keeps(c)
BY StartKeeps, RemoveKeeps, RecoveryKeeps, RequestKeeps DEF Step, Request

LEMMA NextPlan ==
    ASSUME Parameters, TypeOK, PlanInv, [Next]_vars
    PROVE  TypeOK' /\ PlanInv'
<1>1. ASSUME NEW c \in Calls, Step(c) PROVE TypeOK' /\ PlanInv'
  <2>1. Keeps(c)
    BY <1>1, StepKeeps
  <2>2. ASSUME NEW d \in Calls \ {c} PROVE Planned(d)'
    <3>1. Planned(d) /\ calls'[d].at = calls[d].at /\ calls'[d].plan = calls[d].plan
      BY <2>1 DEF PlanInv, Keeps, Frame
    <3> QED BY <3>1 DEF Planned, Fits
  <2> QED BY <2>1, <2>2 DEF Keeps, PlanInv
<1>2. CASE UNCHANGED vars
  BY <1>2 DEF vars, registry, ports, marks, TypeOK, PlanInv, Planned, Fits
<1>3. ASSUME NEW w \in Tokens, Retry(w) PROVE TypeOK' /\ PlanInv'
  BY <1>3 DEF Retry, RetrySucceeds, RetryEnds, marks, TypeOK, PlanInv, Planned, Fits
<1> QED BY <1>1, <1>2, <1>3 DEF Next

LEMMA InitPlan == Parameters /\ Init => TypeOK /\ PlanInv
<1> SUFFICES ASSUME Parameters, Init PROVE TypeOK /\ PlanInv
  OBVIOUS
<1>1. <<>> \in Seq(Steps)
  OBVIOUS
<1>2. Idle \in Works /\ Away \in Works
  BY <1>1 DEF Idle, Away, Works, Places
<1>3. \A c \in Calls : calls[c] \in {Idle, Away}
  BY DEF Init
<1>4. TypeOK
  BY <1>2 DEF Init, TypeOK
<1>5. \A c \in Calls : calls[c].plan = <<>> /\ calls[c].at \in {"plan", "away"}
  BY <1>3 DEF Idle, Away
<1>6. PlanInv
  BY <1>5, ShortPlans DEF PlanInv, Planned, Starting
<1> QED BY <1>4, <1>6
-----------------------------------------------------------------------------
(* The mark of the device.                                                  *)
Owns(c) ==
    \/ calls[c].at \in Starting /\ calls[c].current
    \/ At(c, "stopping") /\ calls[c].own
    \/ Releases(calls[c].plan)

LEMMA MarkHasOwner ==
    ASSUME TypeOK
    PROVE  MarkIsOwned <=> (rebuilding => \E c \in Calls : Owns(c))
<1>1. \A c \in Calls : calls[c].plan \in Seq(Steps)
  BY DEF TypeOK, Works
<1>2. \A c \in Calls : DOMAIN calls[c].plan = 1..Len(calls[c].plan)
  BY <1>1
<1> QED BY <1>2 DEF MarkIsOwned, Owns, Releases

(* Whoever does not write its own title away leaves the mark with an owner. *)
LEMMA OwnerStays ==
    ASSUME TypeOK, TypeOK', MarkIsOwned, NEW c \in Calls,
           \A d \in Calls \ {c} : calls'[d] = calls[d],
           rebuilding' => Owns(c)' \/ (rebuilding /\ ~ Owns(c))
    PROVE  MarkIsOwned'
<1> SUFFICES ASSUME rebuilding' PROVE \E d \in Calls : Owns(d)'
  BY MarkHasOwner DEF MarkIsOwned, Owns, Releases, TypeOK, Works
<1>1. CASE Owns(c)'
  BY <1>1
<1>2. CASE rebuilding /\ ~ Owns(c)
  <2>1. PICK d \in Calls : Owns(d)
    BY <1>2, MarkHasOwner
  <2>2. d # c /\ calls'[d] = calls[d]
    BY <1>2, <2>1
  <2> QED BY <2>1, <2>2 DEF Owns, At, Releases
<1> QED BY <1>1, <1>2

LEMMA StepMark ==
    ASSUME Parameters, TypeOK, TypeOK', PlanInv, MarkIsOwned, NEW c \in Calls, Step(c)
    PROVE  MarkIsOwned'
<1>1. /\ calls[c] \in Works /\ calls[c].plan \in Seq(Steps)
      /\ calls[c].token \in Tokens \cup {None} /\ Planned(c)
  BY DEF TypeOK, PlanInv, Works
<1>2. CASE BeginRebuildAttempt(c)
  <2>1. calls'[c].at = "building" /\ calls'[c].current
    BY <1>1, <1>2 DEF BeginRebuildAttempt, TypeOK, Works
  <2>2. Owns(c)'
    BY <2>1 DEF Owns, Starting
  <2> QED BY <2>2, MarkHasOwner DEF MarkIsOwned, Owns, Releases, TypeOK, Works
<1>3. ASSUME \/ StartIsRefused(c) \/ Build(c) \/ BuildFails(c) \/ Register(c)
             \/ CoreStarts(c) \/ CoreRetries(c) \/ CoreFails(c) \/ EndRebuildAttempt(c) \/ Watchdog(c)
             \/ Remove(c) \/ Recovery(c)
             \/ Tick(c) \/ Rescan(c) \/ RebuildWorker(c) \/ ReleaseRebuilding(c) \/ DeleteDevice(c)
      PROVE  \A d \in Calls \ {c} : calls'[d] = calls[d]
  BY <1>3 DEF StartIsRefused, Build, BuildFails, Register, CoreStarts, CoreRetries, CoreFails,
       EndRebuildAttempt, Watchdog, Remove, RemoveWorker, Settled, SettlingTimesOut, StopWorker,
       Recovery, ScheduleByEvent, Schedule, BeginRecovery, SkipRecovery, Round, Refresh,
       FinishRecovery, FinishTransport, Tick, Rescan, RebuildWorker, ReleaseRebuilding, DeleteDevice,
       Goto, Plan, TypeOK
<1> USE DEF Owns, TypeOK, Works, registry, ports, marks, At, Goto, Plan, Held, Doing, Free
<1>4. ASSUME StartIsRefused(c) PROVE rebuilding' => Owns(c)' \/ (rebuilding /\ ~ Owns(c))
  BY <1>1, <1>4, TailIsPlan, TailFits DEF StartIsRefused, Rest, Planned
<1>5. ASSUME Build(c) PROVE rebuilding' => Owns(c)' \/ (rebuilding /\ ~ Owns(c))
  BY <1>1, <1>5 DEF Build, Starting
<1>6. ASSUME BuildFails(c) PROVE rebuilding' => Owns(c)' \/ (rebuilding /\ ~ Owns(c))
  BY <1>1, <1>6 DEF BuildFails, Starting
<1>7. ASSUME Register(c) PROVE rebuilding' => Owns(c)' \/ (rebuilding /\ ~ Owns(c))
  <2>1. PICK place \in {"starting", "ending"} : calls' = [calls EXCEPT ![c].at = place]
    BY <1>7 DEF Register
  <2>2. rebuilding' = rebuilding /\ calls[c].at \in Starting
    BY <1>7 DEF Register, Starting
  <2>3. calls'[c].at \in Starting /\ calls'[c].plan = calls[c].plan /\ calls'[c].current = calls[c].current
    BY <1>1, <2>1 DEF Starting
  <2> QED BY <2>2, <2>3 DEF Releases, Starting
<1>8. ASSUME CoreStarts(c) PROVE rebuilding' => Owns(c)' \/ (rebuilding /\ ~ Owns(c))
  BY <1>1, <1>8 DEF CoreStarts, Starting
<1>29. ASSUME CoreRetries(c) PROVE rebuilding' => Owns(c)' \/ (rebuilding /\ ~ Owns(c))
  BY <1>1, <1>29 DEF CoreRetries, Starting
<1>9. ASSUME CoreFails(c) PROVE rebuilding' => Owns(c)' \/ (rebuilding /\ ~ Owns(c))
  BY <1>1, <1>9 DEF CoreFails, Starting
<1>10. ASSUME EndRebuildAttempt(c) PROVE rebuilding' => Owns(c)' \/ (rebuilding /\ ~ Owns(c))
  BY <1>1, <1>10, TailIsPlan, TailFits DEF EndRebuildAttempt, Rest, Planned, Starting
<1>11. ASSUME Watchdog(c) PROVE rebuilding' => Owns(c)' \/ (rebuilding /\ ~ Owns(c))
  BY <1>1, <1>11 DEF Watchdog, Starting
<1>12. ASSUME RemoveWorker(c) PROVE rebuilding' => Owns(c)' \/ (rebuilding /\ ~ Owns(c))
  <2>1. CASE worker # None /\ ~ rebuilding
    <3>1. calls' = [calls EXCEPT ![c].at = "stopping", ![c].token = worker, ![c].own = ~ rebuilding]
      BY <1>12, <2>1 DEF RemoveWorker
    <3> QED BY <1>1, <2>1, <3>1
  <2>2. CASE worker # None /\ rebuilding
    <3>1. calls' = [calls EXCEPT ![c].at = "stopping", ![c].token = worker, ![c].own = ~ rebuilding]
      BY <1>12, <2>2 DEF RemoveWorker
    <3>2. calls[c].at = "plan" /\ calls'[c].plan = calls[c].plan
      BY <1>1, <1>12, <3>1 DEF RemoveWorker
    <3> QED BY <2>2, <3>2 DEF Starting, Releases
  <2>3. CASE worker = None /\ rebuilding
    <3>1. calls' = [calls EXCEPT ![c].at = "settling"] /\ calls[c].at = "plan"
      BY <1>12, <2>3 DEF RemoveWorker
    <3>2. calls'[c].plan = calls[c].plan
      BY <1>1, <3>1
    <3> QED BY <2>3, <3>1, <3>2 DEF Starting, Releases
  <2>4. CASE worker = None /\ ~ rebuilding
    BY <1>12, <2>4 DEF RemoveWorker
  <2> QED BY <2>1, <2>2, <2>3, <2>4
<1>13. ASSUME Settled(c) PROVE rebuilding' => Owns(c)' \/ (rebuilding /\ ~ Owns(c))
  BY <1>1, <1>13 DEF Settled, Starting
<1>14. ASSUME SettlingTimesOut(c) PROVE rebuilding' => Owns(c)' \/ (rebuilding /\ ~ Owns(c))
  BY <1>1, <1>14, FailedFits DEF SettlingTimesOut, Planned, Starting
<1>15. ASSUME StopWorker(c) PROVE rebuilding' => Owns(c)' \/ (rebuilding /\ ~ Owns(c))
  BY <1>1, <1>15, TailIsPlan, TailFits DEF StopWorker, Rest, Planned
<1>16. ASSUME ScheduleByEvent(c) PROVE rebuilding' => Owns(c)' \/ (rebuilding /\ ~ Owns(c))
  BY <1>1, <1>16 DEF ScheduleByEvent, Starting
<1>17. ASSUME Schedule(c) PROVE rebuilding' => Owns(c)' \/ (rebuilding /\ ~ Owns(c))
  BY <1>1, <1>17 DEF Schedule, Starting
<1>18. ASSUME SkipRecovery(c) PROVE rebuilding' => Owns(c)' \/ (rebuilding /\ ~ Owns(c))
  BY <1>1, <1>18 DEF SkipRecovery, Starting, Scheduled
<1>19. ASSUME Tick(c) PROVE rebuilding' => Owns(c)' \/ (rebuilding /\ ~ Owns(c))
  BY <1>1, <1>19 DEF Tick, Releases, Starting
<1>20. ASSUME Rescan(c) PROVE rebuilding' => Owns(c)' \/ (rebuilding /\ ~ Owns(c))
  BY <1>1, <1>20 DEF Rescan, Releases, Starting
<1>21. ASSUME RebuildWorker(c) PROVE rebuilding' => Owns(c)' \/ (rebuilding /\ ~ Owns(c))
  <2>1. PICK plan \in {<<"release">>, <<"remove", "release", "add">>} : Plan(c, plan)
    BY <1>21 DEF RebuildWorker
  <2>2. Releases(<<"release">>) /\ Releases(<<"remove", "release", "add">>)
    <3>1. 1 \in 1..Len(<<"release">>) /\ <<"release">>[1] = "release"
      OBVIOUS
    <3>2. 2 \in 1..Len(<<"remove", "release", "add">>) /\ <<"remove", "release", "add">>[2] = "release"
      OBVIOUS
    <3> QED BY <3>1, <3>2 DEF Releases
  <2>3. calls'[c].plan = plan
    BY <1>1, <2>1
  <2> QED BY <2>1, <2>2, <2>3
<1>22. ASSUME ReleaseRebuilding(c) PROVE rebuilding' => Owns(c)' \/ (rebuilding /\ ~ Owns(c))
  BY <1>1, <1>22 DEF ReleaseRebuilding
<1>23. ASSUME DeleteDevice(c) PROVE rebuilding' => Owns(c)' \/ (rebuilding /\ ~ Owns(c))
  BY <1>1, <1>23 DEF DeleteDevice, Releases, Starting
<1>24. ASSUME BeginRecovery(c) PROVE rebuilding' => Owns(c)' \/ (rebuilding /\ ~ Owns(c))
  <2>1. c \in Recoveries
    BY <1>1, <1>24 DEF BeginRecovery, Scheduled, Planned
  <2>2. ~ Releases(calls[c].plan)
    BY <1>1, <2>1 DEF Releases, Planned, Fits, Parameters
  <2>3. calls[c].at \in {"plan", "scheduled", "observed", "finishing"} /\ rebuilding' = rebuilding
    BY <1>24 DEF BeginRecovery, Scheduled
  <2> QED BY <2>2, <2>3 DEF Starting
<1>25. ASSUME Round(c) PROVE rebuilding' => Owns(c)' \/ (rebuilding /\ ~ Owns(c))
  <2>1. c \in Recoveries
    <3>1. 1 \in 1..Len(calls[c].plan) /\ calls[c].plan[1] \in {"round", "refresh"}
      BY <1>1, <1>25, TailIsPlan DEF Round
    <3> QED BY <1>1, <3>1 DEF Planned, Fits
  <2>2. ~ Releases(calls[c].plan)
    BY <1>1, <2>1 DEF Releases, Planned, Fits, Parameters
  <2>3. calls[c].at \in {"plan", "scheduled", "observed", "finishing"} /\ rebuilding' = rebuilding
    BY <1>25 DEF Round
  <2> QED BY <2>2, <2>3 DEF Starting
<1>26. ASSUME Refresh(c) PROVE rebuilding' => Owns(c)' \/ (rebuilding /\ ~ Owns(c))
  <2>1. c \in Recoveries
    <3>1. 1 \in 1..Len(calls[c].plan) /\ calls[c].plan[1] \in {"round", "refresh"}
      BY <1>1, <1>26, TailIsPlan DEF Refresh
    <3> QED BY <1>1, <3>1 DEF Planned, Fits
  <2>2. ~ Releases(calls[c].plan)
    BY <1>1, <2>1 DEF Releases, Planned, Fits, Parameters
  <2>3. calls[c].at \in {"plan", "scheduled", "observed", "finishing"} /\ rebuilding' = rebuilding
    BY <1>26 DEF Refresh
  <2> QED BY <2>2, <2>3 DEF Starting
<1>27. ASSUME FinishRecovery(c) PROVE rebuilding' => Owns(c)' \/ (rebuilding /\ ~ Owns(c))
  <2>1. c \in Recoveries
    BY <1>1, <1>27, FinishIsRecovery DEF FinishRecovery
  <2>2. ~ Releases(calls[c].plan)
    BY <1>1, <2>1 DEF Releases, Planned, Fits, Parameters
  <2>3. calls[c].at \in {"plan", "scheduled", "observed", "finishing"} /\ rebuilding' = rebuilding
    BY <1>27 DEF FinishRecovery
  <2> QED BY <2>2, <2>3 DEF Starting
<1>28. ASSUME FinishTransport(c) PROVE rebuilding' => Owns(c)' \/ (rebuilding /\ ~ Owns(c))
  <2>1. c \in Recoveries
    BY <1>1, <1>28 DEF FinishTransport, Planned
  <2>2. ~ Releases(calls[c].plan)
    BY <1>1, <2>1 DEF Releases, Planned, Fits, Parameters
  <2>3. calls[c].at \in {"plan", "scheduled", "observed", "finishing"} /\ rebuilding' = rebuilding
    BY <1>28 DEF FinishTransport
  <2> QED BY <2>2, <2>3 DEF Starting
<1> QED
  BY <1>1, <1>2, <1>3, <1>4, <1>5, <1>6, <1>7, <1>8, <1>9, <1>10, <1>11, <1>12, <1>13, <1>14, <1>15, <1>16, <1>17, <1>18, <1>19, <1>20, <1>21, <1>22, <1>23, <1>24, <1>25, <1>26, <1>27, <1>28, <1>29, OwnerStays
  DEF Step, Start, Remove, Recovery
-----------------------------------------------------------------------------
(* The marks of a recovery.  A recovery has something left to do as long as *)
(* it works, and that ends with taking its mark back.                       *)
Busy(c) == c \in Recoveries /\ calls[c].plan # <<>>
Waits(c) == c \in Recoveries /\ calls[c].at \in {"scheduled", "observed", "finishing"}
RecInv ==
    /\ recovering <=> \E c \in Recoveries : Busy(c)
    /\ \A c, d \in Recoveries : Busy(c) /\ Busy(d) => c = d
    /\ active => \E c \in Recoveries : Busy(c) \/ Waits(c)

LEMMA MarksFollow ==
    ASSUME TypeOK, PlanInv, RecInv
    PROVE  RecoveryMarks
<1> DEFINE Out == {c \in Recoveries : ~ Free(c) /\ ~ At(c, "away")}
           Working == {c \in Out : ~ Scheduled(c) /\ ~ At(c, "finishing")}
<1>1. \A c \in Recoveries : Planned(c) /\ calls[c].at \in Places
  BY DEF PlanInv, TypeOK, Works, Calls
<1>2. \A c \in Recoveries : c \in Working <=> Busy(c)
  BY <1>1 DEF Planned, Busy, Free, At, Scheduled, Places, Starting
<1>3. \A c \in Recoveries : c \in Out <=> Busy(c) \/ Waits(c)
  BY <1>1 DEF Planned, Busy, Waits, Free, At, Scheduled, Places, Starting
<1>4. Working \subseteq Recoveries /\ Out \subseteq Recoveries
  OBVIOUS
<1> HIDE DEF Out, Working
<1>5. /\ recovering => Working # {}
      /\ \A c, d \in Working : c = d
      /\ active => Out # {}
  BY <1>2, <1>3, <1>4 DEF RecInv
<1> QED BY <1>5 DEF RecoveryMarks, Out, Working

(* Whoever goes on with its plan, or with none, leaves the marks as they    *)
(* are.                                                                     *)
LEMMA RecoveryStays ==
    ASSUME RecInv, NEW c \in Calls, Frame(c), UNCHANGED marks,
           c \in Recoveries => (Busy(c)' <=> Busy(c)) /\ (Waits(c) => Waits(c)')
    PROVE  RecInv'
<1>1. \A d \in Recoveries : (Busy(d)' <=> Busy(d)) /\ (Waits(d) => Waits(d)')
  BY DEF Frame, Busy, Waits, Calls
<1> QED BY <1>1 DEF RecInv, marks

LEMMA StepRecovery ==
    ASSUME Parameters, TypeOK, PlanInv, RecInv, NEW c \in Calls, Step(c)
    PROVE  RecInv'
<1>1. /\ calls[c] \in Works /\ calls[c].plan \in Seq(Steps)
      /\ calls[c].token \in Tokens \cup {None} /\ Planned(c)
  BY DEF TypeOK, PlanInv, Works
<1>2. Frame(c) /\ Planned(c)'
  BY StepKeeps DEF Keeps
<1>3. /\ calls' \in [Calls -> Works]
      /\ \A d \in Recoveries \ {c} : (Busy(d)' <=> Busy(d)) /\ (Waits(d)' <=> Waits(d))
  BY <1>2 DEF Frame, Busy, Waits, Calls
<1> USE DEF TypeOK, Works, registry, ports, marks, At, Goto, Plan, Held, Doing, Free
<1>4. ASSUME BeginRebuildAttempt(c) PROVE UNCHANGED marks /\ (c \in Recoveries => (Busy(c)' <=> Busy(c)) /\ (Waits(c) => Waits(c)'))
  BY <1>1, <1>4 DEF BeginRebuildAttempt, Busy, Waits
<1>5. ASSUME StartIsRefused(c) PROVE UNCHANGED marks /\ (c \in Recoveries => (Busy(c)' <=> Busy(c)) /\ (Waits(c) => Waits(c)'))
  BY <1>1, <1>5, TailIsPlan, TailFits DEF StartIsRefused, Busy, Waits, Rest, Planned
<1>6. ASSUME Build(c) PROVE UNCHANGED marks /\ (c \in Recoveries => (Busy(c)' <=> Busy(c)) /\ (Waits(c) => Waits(c)'))
  BY <1>1, <1>6 DEF Build, Busy, Waits
<1>7. ASSUME BuildFails(c) PROVE UNCHANGED marks /\ (c \in Recoveries => (Busy(c)' <=> Busy(c)) /\ (Waits(c) => Waits(c)'))
  BY <1>1, <1>7 DEF BuildFails, Busy, Waits
<1>8. ASSUME Register(c) PROVE UNCHANGED marks /\ (c \in Recoveries => (Busy(c)' <=> Busy(c)) /\ (Waits(c) => Waits(c)'))
  <2>1. PICK place \in {"starting", "ending"} : calls' = [calls EXCEPT ![c].at = place]
    BY <1>8 DEF Register
  <2>2. UNCHANGED marks /\ calls[c].at = "checked"
    BY <1>8 DEF Register
  <2>3. calls'[c].plan = calls[c].plan
    BY <1>1, <2>1
  <2> QED BY <2>2, <2>3 DEF Busy, Waits
<1>9. ASSUME CoreStarts(c) PROVE UNCHANGED marks /\ (c \in Recoveries => (Busy(c)' <=> Busy(c)) /\ (Waits(c) => Waits(c)'))
  BY <1>1, <1>9 DEF CoreStarts, Busy, Waits
<1>30. ASSUME CoreRetries(c) PROVE UNCHANGED marks /\ (c \in Recoveries => (Busy(c)' <=> Busy(c)) /\ (Waits(c) => Waits(c)'))
  BY <1>1, <1>30 DEF CoreRetries, Busy, Waits
<1>10. ASSUME CoreFails(c) PROVE UNCHANGED marks /\ (c \in Recoveries => (Busy(c)' <=> Busy(c)) /\ (Waits(c) => Waits(c)'))
  BY <1>1, <1>10 DEF CoreFails, Busy, Waits
<1>11. ASSUME EndRebuildAttempt(c) PROVE UNCHANGED marks /\ (c \in Recoveries => (Busy(c)' <=> Busy(c)) /\ (Waits(c) => Waits(c)'))
  BY <1>1, <1>11, TailIsPlan, TailFits DEF EndRebuildAttempt, Busy, Waits, Rest, Planned, Starting
<1>12. ASSUME Watchdog(c) PROVE UNCHANGED marks /\ (c \in Recoveries => (Busy(c)' <=> Busy(c)) /\ (Waits(c) => Waits(c)'))
  BY <1>1, <1>12 DEF Watchdog, Busy, Waits
<1>13. ASSUME RemoveWorker(c) PROVE UNCHANGED marks /\ (c \in Recoveries => (Busy(c)' <=> Busy(c)) /\ (Waits(c) => Waits(c)'))
  <2>1. calls[c].at = "plan" /\ UNCHANGED marks
    BY <1>13 DEF RemoveWorker
  <2>2. CASE worker # None \/ rebuilding
    <3>1. calls'[c].plan = calls[c].plan
      BY <1>1, <1>13, <2>2 DEF RemoveWorker
    <3> QED BY <2>1, <3>1 DEF Busy, Waits
  <2>3. CASE worker = None /\ ~ rebuilding
    <3>1. calls'[c].plan = RestOfFailed(c)
      BY <1>1, <1>13, <2>3 DEF RemoveWorker
    <3>2. c \in Recoveries => RestOfFailed(c) # <<>>
      BY <1>1, <1>13, FailedFits DEF RemoveWorker, Planned
    <3> QED BY <1>13, <2>1, <3>1, <3>2 DEF RemoveWorker, Busy, Waits
  <2> QED BY <2>2, <2>3
<1>14. ASSUME Settled(c) PROVE UNCHANGED marks /\ (c \in Recoveries => (Busy(c)' <=> Busy(c)) /\ (Waits(c) => Waits(c)'))
  BY <1>1, <1>14 DEF Settled, Busy, Waits
<1>15. ASSUME SettlingTimesOut(c) PROVE UNCHANGED marks /\ (c \in Recoveries => (Busy(c)' <=> Busy(c)) /\ (Waits(c) => Waits(c)'))
  BY <1>1, <1>15, FailedFits DEF SettlingTimesOut, Busy, Waits, Planned
<1>16. ASSUME StopWorker(c) PROVE UNCHANGED marks /\ (c \in Recoveries => (Busy(c)' <=> Busy(c)) /\ (Waits(c) => Waits(c)'))
  BY <1>1, <1>16, TailIsPlan, TailFits DEF StopWorker, Busy, Waits, Rest, Planned
<1>17. ASSUME Tick(c) PROVE UNCHANGED marks /\ (c \in Recoveries => (Busy(c)' <=> Busy(c)) /\ (Waits(c) => Waits(c)'))
  BY <1>1, <1>17 DEF Tick, Busy, Waits, Parameters
<1>18. ASSUME Rescan(c) PROVE UNCHANGED marks /\ (c \in Recoveries => (Busy(c)' <=> Busy(c)) /\ (Waits(c) => Waits(c)'))
  <2>1. c \notin Recoveries
    BY <1>18 DEF Rescan, Parameters
  <2> QED BY <1>18, <2>1 DEF Rescan
<1>19. ASSUME RebuildWorker(c) PROVE UNCHANGED marks /\ (c \in Recoveries => (Busy(c)' <=> Busy(c)) /\ (Waits(c) => Waits(c)'))
  BY <1>1, <1>19 DEF RebuildWorker, Busy, Waits, Parameters
<1>20. ASSUME ReleaseRebuilding(c) PROVE UNCHANGED marks /\ (c \in Recoveries => (Busy(c)' <=> Busy(c)) /\ (Waits(c) => Waits(c)'))
  BY <1>1, <1>20, TailIsPlan, TailFits DEF ReleaseRebuilding, Busy, Waits, Rest, Planned
<1>21. ASSUME DeleteDevice(c) PROVE UNCHANGED marks /\ (c \in Recoveries => (Busy(c)' <=> Busy(c)) /\ (Waits(c) => Waits(c)'))
  BY <1>1, <1>21 DEF DeleteDevice, Busy, Waits, Parameters
<1>22. ASSUME Schedule(c) PROVE UNCHANGED marks /\ (c \in Recoveries => (Busy(c)' <=> Busy(c)) /\ (Waits(c) => Waits(c)'))
  BY <1>1, <1>22 DEF Schedule, Busy, Waits, Planned
<1>23. ASSUME Round(c) PROVE UNCHANGED marks /\ (c \in Recoveries => (Busy(c)' <=> Busy(c)) /\ (Waits(c) => Waits(c)'))
  <2>1. PICK plan \in {<<>>} \cup {scan \o <<"refresh">> : scan \in ScanPlans} :
            calls' = [calls EXCEPT ![c].at = "plan", ![c].plan = plan \o Rest(c)]
    BY <1>23 DEF Round
  <2>2. calls[c].plan # <<>> /\ calls[c].at = "plan" /\ UNCHANGED marks
    BY <1>23 DEF Round
  <2>3. c \in Recoveries => Rest(c) \in Seq(Steps) /\ Rest(c) # <<>>
    BY <1>1, <1>23, TailIsPlan, TailFits DEF Round, Rest, Planned
  <2>4. plan \in Seq(Steps)
    BY ScanPlansArePlans, <2>1
  <2>5. c \in Recoveries => plan \o Rest(c) # <<>>
    BY <2>3, <2>4, JoinIsMore
  <2>6. calls'[c].plan = plan \o Rest(c)
    BY <1>1, <2>1
  <2> QED BY <2>2, <2>5, <2>6 DEF Busy, Waits
<1>24. ASSUME Refresh(c) PROVE UNCHANGED marks /\ (c \in Recoveries => (Busy(c)' <=> Busy(c)) /\ (Waits(c) => Waits(c)'))
  <2>1. PICK plan \in {Rest(c), <<"remove">> \o Rest(c), <<"finish">>} :
            calls' = [calls EXCEPT ![c].at = "plan", ![c].plan = plan]
    BY <1>24 DEF Refresh
  <2>2. calls[c].plan # <<>> /\ calls[c].at = "plan" /\ UNCHANGED marks
    BY <1>24 DEF Refresh
  <2>3. c \in Recoveries => Rest(c) \in Seq(Steps) /\ Rest(c) # <<>>
    BY <1>1, <1>24, TailIsPlan, TailFits DEF Refresh, Rest, Planned
  <2>4. <<"remove">> \in Seq(Steps) /\ <<"finish">> # <<>>
    BY DEF Steps
  <2>5. c \in Recoveries => <<"remove">> \o Rest(c) # <<>>
    BY <2>3, <2>4, JoinIsMore
  <2>6. calls'[c].plan = plan
    BY <1>1, <2>1
  <2>7. c \in Recoveries => plan # <<>>
    BY <2>1, <2>3, <2>4, <2>5
  <2> QED BY <2>2, <2>6, <2>7 DEF Busy, Waits
<1>25. ASSUME ScheduleByEvent(c) PROVE RecInv'
  <2>1. c \in Recoveries /\ calls'[c].at = "observed" /\ calls'[c].plan = calls[c].plan
    BY <1>1, <1>25 DEF ScheduleByEvent
  <2>2. (Busy(c)' <=> Busy(c)) /\ Waits(c)' /\ recovering' = recovering
    BY <1>25, <2>1 DEF ScheduleByEvent, Busy, Waits
  <2>3. \A d \in Recoveries : Busy(d)' <=> Busy(d)
    BY <1>3, <2>2
  <2>4. \E d \in Recoveries : Busy(d)' \/ Waits(d)'
    BY <2>1, <2>2
  <2> QED BY <2>2, <2>3, <2>4 DEF RecInv
<1>26. ASSUME BeginRecovery(c) PROVE RecInv'
  <2>1. c \in Recoveries /\ ~ recovering /\ recovering' /\ active' = active
    BY <1>1, <1>26 DEF BeginRecovery, Scheduled, Planned
  <2>2. PICK plan \in {<<"remove">> \o Rounds, Rounds} :
            calls' = [calls EXCEPT ![c].at = "plan", ![c].plan = plan \o <<"finish">>]
    BY <1>26 DEF BeginRecovery
  <2>3. plan \in Seq(Steps) /\ <<"finish">> \in Seq(Steps) /\ <<"finish">> # <<>>
    <3>1. plan \in Seq(Steps)
      BY InsertedPlans
    <3>2. <<"finish">> \in Seq(Steps) /\ <<"finish">> # <<>>
      BY DEF Steps
    <3> QED BY <3>1, <3>2
  <2>4. Busy(c)'
    BY <1>1, <2>1, <2>2, <2>3, JoinIsMore DEF Busy
  <2>5. \A d \in Recoveries : ~ Busy(d)
    BY <2>1 DEF RecInv
  <2> QED BY <1>3, <2>1, <2>4, <2>5 DEF RecInv
<1>27. ASSUME SkipRecovery(c) PROVE RecInv'
  <2>1. PICK e \in Recoveries : Busy(e)
    BY <1>27 DEF SkipRecovery, RecInv
  <2>2. ~ Busy(c) /\ ~ Busy(c)' /\ recovering' = recovering /\ e # c
    BY <1>1, <1>27, <2>1 DEF SkipRecovery, Scheduled, Planned, Busy
  <2>3. Busy(e)'
    BY <1>3, <2>1, <2>2
  <2>4. \A d \in Recoveries : Busy(d)' <=> Busy(d)
    BY <1>3, <2>2
  <2> QED BY <2>1, <2>2, <2>3, <2>4 DEF RecInv
<1>28. ASSUME FinishRecovery(c) PROVE RecInv'
  <2>1. c \in Recoveries /\ Busy(c) /\ ~ recovering' /\ active' = active
    BY <1>1, <1>28, FinishIsRecovery DEF FinishRecovery, Busy
  <2>2. calls'[c].at = "finishing" /\ calls'[c].plan = <<>>
    BY <1>1, <1>28 DEF FinishRecovery
  <2>3. ~ Busy(c)' /\ Waits(c)'
    BY <2>1, <2>2 DEF Busy, Waits
  <2>4. \A d \in Recoveries : ~ Busy(d)'
    BY <1>3, <2>1, <2>3 DEF RecInv
  <2> QED BY <2>1, <2>3, <2>4 DEF RecInv
<1>29. ASSUME FinishTransport(c) PROVE RecInv'
  <2>1. ~ active' /\ recovering' = recovering /\ calls'[c].plan = calls[c].plan
    BY <1>1, <1>29 DEF FinishTransport
  <2>2. \A d \in Recoveries : Busy(d)' <=> Busy(d)
    BY <1>3, <2>1 DEF Busy
  <2> QED BY <2>1, <2>2 DEF RecInv
<1> QED
  BY <1>2, <1>4, <1>5, <1>6, <1>7, <1>8, <1>9, <1>10, <1>11, <1>12, <1>13, <1>14, <1>15, <1>16, <1>17, <1>18, <1>19, <1>20, <1>21, <1>22, <1>23, <1>24, <1>25, <1>26, <1>27, <1>28, <1>29, <1>30, RecoveryStays
  DEF Step, Start, Remove, Recovery
-----------------------------------------------------------------------------
(* The workers of a QMI device.  A number is new when a start takes it; as  *)
(* long as nothing of a start is registered, no core of its worker is open  *)
(* or sought; and a worker of which one is has been seen by those who could *)
(* close it.                                                                *)
Holding == Starting \cup {"stopping"}
Cored(w) == w \in running \/ Opening(w)
Seen(w) ==
    \/ w = worker
    \/ w \in early
    \/ \E d \in Calls : At(d, "stopping") /\ Held(d) = w
Taken == \A c \in Calls : Held(c) # None <=> calls[c].at \in Holding
OwnNumbers ==
    \A c, d \in Calls :
        c # d /\ calls[c].at \in Starting /\ calls[d].at \in Starting => Held(c) # Held(d)
NotYetOpen ==
    \A c \in Calls : calls[c].at \in {"building", "checked", "starting"} =>
        Held(c) \notin running /\ Held(c) \notin retrying
Shown == \A w \in Tokens \cup {None} : Cored(w) => backend = "qmi" /\ w # None /\ Seen(w)
HandInv == Taken /\ OwnNumbers /\ NotYetOpen /\ Shown

LEMMA HandsStay ==
    ASSUME HandInv, NEW c \in Calls, Frame(c), UNCHANGED <<backend, worker, ports>>,
           calls'[c].token = calls[c].token,
           calls'[c].at = calls[c].at \/ (calls[c].at \notin Holding /\ calls'[c].at \notin Holding)
    PROVE  HandInv'
<1>1. \A d \in Calls : Held(d)' = Held(d)
  BY DEF Frame, Held
<1>2. \A d \in Calls : \/ calls'[d].at = calls[d].at
                       \/ calls[d].at \notin Holding /\ calls'[d].at \notin Holding
  BY DEF Frame
<1>3. Taken'
  BY <1>1, <1>2 DEF HandInv, Taken
<1>4. OwnNumbers'
  BY <1>1, <1>2 DEF HandInv, OwnNumbers, Holding
<1>5. NotYetOpen'
  BY <1>1, <1>2 DEF HandInv, NotYetOpen, Holding, Starting, ports
<1>6. \A w : (Cored(w)' <=> Cored(w)) /\ (Seen(w)' <=> Seen(w))
  BY <1>1, <1>2 DEF Cored, Opening, Seen, Holding, Starting, At, ports
<1>7. Shown'
  BY <1>6 DEF HandInv, Shown
<1> QED BY <1>3, <1>4, <1>5, <1>7 DEF HandInv

(* An attempt in the background opens the core or is given up.              *)
LEMMA RetryHands ==
    ASSUME HandInv, NEW w \in Tokens, Retry(w)
    PROVE  HandInv'
<1>1. /\ UNCHANGED <<backend, worker, early, calls>>
      /\ w \in retrying
      /\ running' \subseteq running \cup {w} /\ retrying' \subseteq retrying
  BY DEF Retry, RetrySucceeds, RetryEnds
<1>2. Taken' /\ OwnNumbers'
  BY <1>1 DEF HandInv, Taken, OwnNumbers, Held
<1>3. NotYetOpen'
  BY <1>1 DEF HandInv, NotYetOpen, Held
<1>4. \A x : (Cored(x)' => Cored(x)) /\ (Seen(x)' <=> Seen(x))
  BY <1>1 DEF Cored, Opening, Seen, At, Held
<1>5. Shown'
  BY <1>1, <1>4 DEF HandInv, Shown
<1> QED BY <1>2, <1>3, <1>5 DEF HandInv

LEMMA StepHands ==
    ASSUME Parameters, TypeOK, PlanInv, HandInv, NEW c \in Calls, Step(c)
    PROVE  HandInv'
<1>1. /\ calls[c] \in Works /\ calls[c].plan \in Seq(Steps)
      /\ calls[c].token \in Tokens \cup {None} /\ Planned(c)
  BY DEF TypeOK, PlanInv, Works
<1>2. Frame(c) /\ calls' \in [Calls -> Works]
  BY StepKeeps DEF Keeps, Frame
<1>3. \A d \in Calls \ {c} : calls'[d].at = calls[d].at /\ Held(d)' = Held(d)
  BY <1>2 DEF Frame, Held
<1>4. calls[c].at \in Places
  BY <1>1 DEF Works
<1>5. ASSUME StartIsRefused(c) PROVE /\ UNCHANGED <<backend, worker, ports>> /\ calls'[c].token = calls[c].token
             /\ \/ calls'[c].at = calls[c].at
                \/ calls[c].at \notin Holding /\ calls'[c].at \notin Holding
  BY <1>1, <1>5 DEF StartIsRefused, TypeOK, Works, registry, ports, marks, At, Goto, Plan, Held, Doing, Free, Holding, Starting
<1>6. ASSUME Watchdog(c) PROVE /\ UNCHANGED <<backend, worker, ports>> /\ calls'[c].token = calls[c].token
             /\ \/ calls'[c].at = calls[c].at
                \/ calls[c].at \notin Holding /\ calls'[c].at \notin Holding
  BY <1>1, <1>6 DEF Watchdog, TypeOK, Works, registry, ports, marks, At, Goto, Plan, Held, Doing, Free, Holding, Starting
<1>7. ASSUME Settled(c) PROVE /\ UNCHANGED <<backend, worker, ports>> /\ calls'[c].token = calls[c].token
             /\ \/ calls'[c].at = calls[c].at
                \/ calls[c].at \notin Holding /\ calls'[c].at \notin Holding
  BY <1>1, <1>7 DEF Settled, TypeOK, Works, registry, ports, marks, At, Goto, Plan, Held, Doing, Free, Holding, Starting
<1>8. ASSUME SettlingTimesOut(c) PROVE /\ UNCHANGED <<backend, worker, ports>> /\ calls'[c].token = calls[c].token
             /\ \/ calls'[c].at = calls[c].at
                \/ calls[c].at \notin Holding /\ calls'[c].at \notin Holding
  BY <1>1, <1>8 DEF SettlingTimesOut, TypeOK, Works, registry, ports, marks, At, Goto, Plan, Held, Doing, Free, Holding, Starting
<1>9. ASSUME ScheduleByEvent(c) PROVE /\ UNCHANGED <<backend, worker, ports>> /\ calls'[c].token = calls[c].token
             /\ \/ calls'[c].at = calls[c].at
                \/ calls[c].at \notin Holding /\ calls'[c].at \notin Holding
  BY <1>1, <1>9 DEF ScheduleByEvent, TypeOK, Works, registry, ports, marks, At, Goto, Plan, Held, Doing, Free, Holding, Starting
<1>10. ASSUME Schedule(c) PROVE /\ UNCHANGED <<backend, worker, ports>> /\ calls'[c].token = calls[c].token
             /\ \/ calls'[c].at = calls[c].at
                \/ calls[c].at \notin Holding /\ calls'[c].at \notin Holding
  BY <1>1, <1>10 DEF Schedule, TypeOK, Works, registry, ports, marks, At, Goto, Plan, Held, Doing, Free, Holding, Starting
<1>11. ASSUME BeginRecovery(c) PROVE /\ UNCHANGED <<backend, worker, ports>> /\ calls'[c].token = calls[c].token
             /\ \/ calls'[c].at = calls[c].at
                \/ calls[c].at \notin Holding /\ calls'[c].at \notin Holding
  BY <1>1, <1>11 DEF BeginRecovery, TypeOK, Works, registry, ports, marks, At, Goto, Plan, Held, Doing, Free, Holding, Starting, Scheduled
<1>12. ASSUME SkipRecovery(c) PROVE /\ UNCHANGED <<backend, worker, ports>> /\ calls'[c].token = calls[c].token
             /\ \/ calls'[c].at = calls[c].at
                \/ calls[c].at \notin Holding /\ calls'[c].at \notin Holding
  BY <1>1, <1>12 DEF SkipRecovery, TypeOK, Works, registry, ports, marks, At, Goto, Plan, Held, Doing, Free, Holding, Starting, Scheduled
<1>13. ASSUME Round(c) PROVE /\ UNCHANGED <<backend, worker, ports>> /\ calls'[c].token = calls[c].token
             /\ \/ calls'[c].at = calls[c].at
                \/ calls[c].at \notin Holding /\ calls'[c].at \notin Holding
  BY <1>1, <1>13 DEF Round, TypeOK, Works, registry, ports, marks, At, Goto, Plan, Held, Doing, Free, Holding, Starting
<1>14. ASSUME Refresh(c) PROVE /\ UNCHANGED <<backend, worker, ports>> /\ calls'[c].token = calls[c].token
             /\ \/ calls'[c].at = calls[c].at
                \/ calls[c].at \notin Holding /\ calls'[c].at \notin Holding
  BY <1>1, <1>14 DEF Refresh, TypeOK, Works, registry, ports, marks, At, Goto, Plan, Held, Doing, Free, Holding, Starting
<1>15. ASSUME FinishRecovery(c) PROVE /\ UNCHANGED <<backend, worker, ports>> /\ calls'[c].token = calls[c].token
             /\ \/ calls'[c].at = calls[c].at
                \/ calls[c].at \notin Holding /\ calls'[c].at \notin Holding
  BY <1>1, <1>15 DEF FinishRecovery, TypeOK, Works, registry, ports, marks, At, Goto, Plan, Held, Doing, Free, Holding, Starting
<1>16. ASSUME FinishTransport(c) PROVE /\ UNCHANGED <<backend, worker, ports>> /\ calls'[c].token = calls[c].token
             /\ \/ calls'[c].at = calls[c].at
                \/ calls[c].at \notin Holding /\ calls'[c].at \notin Holding
  BY <1>1, <1>16 DEF FinishTransport, TypeOK, Works, registry, ports, marks, At, Goto, Plan, Held, Doing, Free, Holding, Starting
<1>17. ASSUME Tick(c) PROVE /\ UNCHANGED <<backend, worker, ports>> /\ calls'[c].token = calls[c].token
             /\ \/ calls'[c].at = calls[c].at
                \/ calls[c].at \notin Holding /\ calls'[c].at \notin Holding
  BY <1>1, <1>17 DEF Tick, TypeOK, Works, registry, ports, marks, At, Goto, Plan, Held, Doing, Free, Holding, Starting
<1>18. ASSUME Rescan(c) PROVE /\ UNCHANGED <<backend, worker, ports>> /\ calls'[c].token = calls[c].token
             /\ \/ calls'[c].at = calls[c].at
                \/ calls[c].at \notin Holding /\ calls'[c].at \notin Holding
  BY <1>1, <1>18 DEF Rescan, TypeOK, Works, registry, ports, marks, At, Goto, Plan, Held, Doing, Free, Holding, Starting
<1>19. ASSUME RebuildWorker(c) PROVE /\ UNCHANGED <<backend, worker, ports>> /\ calls'[c].token = calls[c].token
             /\ \/ calls'[c].at = calls[c].at
                \/ calls[c].at \notin Holding /\ calls'[c].at \notin Holding
  BY <1>1, <1>19 DEF RebuildWorker, TypeOK, Works, registry, ports, marks, At, Goto, Plan, Held, Doing, Free, Holding, Starting
<1>20. ASSUME ReleaseRebuilding(c) PROVE /\ UNCHANGED <<backend, worker, ports>> /\ calls'[c].token = calls[c].token
             /\ \/ calls'[c].at = calls[c].at
                \/ calls[c].at \notin Holding /\ calls'[c].at \notin Holding
  BY <1>1, <1>20 DEF ReleaseRebuilding, TypeOK, Works, registry, ports, marks, At, Goto, Plan, Held, Doing, Free, Holding, Starting
<1>21. ASSUME DeleteDevice(c) PROVE /\ UNCHANGED <<backend, worker, ports>> /\ calls'[c].token = calls[c].token
             /\ \/ calls'[c].at = calls[c].at
                \/ calls[c].at \notin Holding /\ calls'[c].at \notin Holding
  BY <1>1, <1>21 DEF DeleteDevice, TypeOK, Works, registry, ports, marks, At, Goto, Plan, Held, Doing, Free, Holding, Starting
<1>22. ASSUME StartIsRefused(c) \/ Watchdog(c) \/ Settled(c) \/ SettlingTimesOut(c) \/ ScheduleByEvent(c) \/ Schedule(c) \/ BeginRecovery(c) \/ SkipRecovery(c) \/ Round(c) \/ Refresh(c) \/ FinishRecovery(c) \/ FinishTransport(c) \/ Tick(c) \/ Rescan(c) \/ RebuildWorker(c) \/ ReleaseRebuilding(c) \/ DeleteDevice(c)
      PROVE  HandInv'
  BY <1>2, <1>22, <1>5, <1>6, <1>7, <1>8, <1>9, <1>10, <1>11, <1>12, <1>13, <1>14, <1>15, <1>16, <1>17, <1>18, <1>19, <1>20, <1>21, HandsStay
<1>23. ASSUME BeginRebuildAttempt(c) PROVE HandInv'
  <2>0. Taken /\ OwnNumbers /\ NotYetOpen /\ Shown
    BY DEF HandInv
  <2>2. PICK new \in Fresh :
            /\ calls' = [d \in Calls |->
                 IF d = c THEN [calls[c] EXCEPT !.at = "building", !.token = new,
                                                !.watched = TRUE, !.current = TRUE]
                 ELSE [calls[d] EXCEPT !.current = FALSE]]
            /\ running' = running \ {new} /\ early' = early \ {new}
    BY <1>23, NewWorker DEF BeginRebuildAttempt
  <2>3. /\ new \in Tokens /\ new # None /\ new # worker /\ new \notin retrying
        /\ \A d \in Calls : Held(d) # new
        /\ backend' = backend /\ worker' = worker /\ retrying' = retrying
    BY <1>23 DEF BeginRebuildAttempt, Fresh, Parameters
  <2>4. Held(c)' = new /\ calls'[c].at = "building" /\ calls[c].at = "plan"
    <3>1. calls'[c] = [calls[c] EXCEPT !.at = "building", !.token = new,
                                       !.watched = TRUE, !.current = TRUE]
      BY <2>2
    <3>2. calls[c].at = "plan"
      BY <1>23 DEF BeginRebuildAttempt, Doing, At
    <3> QED BY <1>1, <3>1, <3>2 DEF Works, Held
  <2>1. /\ Held(c)' = new /\ calls'[c].at = "building" /\ calls[c].at = "plan"
        /\ new \in Tokens /\ new # None /\ new # worker /\ new \notin retrying
        /\ \A d \in Calls : Held(d) # new
        /\ backend' = backend /\ worker' = worker /\ retrying' = retrying
        /\ running' = running \ {new} /\ early' = early \ {new}
    BY <2>2, <2>3, <2>4
  <2>5. Taken'
    BY <1>1, <1>3, <1>4, <2>0, <2>1 DEF Taken, At, Holding, Starting, Parameters
  <2>6. OwnNumbers'
    BY <1>1, <1>3, <1>4, <2>0, <2>1 DEF OwnNumbers, At, Holding, Starting, Parameters
  <2>7. NotYetOpen'
    BY <1>1, <1>3, <1>4, <2>0, <2>1 DEF NotYetOpen, OwnNumbers, At, Holding, Starting, Parameters
  <2>8. Shown'
    <3> SUFFICES ASSUME NEW w \in Tokens \cup {None}, Cored(w)'
                 PROVE  backend' = "qmi" /\ w # None /\ Seen(w)'
      BY DEF Shown
    <3>1. Cored(w) /\ w # new
      BY <1>3, <2>0, <2>1 DEF Cored, Opening, At, Starting
    <3>2. Seen(w) /\ backend = "qmi" /\ w # None
      BY <2>0, <3>1 DEF Shown
    <3>3. Seen(w)'
      BY <1>3, <2>0, <2>1, <3>1, <3>2 DEF Seen, At
    <3> QED BY <2>1, <3>2, <3>3
  <2> QED BY <2>5, <2>6, <2>7, <2>8 DEF HandInv
<1>24. ASSUME Build(c) PROVE HandInv'
  <2>0. Taken /\ OwnNumbers /\ NotYetOpen /\ Shown
    BY DEF HandInv
  <2>1. /\ calls[c].at = "building" /\ calls'[c].at \in {"checked", "ending"} /\ Held(c)' = Held(c)
        /\ backend' = backend /\ worker' = worker
        /\ running' = running /\ retrying' = retrying /\ early' = early
    BY <1>1, <1>24 DEF Build, TypeOK, Works, registry, ports, marks, At, Goto, Plan, Held, Doing, Free
  <2>5. Taken'
    BY <1>1, <1>3, <1>4, <2>0, <2>1 DEF Taken, At, Holding, Starting, Parameters
  <2>6. OwnNumbers'
    BY <1>1, <1>3, <1>4, <2>0, <2>1 DEF OwnNumbers, At, Holding, Starting, Parameters
  <2>7. NotYetOpen'
    BY <1>1, <1>3, <1>4, <2>0, <2>1 DEF NotYetOpen, OwnNumbers, At, Holding, Starting, Parameters
  <2>8. Shown'
    <3> SUFFICES ASSUME NEW w \in Tokens \cup {None}, Cored(w)'
                 PROVE  backend' = "qmi" /\ w # None /\ Seen(w)'
      BY DEF Shown
    <3>1. Cored(w)
      BY <1>3, <2>0, <2>1 DEF Cored, Opening, At, Starting
    <3>2. Seen(w) /\ backend = "qmi" /\ w # None
      BY <2>0, <3>1 DEF Shown
    <3>3. Seen(w)'
      BY <1>3, <2>0, <2>1, <3>1, <3>2 DEF Seen, At
    <3> QED BY <2>1, <3>2, <3>3
  <2> QED BY <2>5, <2>6, <2>7, <2>8 DEF HandInv
<1>25. ASSUME BuildFails(c) PROVE HandInv'
  <2>0. Taken /\ OwnNumbers /\ NotYetOpen /\ Shown
    BY DEF HandInv
  <2>1. /\ calls[c].at = "building" /\ calls'[c].at = "ending" /\ Held(c)' = Held(c)
        /\ backend' = backend /\ worker' = worker
        /\ running' = running /\ retrying' = retrying /\ early' = early
    BY <1>1, <1>25 DEF BuildFails, TypeOK, Works, registry, ports, marks, At, Goto, Plan, Held, Doing, Free
  <2>5. Taken'
    BY <1>1, <1>3, <1>4, <2>0, <2>1 DEF Taken, At, Holding, Starting, Parameters
  <2>6. OwnNumbers'
    BY <1>1, <1>3, <1>4, <2>0, <2>1 DEF OwnNumbers, At, Holding, Starting, Parameters
  <2>7. NotYetOpen'
    BY <1>1, <1>3, <1>4, <2>0, <2>1 DEF NotYetOpen, OwnNumbers, At, Holding, Starting, Parameters
  <2>8. Shown'
    <3> SUFFICES ASSUME NEW w \in Tokens \cup {None}, Cored(w)'
                 PROVE  backend' = "qmi" /\ w # None /\ Seen(w)'
      BY DEF Shown
    <3>1. Cored(w)
      BY <1>3, <2>0, <2>1 DEF Cored, Opening, At, Starting
    <3>2. Seen(w) /\ backend = "qmi" /\ w # None
      BY <2>0, <3>1 DEF Shown
    <3>3. Seen(w)'
      BY <1>3, <2>0, <2>1, <3>1, <3>2 DEF Seen, At
    <3> QED BY <2>1, <3>2, <3>3
  <2> QED BY <2>5, <2>6, <2>7, <2>8 DEF HandInv
<1>26. ASSUME Register(c) PROVE HandInv'
  <2>0. Taken /\ OwnNumbers /\ NotYetOpen /\ Shown
    BY DEF HandInv
  <2>2. PICK place \in {"starting", "ending"} : calls' = [calls EXCEPT ![c].at = place]
    BY <1>26 DEF Register, Goto
  <2>3. /\ calls[c].at = "checked" /\ calls'[c].at \in {"starting", "ending"} /\ Held(c)' = Held(c)
        /\ backend' = backend /\ running' = running /\ retrying' = retrying /\ early' = early
    BY <1>1, <1>26, <2>2 DEF Register, At, Held, Works, TypeOK, ports
  <2>4. backend # "qmi" => calls'[c].at = "ending"
    BY <1>1, <1>26 DEF Register, At, Goto, Works, TypeOK
  <2>9. backend = "qmi" => \/ worker' = worker /\ calls'[c].at = "ending"
                           \/ worker = None /\ worker' = Held(c)
    BY <1>1, <1>26 DEF Register, At, Goto, Works, TypeOK
  <2>1. /\ calls[c].at = "checked" /\ calls'[c].at \in {"starting", "ending"} /\ Held(c)' = Held(c)
        /\ backend' = backend /\ running' = running /\ retrying' = retrying /\ early' = early
        /\ backend # "qmi" => calls'[c].at = "ending"
        /\ backend = "qmi" => \/ worker' = worker /\ calls'[c].at = "ending"
                              \/ worker = None /\ worker' = Held(c)
    BY <2>3, <2>4, <2>9
  <2>5. Taken'
    BY <1>1, <1>3, <1>4, <2>0, <2>1 DEF Taken, At, Holding, Starting, Parameters
  <2>6. OwnNumbers'
    BY <1>1, <1>3, <1>4, <2>0, <2>1 DEF OwnNumbers, At, Holding, Starting, Parameters
  <2>7. NotYetOpen'
    BY <1>1, <1>3, <1>4, <2>0, <2>1 DEF NotYetOpen, OwnNumbers, At, Holding, Starting, Parameters
  <2>8. Shown'
    <3> SUFFICES ASSUME NEW w \in Tokens \cup {None}, Cored(w)'
                 PROVE  backend' = "qmi" /\ w # None /\ Seen(w)'
      BY DEF Shown
    <3>1. Cored(w) \/ (w = Held(c) /\ calls'[c].at = "starting")
      BY <1>3, <2>0, <2>1 DEF Cored, Opening, At, Starting
    <3>2. ASSUME Cored(w) PROVE backend' = "qmi" /\ w # None /\ Seen(w)'
      <4>1. Seen(w) /\ backend = "qmi" /\ w # None
        BY <2>0, <3>2 DEF Shown
      <4>2. Seen(w)'
        BY <1>3, <2>1, <4>1 DEF Seen, At
      <4> QED BY <2>1, <4>1, <4>2
    <3>3. ASSUME w = Held(c), calls'[c].at = "starting"
          PROVE  backend' = "qmi" /\ w # None /\ Seen(w)'
      <4>1. backend = "qmi" /\ worker' = w /\ w # None
        BY <2>0, <2>1, <3>3 DEF Taken, Holding, Starting
      <4> QED BY <2>1, <4>1 DEF Seen
    <3> QED BY <3>1, <3>2, <3>3
  <2> QED BY <2>5, <2>6, <2>7, <2>8 DEF HandInv
<1>27. ASSUME CoreStarts(c) PROVE HandInv'
  <2>0. Taken /\ OwnNumbers /\ NotYetOpen /\ Shown
    BY DEF HandInv
  <2>1. /\ calls[c].at = "starting" /\ calls'[c].at = "ending" /\ Held(c)' = Held(c)
        /\ backend' = backend /\ worker' = worker
        /\ running' = running \cup {Held(c)} /\ retrying' = retrying /\ early' = early
    BY <1>1, <1>27 DEF CoreStarts, TypeOK, Works, registry, ports, marks, At, Goto, Plan, Held, Doing, Free
  <2>5. Taken'
    BY <1>1, <1>3, <1>4, <2>0, <2>1 DEF Taken, At, Holding, Starting, Parameters
  <2>6. OwnNumbers'
    BY <1>1, <1>3, <1>4, <2>0, <2>1 DEF OwnNumbers, At, Holding, Starting, Parameters
  <2>7. NotYetOpen'
    BY <1>1, <1>3, <1>4, <2>0, <2>1 DEF NotYetOpen, OwnNumbers, At, Holding, Starting, Parameters
  <2>8. Shown'
    <3> SUFFICES ASSUME NEW w \in Tokens \cup {None}, Cored(w)'
                 PROVE  backend' = "qmi" /\ w # None /\ Seen(w)'
      BY DEF Shown
    <3>1. Cored(w)
      <4>1. Held(c) = w => Opening(w)
        BY <2>1 DEF Opening, At
      <4> QED BY <1>3, <2>1, <4>1 DEF Cored, Opening, At, Starting
    <3>2. Seen(w) /\ backend = "qmi" /\ w # None
      BY <2>0, <3>1 DEF Shown
    <3>3. Seen(w)'
      BY <1>3, <2>0, <2>1, <3>1, <3>2 DEF Seen, At
    <3> QED BY <2>1, <3>2, <3>3
  <2> QED BY <2>5, <2>6, <2>7, <2>8 DEF HandInv
<1>32. ASSUME CoreRetries(c) PROVE HandInv'
  <2>0. Taken /\ OwnNumbers /\ NotYetOpen /\ Shown
    BY DEF HandInv
  <2>1. /\ calls[c].at = "starting" /\ calls'[c].at = "ending" /\ Held(c)' = Held(c)
        /\ backend' = backend /\ worker' = worker
        /\ running' = running /\ retrying' = retrying \cup {Held(c)} /\ early' = early
    BY <1>1, <1>32 DEF CoreRetries, TypeOK, Works, registry, ports, marks, At, Goto, Plan, Held, Doing, Free
  <2>5. Taken'
    BY <1>1, <1>3, <1>4, <2>0, <2>1 DEF Taken, At, Holding, Starting, Parameters
  <2>6. OwnNumbers'
    BY <1>1, <1>3, <1>4, <2>0, <2>1 DEF OwnNumbers, At, Holding, Starting, Parameters
  <2>7. NotYetOpen'
    BY <1>1, <1>3, <1>4, <2>0, <2>1 DEF NotYetOpen, OwnNumbers, At, Holding, Starting, Parameters
  <2>8. Shown'
    <3> SUFFICES ASSUME NEW w \in Tokens \cup {None}, Cored(w)'
                 PROVE  backend' = "qmi" /\ w # None /\ Seen(w)'
      BY DEF Shown
    <3>1. Cored(w)
      <4>1. Held(c) = w => Opening(w)
        BY <2>1 DEF Opening, At
      <4> QED BY <1>3, <2>1, <4>1 DEF Cored, Opening, At, Starting
    <3>2. Seen(w) /\ backend = "qmi" /\ w # None
      BY <2>0, <3>1 DEF Shown
    <3>3. Seen(w)'
      BY <1>3, <2>0, <2>1, <3>1, <3>2 DEF Seen, At
    <3> QED BY <2>1, <3>2, <3>3
  <2> QED BY <2>5, <2>6, <2>7, <2>8 DEF HandInv
<1>28. ASSUME CoreFails(c) PROVE HandInv'
  <2>0. Taken /\ OwnNumbers /\ NotYetOpen /\ Shown
    BY DEF HandInv
  <2>1. /\ calls[c].at = "starting" /\ calls'[c].at = "ending" /\ Held(c)' = Held(c)
        /\ backend' = backend /\ worker' = (IF worker = Held(c) THEN None ELSE worker)
        /\ running' = running \ {Held(c)} /\ retrying' = retrying /\ early' = early
    BY <1>1, <1>28 DEF CoreFails, TypeOK, Works, registry, ports, marks, At, Goto, Plan, Held, Doing, Free
  <2>5. Taken'
    BY <1>1, <1>3, <1>4, <2>0, <2>1 DEF Taken, At, Holding, Starting, Parameters
  <2>6. OwnNumbers'
    BY <1>1, <1>3, <1>4, <2>0, <2>1 DEF OwnNumbers, At, Holding, Starting, Parameters
  <2>7. NotYetOpen'
    BY <1>1, <1>3, <1>4, <2>0, <2>1 DEF NotYetOpen, OwnNumbers, At, Holding, Starting, Parameters
  <2>8. Shown'
    <3> SUFFICES ASSUME NEW w \in Tokens \cup {None}, Cored(w)'
                 PROVE  backend' = "qmi" /\ w # None /\ Seen(w)'
      BY DEF Shown
    <3>1. Cored(w)
      BY <1>3, <2>1 DEF Cored, Opening, At, Starting
    <3>2. Seen(w) /\ backend = "qmi" /\ w # None
      BY <2>0, <3>1 DEF Shown
    <3>3. w # Held(c)
      <4> SUFFICES ASSUME w = Held(c) PROVE FALSE
        OBVIOUS
      <4>1. w \notin running' /\ w \notin retrying'
        BY <2>0, <2>1 DEF NotYetOpen
      <4>2. PICK d \in Calls : calls'[d].at = "starting" /\ Held(d)' = w
        BY <4>1 DEF Cored, Opening, At
      <4>3. d # c /\ calls[d].at = "starting" /\ Held(d) = Held(c)
        BY <1>3, <2>1, <4>2
      <4> QED BY <2>0, <2>1, <4>3 DEF OwnNumbers, Starting
    <3>4. Seen(w)'
      BY <1>3, <2>0, <2>1, <3>2, <3>3 DEF Seen, At
    <3> QED BY <2>1, <3>2, <3>4
  <2> QED BY <2>5, <2>6, <2>7, <2>8 DEF HandInv
<1>29. ASSUME EndRebuildAttempt(c) PROVE HandInv'
  <2>0. Taken /\ OwnNumbers /\ NotYetOpen /\ Shown
    BY DEF HandInv
  <2>1. /\ calls[c].at = "ending" /\ calls'[c].at = "plan" /\ Held(c)' = None
        /\ backend' = backend /\ worker' = worker
        /\ running' = running /\ retrying' = retrying /\ early' = early
    BY <1>1, <1>29 DEF EndRebuildAttempt, TypeOK, Works, registry, ports, marks, At, Goto, Plan, Held, Doing, Free
  <2>5. Taken'
    BY <1>1, <1>3, <1>4, <2>0, <2>1 DEF Taken, At, Holding, Starting, Parameters
  <2>6. OwnNumbers'
    BY <1>1, <1>3, <1>4, <2>0, <2>1 DEF OwnNumbers, At, Holding, Starting, Parameters
  <2>7. NotYetOpen'
    BY <1>1, <1>3, <1>4, <2>0, <2>1 DEF NotYetOpen, OwnNumbers, At, Holding, Starting, Parameters
  <2>8. Shown'
    <3> SUFFICES ASSUME NEW w \in Tokens \cup {None}, Cored(w)'
                 PROVE  backend' = "qmi" /\ w # None /\ Seen(w)'
      BY DEF Shown
    <3>1. Cored(w)
      BY <1>3, <2>0, <2>1 DEF Cored, Opening, At, Starting
    <3>2. Seen(w) /\ backend = "qmi" /\ w # None
      BY <2>0, <3>1 DEF Shown
    <3>3. Seen(w)'
      BY <1>3, <2>0, <2>1, <3>1, <3>2 DEF Seen, At
    <3> QED BY <2>1, <3>2, <3>3
  <2> QED BY <2>5, <2>6, <2>7, <2>8 DEF HandInv
<1>30. ASSUME RemoveWorker(c) PROVE HandInv'
  <2>0. Taken /\ OwnNumbers /\ NotYetOpen /\ Shown
    BY DEF HandInv
  <2>2. calls[c].at = "plan" /\ UNCHANGED <<backend, ports>>
    BY <1>30 DEF RemoveWorker, Doing, At
  <2>3. CASE worker = None
    <3>1. worker' = worker /\ Held(c)' = Held(c) /\ calls'[c].at \in {"plan", "settling"}
      BY <1>1, <1>30, <2>3 DEF RemoveWorker, Goto, Plan, Works, Held, TypeOK
    <3> QED BY <1>2, <2>2, <3>1, HandsStay DEF Holding, Starting, Held
  <2>4. CASE worker # None
    <3>1. calls' = [calls EXCEPT ![c].at = "stopping", ![c].token = worker, ![c].own = ~ rebuilding]
      BY <1>30, <2>4 DEF RemoveWorker
    <3>2. Held(c)' = worker /\ calls'[c].at = "stopping" /\ worker' = None /\ Held(c) = None
      BY <1>1, <1>30, <2>0, <2>2, <2>4, <3>1 DEF RemoveWorker, Held, Works, TypeOK, Taken, Holding, Starting
    <3>5. Taken'
      BY <1>3, <2>0, <2>2, <2>4, <3>2 DEF Taken, Holding, Starting
    <3>6. OwnNumbers'
      BY <1>3, <2>0, <2>2, <3>2 DEF OwnNumbers, Starting
    <3>7. NotYetOpen'
      BY <1>3, <2>0, <2>2, <3>2 DEF NotYetOpen, ports
    <3>8. Shown'
      <4> SUFFICES ASSUME NEW w \in Tokens \cup {None}, Cored(w)'
                   PROVE  backend' = "qmi" /\ w # None /\ Seen(w)'
        BY DEF Shown
      <4>1. Cored(w)
        BY <1>3, <2>2, <3>2 DEF Cored, Opening, At, ports
      <4>2. Seen(w) /\ backend = "qmi" /\ w # None
        BY <2>0, <4>1 DEF Shown
      <4>3. Seen(w)'
        BY <1>3, <2>2, <3>2, <4>2 DEF Seen, At, ports
      <4> QED BY <2>2, <4>2, <4>3
    <3> QED BY <3>5, <3>6, <3>7, <3>8 DEF HandInv
  <2> QED BY <2>3, <2>4
<1>31. ASSUME StopWorker(c) PROVE HandInv'
  <2>0. Taken /\ OwnNumbers /\ NotYetOpen /\ Shown
    BY DEF HandInv
  <2>1. /\ calls[c].at = "stopping" /\ calls'[c].at = "plan" /\ Held(c)' = None
        /\ backend' = backend /\ worker' = worker
        /\ running' = running \ {Held(c)} /\ retrying' = retrying
        /\ early' = IF Opening(Held(c)) THEN early \cup {Held(c)} ELSE early
    BY <1>1, <1>31 DEF StopWorker, TypeOK, Works, registry, ports, marks, At, Goto, Plan, Held, Doing, Free
  <2>5. Taken'
    BY <1>1, <1>3, <1>4, <2>0, <2>1 DEF Taken, At, Holding, Starting, Parameters
  <2>6. OwnNumbers'
    BY <1>1, <1>3, <1>4, <2>0, <2>1 DEF OwnNumbers, At, Holding, Starting, Parameters
  <2>7. NotYetOpen'
    BY <1>1, <1>3, <1>4, <2>0, <2>1 DEF NotYetOpen, OwnNumbers, At, Holding, Starting, Parameters
  <2>8. Shown'
    <3> SUFFICES ASSUME NEW w \in Tokens \cup {None}, Cored(w)'
                 PROVE  backend' = "qmi" /\ w # None /\ Seen(w)'
      BY DEF Shown
    <3>1. Cored(w) /\ (w = Held(c) => Opening(w))
      BY <1>3, <2>1 DEF Cored, Opening, At
    <3>2. Seen(w) /\ backend = "qmi" /\ w # None
      BY <2>0, <3>1 DEF Shown
    <3>3. CASE w = Held(c)
      BY <2>1, <3>1, <3>2, <3>3 DEF Seen
    <3>4. CASE w # Held(c)
      <4>1. early \subseteq early'
        BY <2>1
      <4>2. Seen(w)'
        BY <1>3, <2>1, <3>2, <3>4, <4>1 DEF Seen, At
      <4> QED BY <2>1, <3>2, <4>2
    <3> QED BY <3>3, <3>4
  <2> QED BY <2>5, <2>6, <2>7, <2>8 DEF HandInv
<1> QED
  BY <1>22, <1>23, <1>24, <1>25, <1>26, <1>27, <1>28, <1>29, <1>30, <1>31, <1>32 DEF Step, Start, Remove, Recovery
-----------------------------------------------------------------------------
(* All of it together.                                                      *)
Owned == TypeOK /\ PlanInv /\ MarkIsOwned /\ RecInv /\ HandInv

LEMMA OwnedInit ==
    ASSUME Parameters, Init
    PROVE  Owned
<1>1. TypeOK /\ PlanInv
  BY InitPlan
<1>2. \A c \in Calls : calls[c] \in {Idle, Away}
  BY DEF Init
<1>3. \A c \in Calls : /\ calls[c].plan = <<>> /\ calls[c].at \in {"plan", "away"}
                       /\ calls[c].token = None
  BY <1>2 DEF Idle, Away
<1>4. ~ rebuilding /\ ~ recovering /\ ~ active /\ running = {} /\ retrying = {}
  BY DEF Init
<1>5. MarkIsOwned
  BY <1>4 DEF MarkIsOwned
<1>6. RecInv
  BY <1>3, <1>4 DEF RecInv, Busy, Calls
<1>7. HandInv
  BY <1>3, <1>4 DEF HandInv, Taken, OwnNumbers, NotYetOpen, Shown, Cored, Opening, At, Held, Holding, Starting
<1> QED BY <1>1, <1>5, <1>6, <1>7 DEF Owned

LEMMA OwnedNext ==
    ASSUME Parameters, Owned, [Next]_vars
    PROVE  Owned'
<1>1. TypeOK /\ PlanInv /\ MarkIsOwned /\ RecInv /\ HandInv
  BY DEF Owned
<1>2. TypeOK' /\ PlanInv'
  BY <1>1, NextPlan
<1>3. ASSUME NEW c \in Calls, Step(c) PROVE MarkIsOwned' /\ RecInv' /\ HandInv'
  BY <1>1, <1>2, <1>3, StepMark, StepRecovery, StepHands
<1>4. CASE UNCHANGED vars
  <2> USE <1>4 DEF vars, registry, ports, marks
  <2>1. MarkIsOwned'
    BY <1>1 DEF MarkIsOwned, At
  <2>2. RecInv'
    BY <1>1 DEF RecInv, Busy, Waits
  <2>3. HandInv'
    BY <1>1 DEF HandInv, Taken, OwnNumbers, NotYetOpen, Shown, Cored, Opening, Seen, Held, At
  <2> QED BY <1>2, <2>1, <2>2, <2>3 DEF Owned
<1>5. ASSUME NEW w \in Tokens, Retry(w) PROVE MarkIsOwned' /\ RecInv' /\ HandInv'
  <2>1. UNCHANGED <<rebuilding, marks, calls>>
    BY <1>5 DEF Retry, RetrySucceeds, RetryEnds
  <2>2. MarkIsOwned'
    BY <1>1, <2>1 DEF MarkIsOwned, At
  <2>3. RecInv'
    BY <1>1, <2>1 DEF RecInv, Busy, Waits, marks
  <2> QED BY <1>1, <1>5, <2>2, <2>3, RetryHands
<1> QED BY <1>2, <1>3, <1>4, <1>5 DEF Next, Owned

LEMMA OwnedShows ==
    ASSUME Owned
    PROVE  NoWorkerLost /\ MarkIsOwned /\ RecoveryMarks
<1>1. ASSUME NEW w \in running \ early PROVE w = worker \/ \E c \in Calls : Held(c) = w
  <2>1. w \in Tokens \cup {None} /\ Cored(w)
    BY DEF Owned, TypeOK, Cored
  <2>2. Seen(w)
    BY <2>1 DEF Owned, HandInv, Shown
  <2> QED BY <2>2 DEF Seen
<1> QED BY <1>1, MarksFollow DEF Owned, NoWorkerLost

LEMMA PoolOwned == ASSUME Parameters PROVE Spec => []Owned
<1>1. Init => Owned
  BY OwnedInit
<1>2. Owned /\ [Next]_vars => Owned'
  BY OwnedNext
<1> QED BY <1>1, <1>2, PTL DEF Spec

(* A worker whose core is open is registered or in the hands of a call that *)
(* starts or stops it, however starts and removals overtake each other and  *)
(* time out, unless it was stopped while its core was starting              *)
(* (AddWorkerFromConfig(), registerWorkerStarting(),                        *)
(* startQMICoreWithStartupBudget(), RemoveWorker()).                        *)
THEOREM NoWorkerIsLost == ASSUME Parameters PROVE Spec => []NoWorkerLost
<1>1. Owned => NoWorkerLost
  BY OwnedShows
<1> QED BY <1>1, PoolOwned, PTL

(* While rebuilding is set, a start that is the latest, a removal that has  *)
(* taken it, or a rebuild by hand is out that will reset it; this holds     *)
(* beside the watchdog, which takes it from a start that hangs              *)
(* (endRebuildAttemptIfCurrent(), startBootstrapWatchdog(),                 *)
(* RebuildWorker()).                                                        *)
THEOREM MarkIsReleased == ASSUME Parameters PROVE Spec => []MarkIsOwned
<1>1. Owned => MarkIsOwned
  BY OwnedShows
<1> QED BY <1>1, PoolOwned, PTL

(* One recovery works at a time, and neither of the two marks outlives the  *)
(* recoveries that are out, whichever of them finds another at work         *)
(* (beginModemRebootRecovery(), finishModemRebootRecovery(), Observe() and  *)
(* Finish() of the transport's controller).                                 *)
THEOREM OneRecoveryWorks == ASSUME Parameters PROVE Spec => []RecoveryMarks
<1>1. Owned => RecoveryMarks
  BY OwnedShows
<1> QED BY <1>1, PoolOwned, PTL
=============================================================================
