---------------------------- MODULE WorkerProofs ----------------------------
(***************************************************************************)
(* Theorems about Worker, for every set of directories, every interval and *)
(* every number of failures and hangs: the types, the two guards and the   *)
(* poll chain, the debounce behind every noted change, and how long unread *)
(* bytes can wait for a pass.                                              *)
(***************************************************************************)
EXTENDS Worker, FiniteSetTheorems, TLAPS

(* Before the worker is up only the startup pass runs; afterwards there is *)
(* one poll.  Until a guard is cleared by force, at most one guarded pass  *)
(* runs, and the guard says whether.                                       *)
OnePoll ==
  /\ up <=> ~Running("startup")
  /\ up => (pollIn = NoTimer <=> Running("poll"))
  /\ ~up => pollIn = NoTimer /\ ~Running("poll")

OneGuarded ==
  ~forced => /\ \A s, t \in Guarded : Running(s) /\ Running(t) => s = t
             /\ inFlight <=> \E s \in Guarded : Running(s)

IInv == TypeOK /\ OnePoll /\ OneGuarded /\ NotedIsTimed

LEMMA Names ==
  /\ "startup" \in Guarded /\ "poll" \in Guarded /\ "watcher" \in Starters
  /\ "watcher" \notin Guarded /\ Guarded \subseteq Starters /\ Dogs \subseteq Guarded
  /\ "startup" \notin Dogs /\ "poll" \notin Dogs
BY ConstantsAssumption DEF Guarded, Starters

LEMMA DelayType ==
  ASSUME NEW d \in PollMin..PollMax, NEW seen
  PROVE  NextDelay(d, seen) \in PollMin..PollMax
BY ConstantsAssumption DEF NextDelay, Least, Most

LEMMA PassTypes == NoPass \in Pass /\ \A dirs : NewPass(dirs) \in Pass
BY ConstantsAssumption DEF NoPass, NewPass, Pass

LEMMA WaitType == MaxWait \in Nat
BY ConstantsAssumption DEF MaxWait, Most

LEMMA InitInv == Init => IInv
<1> SUFFICES ASSUME Init PROVE IInv
  OBVIOUS
<1>1. pass \in [Starters -> Pass]
  BY PassTypes DEF Init
<1>2. \A s \in Starters : Running(s) <=> s = "startup"
  BY DEF Init, NoPass, NewPass, Running
<1>3. TypeOK
  <2>1. wait \in 0..(MaxWait + 1) /\ dogIn \in 0..DogTick /\ idle \in 0..Hang
    BY ConstantsAssumption, WaitType DEF Init
  <2>2. pollIn \in {NoTimer} \cup 0..PollMax /\ delay \in PollMin..PollMax
    BY ConstantsAssumption DEF Init
  <2>3. /\ unread \in BOOLEAN /\ up \in BOOLEAN /\ debounce \in BOOLEAN /\ ingesting \in BOOLEAN
        /\ inFlight \in BOOLEAN /\ active \in BOOLEAN /\ forced \in BOOLEAN
    BY DEF Init
  <2>4. failures \in 0..MaxFailures /\ hangs \in 0..MaxHangs
    BY ConstantsAssumption DEF Init
  <2>5. changed \subseteq Dirs
    BY DEF Init
  <2> QED
    BY <1>1, <2>1, <2>2, <2>3, <2>4, <2>5 DEF TypeOK
<1>4. OnePoll /\ OneGuarded /\ NotedIsTimed
  BY <1>2, Names DEF Init, OnePoll, OneGuarded, NotedIsTimed, NoTimer
<1> QED
  BY <1>3, <1>4 DEF IInv

(* A pass begins: the others go on as they were.                           *)
LEMMA StartPass ==
  ASSUME TypeOK, NEW s \in Starters, NEW dirs, Start(s, dirs)
  PROVE  /\ pass' \in [Starters -> Pass] /\ wait' \in 0..(MaxWait + 1)
         /\ \A t \in Starters : Running(t)' <=> t = s \/ Running(t)
<1>1. NewPass(dirs) \in Pass
  BY PassTypes
<1>2. MaxWait \in Nat /\ wait' \in 0..(MaxWait + 1)
  BY WaitType DEF Start, TypeOK
<1>3. pass' = [pass EXCEPT ![s] = NewPass(dirs)] /\ pass \in [Starters -> Pass]
  BY DEF Start, TypeOK
<1> QED
  BY <1>1, <1>2, <1>3 DEF Running, NewPass

LEMMA FileChangeStep ==
  ASSUME IInv, FileChange
  PROVE  IInv'
<1> USE DEF IInv
<1>1. CASE ingesting
  BY <1>1 DEF FileChange, vars, files, watch, poll, bounds, TypeOK, OnePoll, OneGuarded, NotedIsTimed, Running
<1>2. CASE ~ingesting
  <2>1. PICK dirs : Start("watcher", dirs)
    BY <1>2 DEF FileChange
  <2>2. /\ pass' \in [Starters -> Pass] /\ wait' \in 0..(MaxWait + 1)
        /\ \A t \in Starters : Running(t)' <=> t = "watcher" \/ Running(t)
    BY <2>1, StartPass, Names
  <2>3. /\ ingesting' = TRUE /\ debounce' = FALSE /\ changed' = {}
        /\ UNCHANGED <<unread, up, inFlight, poll, dogIn, idle, forced, bounds>>
    BY <1>2 DEF FileChange
  <2>4. TypeOK'
    BY <2>2, <2>3 DEF TypeOK, poll, bounds
  <2>5. OnePoll' /\ OneGuarded' /\ NotedIsTimed'
    BY <2>2, <2>3, Names DEF TypeOK, OnePoll, OneGuarded, NotedIsTimed, poll
  <2> QED
    BY <2>4, <2>5
<1> QED
  BY <1>1, <1>2

LEMMA PollStep ==
  ASSUME IInv, Poll
  PROVE  IInv'
<1> USE DEF IInv
<1>1. NextDelay(delay, active) \in PollMin..PollMax /\ NextDelay(delay, active) > 0
  BY DelayType, ConstantsAssumption DEF TypeOK
<1>2. up /\ ~Running("poll")
  BY DEF Poll, OnePoll, TypeOK, NoTimer
<1>3. CASE inFlight
  <2>1. /\ pollIn' = NextDelay(delay, active) /\ delay' = NextDelay(delay, active)
        /\ active' = FALSE
        /\ UNCHANGED <<unread, wait, up, watch, inFlight, pass, dogIn, idle, forced, bounds>>
    BY <1>3 DEF Poll
  <2>2. TypeOK'
    <3>1. delay' \in PollMin..PollMax /\ pollIn' \in {NoTimer} \cup 0..PollMax
      BY <1>1, <2>1, ConstantsAssumption
    <3> QED
      BY <2>1, <3>1 DEF TypeOK, watch, bounds
  <2>3. OnePoll' /\ OneGuarded' /\ NotedIsTimed'
    BY <1>1, <1>2, <2>1 DEF OnePoll, OneGuarded, NotedIsTimed, Running, watch, NoTimer
  <2> QED
    BY <2>2, <2>3
<1>4. CASE ~inFlight
  <2>1. /\ inFlight' = TRUE /\ pollIn' = NoTimer /\ Start("poll", Dirs)
        /\ UNCHANGED <<unread, up, watch, delay, active, dogIn, idle, forced, bounds>>
    BY <1>4 DEF Poll
  <2>2. /\ pass' \in [Starters -> Pass] /\ wait' \in 0..(MaxWait + 1)
        /\ \A t \in Starters : Running(t)' <=> t = "poll" \/ Running(t)
    BY <2>1, StartPass, Names
  <2>3. TypeOK'
    BY <2>1, <2>2 DEF TypeOK, watch, bounds
  <2>4. OnePoll' /\ NotedIsTimed'
    BY <1>2, <2>1, <2>2, Names DEF OnePoll, NotedIsTimed, watch
  <2>5. OneGuarded'
    BY <1>4, <2>1, <2>2, Names DEF OneGuarded
  <2> QED
    BY <2>3, <2>4, <2>5
<1> QED
  BY <1>3, <1>4 DEF TypeOK

LEMMA WatchdogStep ==
  ASSUME IInv, Watchdog
  PROVE  IInv'
<1> USE DEF IInv
<1>1. /\ up /\ dogIn' = DogTick /\ dogIn' \in 0..DogTick
      /\ UNCHANGED <<unread, up, watch, poll, idle, bounds>>
  BY ConstantsAssumption DEF Watchdog
<1>2. CASE Patient
  <2>1. UNCHANGED <<inFlight, wait, pass, forced>>
    BY <1>2 DEF Watchdog
  <2> QED
    BY <1>1, <2>1 DEF TypeOK, OnePoll, OneGuarded, NotedIsTimed, Running, watch, poll, bounds
<1>3. CASE ~Patient
  <2>1. PICK s \in Dogs : /\ ~Running(s) /\ inFlight' = TRUE /\ Start(s, Dirs)
                          /\ forced' = (forced \/ inFlight)
    BY <1>3 DEF Watchdog
  <2>2. /\ pass' \in [Starters -> Pass] /\ wait' \in 0..(MaxWait + 1)
        /\ \A t \in Starters : Running(t)' <=> t = s \/ Running(t)
    BY <2>1, StartPass, Names
  <2>3. TypeOK'
    BY <1>1, <2>1, <2>2 DEF TypeOK, watch, poll, bounds
  <2>4. OnePoll' /\ NotedIsTimed'
    BY <1>1, <2>2, Names DEF OnePoll, NotedIsTimed, watch, poll
  <2>5. OneGuarded'
    BY <2>1, <2>2, Names DEF OneGuarded, TypeOK
  <2> QED
    BY <2>3, <2>4, <2>5
<1> QED
  BY <1>2, <1>3

LEMMA ReturnStep ==
  ASSUME IInv, NEW s \in Starters, NEW seen \in BOOLEAN, Working(s), Return(s, seen),
         failures' \in 0..MaxFailures, hangs' \in 0..MaxHangs
  PROVE  IInv'
<1> USE DEF IInv
<1>1. /\ pass' \in [Starters -> Pass]
      /\ \A t \in Starters : Running(t)' <=> t # s /\ Running(t)
  <2>1. pass' = [pass EXCEPT ![s] = NoPass] /\ pass \in [Starters -> Pass]
    BY DEF Return, TypeOK
  <2> QED
    BY <2>1, PassTypes DEF Running, NoPass
<1>2. Running(s) /\ UNCHANGED <<unread, wait, changed, debounce, dogIn, forced>>
  BY DEF Return, Working, files
<1>3. \A seen2 \in BOOLEAN : /\ NextDelay(delay, seen2) \in PollMin..PollMax
                             /\ NextDelay(delay, seen2) > 0
  BY DelayType, ConstantsAssumption DEF TypeOK
<1>4. delay \in PollMin..PollMax /\ delay > 0
  BY ConstantsAssumption DEF TypeOK
<1>5. (active \/ seen) \in BOOLEAN
  OBVIOUS
<1>6. \/ /\ s = "poll" /\ delay' = NextDelay(delay, active \/ seen)
         /\ pollIn' = NextDelay(delay, active \/ seen) /\ active' = FALSE
      \/ s = "startup" /\ pollIn' = delay /\ active' = FALSE /\ UNCHANGED delay
      \/ s \notin {"poll", "startup"} /\ active' = (active \/ seen) /\ UNCHANGED <<delay, pollIn>>
  BY Zenon DEF Return
<1>7. /\ pollIn' \in {NoTimer} \cup 0..PollMax /\ delay' \in PollMin..PollMax
      /\ active' \in BOOLEAN
  <2>1. CASE s = "poll"
    <3>1. pollIn' = delay' /\ delay' \in PollMin..PollMax /\ active' \in BOOLEAN
      BY <1>3, <1>5, <1>6, <2>1
    <3> QED
      BY <3>1, ConstantsAssumption
  <2>2. CASE s = "startup"
    <3>1. pollIn' = delay /\ delay' = delay /\ active' \in BOOLEAN
      BY <1>6, <2>2
    <3> QED
      BY <1>4, <3>1, ConstantsAssumption
  <2>3. CASE s \notin {"poll", "startup"}
    BY <1>5, <1>6, <2>3 DEF TypeOK
  <2> QED
    BY <2>1, <2>2, <2>3
<1>8. /\ IF s \in Guarded THEN inFlight' = FALSE /\ idle' = 0 /\ UNCHANGED ingesting
         ELSE ingesting' = FALSE /\ UNCHANGED <<inFlight, idle>>
      /\ up' = (up \/ s = "startup")
  BY DEF Return
<1>9. TypeOK'
  <2>1. /\ inFlight' \in BOOLEAN /\ ingesting' \in BOOLEAN /\ idle' \in 0..Hang
        /\ up' \in BOOLEAN
    <3>1. up' \in BOOLEAN
      BY <1>8 DEF TypeOK
    <3>2. inFlight' \in BOOLEAN /\ ingesting' \in BOOLEAN
      BY <1>8 DEF TypeOK
    <3>3. idle' \in 0..Hang
      BY <1>8, ConstantsAssumption DEF TypeOK
    <3> QED
      BY <3>1, <3>2, <3>3
  <2> QED
    BY <1>1, <1>2, <1>7, <2>1 DEF TypeOK
<1>10. OnePoll'
  <2>1. CASE s = "poll"
    <3>1. pollIn' # NoTimer /\ up' = up /\ up
      BY <1>2, <1>3, <1>5, <1>6, <1>8, <2>1, ConstantsAssumption DEF OnePoll, TypeOK, NoTimer
    <3> QED
      BY <1>1, <2>1, <3>1, Names DEF OnePoll
  <2>2. CASE s = "startup"
    <3>1. pollIn' # NoTimer /\ up' /\ ~up
      <4>1. pollIn' = delay
        BY <1>6, <2>2
      <4>2. up' /\ ~up
        BY <1>2, <1>8, <2>2 DEF OnePoll
      <4> QED
        BY <1>4, <4>1, <4>2 DEF NoTimer
    <3> QED
      BY <1>1, <2>2, <3>1, Names DEF OnePoll
  <2>3. CASE s \notin {"poll", "startup"}
    BY <1>1, <1>6, <1>8, <2>3, Names DEF OnePoll, TypeOK
  <2> QED
    BY <2>1, <2>2, <2>3
<1>11. OneGuarded'
  BY <1>1, <1>2, <1>8, Names DEF OneGuarded, TypeOK
<1>12. NotedIsTimed'
  BY <1>2 DEF NotedIsTimed
<1> QED
  BY <1>9, <1>10, <1>11, <1>12

LEMMA MinuteStep ==
  ASSUME IInv, Minute
  PROVE  IInv'
<1> USE DEF IInv
<1>1. MaxWait \in Nat /\ wait' \in 0..(MaxWait + 1)
  BY WaitType DEF Minute, TypeOK, Least
<1>2. pollIn' \in {NoTimer} \cup 0..PollMax /\ (pollIn' = NoTimer <=> pollIn = NoTimer)
  BY ConstantsAssumption DEF Minute, Due, TypeOK, NoTimer
<1>3. dogIn' \in 0..DogTick /\ idle' \in 0..Hang
  BY ConstantsAssumption DEF Minute, Due, TypeOK, Least
<1>4. pass' \in [Starters -> Pass] /\ \A s \in Starters : Running(s)' <=> Running(s)
  <2>1. \A s \in Starters : Working(s) => pass[s].age + 1 \in 0..MaxAge
    BY ConstantsAssumption DEF Minute, Due, TypeOK, Pass
  <2> QED
    BY <2>1 DEF Minute, TypeOK, Pass, Running
<1>5. UNCHANGED <<unread, up, watch, inFlight, delay, active, forced, bounds>>
  BY DEF Minute
<1>6. TypeOK'
  BY <1>1, <1>2, <1>3, <1>4, <1>5 DEF TypeOK, watch, bounds
<1>7. OnePoll' /\ OneGuarded' /\ NotedIsTimed'
  BY <1>2, <1>4, <1>5, Names DEF OnePoll, OneGuarded, NotedIsTimed, watch
<1> QED
  BY <1>6, <1>7

LEMMA NextStep ==
  ASSUME IInv, [Next]_vars
  PROVE  IInv'
<1> USE DEF IInv
<1>1. ASSUME NEW d \in Dirs, NEW seen \in BOOLEAN, Write(d, seen)  PROVE IInv'
  <2>1. unread' \in BOOLEAN /\ changed' \subseteq Dirs /\ debounce' \in BOOLEAN /\ NotedIsTimed'
    BY <1>1 DEF Write, TypeOK, NotedIsTimed
  <2>2. UNCHANGED <<wait, up, ingesting, inFlight, poll, dogIn, idle, pass, forced, bounds>>
    BY <1>1 DEF Write
  <2> QED
    BY <2>1, <2>2 DEF TypeOK, OnePoll, OneGuarded, Running, poll, bounds
<1>2. ASSUME NEW s \in Starters, Read(s)  PROVE IInv'
  <2>1. /\ pass' \in [Starters -> Pass] /\ wait' \in 0..(MaxWait + 1) /\ unread' \in BOOLEAN
        /\ \A t \in Starters : Running(t)' <=> Running(t)
    <3>1. pass[s] \in Pass /\ [pass[s] EXCEPT !.todo = FALSE] \in Pass
      BY DEF TypeOK, Pass
    <3>2. pass' = [pass EXCEPT ![s] = [pass[s] EXCEPT !.todo = FALSE]]
      BY <1>2 DEF Read, TypeOK
    <3> QED
      <4>1. pass' \in [Starters -> Pass] /\ \A t \in Starters : Running(t)' <=> Running(t)
        BY <3>1, <3>2 DEF TypeOK, Running, Pass
      <4>2. wait' \in 0..(MaxWait + 1)
        BY <1>2, WaitType DEF Read
      <4>3. unread' \in BOOLEAN
        BY <1>2 DEF Read
      <4> QED
        BY <4>1, <4>2, <4>3
  <2>2. UNCHANGED <<up, watch, inFlight, poll, dogIn, idle, forced, bounds>>
    BY <1>2 DEF Read
  <2> QED
    BY <2>1, <2>2, Names DEF TypeOK, OnePoll, OneGuarded, NotedIsTimed, watch, poll, bounds
<1>3. ASSUME NEW s \in Starters, Stop(s)  PROVE IInv'
  <2>1. /\ pass' \in [Starters -> Pass] /\ hangs' \in 0..MaxHangs
        /\ \A t \in Starters : Running(t)' <=> Running(t)
    <3>1. pass[s] \in Pass /\ [pass[s] EXCEPT !.hung = TRUE] \in Pass
      BY DEF TypeOK, Pass
    <3>2. pass' = [pass EXCEPT ![s] = [pass[s] EXCEPT !.hung = TRUE]]
      BY <1>3 DEF Stop, TypeOK
    <3> QED
      BY <1>3, <3>1, <3>2, ConstantsAssumption DEF Stop, TypeOK, Running, Pass
  <2>2. UNCHANGED <<files, up, watch, inFlight, poll, dogIn, idle, forced, failures>>
    BY <1>3 DEF Stop
  <2> QED
    BY <2>1, <2>2, Names DEF TypeOK, OnePoll, OneGuarded, NotedIsTimed, files, watch, poll
<1>4. ASSUME NEW s \in Starters, Finish(s)  PROVE IInv'
  BY <1>4, ReturnStep DEF Finish, TypeOK, bounds
<1>5. ASSUME NEW s \in Starters, Fail(s)  PROVE IInv'
  <2>1. failures' \in 0..MaxFailures /\ hangs' \in 0..MaxHangs
    BY <1>5, ConstantsAssumption DEF Fail, TypeOK
  <2> QED
    BY <1>5, <2>1, ReturnStep DEF Fail
<1>6. CASE UNCHANGED vars
  BY <1>6 DEF vars, files, watch, poll, bounds, TypeOK, OnePoll, OneGuarded, NotedIsTimed, Running
<1> QED
  BY <1>1, <1>2, <1>3, <1>4, <1>5, <1>6, FileChangeStep, PollStep, WatchdogStep, MinuteStep
     DEF Next, PassStep

LEMMA Invariant == Spec => []IInv
<1>1. IInv /\ [Next]_vars => IInv'
  BY NextStep
<1> QED
  BY InitInv, <1>1, PTL DEF Spec

(* Every variable of the worker's timers keeps its type: the poll is never *)
(* set beyond POLL_QUIET_MAX_MS, no timer runs below zero.                 *)
THEOREM TypeCorrect == Spec => []TypeOK
<1>1. IInv => TypeOK
  BY DEF IInv
<1> QED
  BY Invariant, <1>1, PTL

(* main.ts:64: one guarded pass until the watchdog clears a guard, and one *)
(* poll chain whatever it does.                                            *)
THEOREM GuardHolds == Spec => []SingleFlight
<1>1. IInv => SingleFlight
  <2> SUFFICES ASSUME IInv PROVE SingleFlight
    OBVIOUS
  <2> DEFINE R == {s \in Guarded : Running(s)}
  <2>1. ASSUME ~forced  PROVE Cardinality(R) <= 1
    <3>1. CASE R = {}
      BY <3>1, FS_EmptySet
    <3>2. CASE R # {}
      <4>1. PICK s \in R : TRUE
        BY <3>2
      <4>2. R = {s}
        BY <2>1, <4>1 DEF IInv, OneGuarded
      <4>3. Cardinality({s}) = 1
        BY FS_Singleton
      <4> QED
        BY <4>2, <4>3
    <3> QED
      BY <3>1, <3>2
  <2> QED
    BY <2>1 DEF IInv, OnePoll, OneGuarded, SingleFlight
<1> QED
  BY Invariant, <1>1, PTL

(* watcher.ts:39: a directory is never in changedDirs without a timer that *)
(* will come to it.                                                        *)
THEOREM NothingNotedIsForgotten == Spec => []NotedIsTimed
<1>1. IInv => NotedIsTimed
  BY DEF IInv
<1> QED
  BY Invariant, <1>1, PTL

------------------------------------------------------------------------------
(* How long Probe waits.  A guarded pass begins with Probe yet to be read, *)
(* so one that has gone by is older than the wait; it ends before MaxAge.  *)
(* If none has ended since the wait began, the watchdog sees at least the  *)
(* wait and acts by Hang; if one has, the guard is free and it acts by     *)
(* Stall after that.  The time to the next tick is counted in.             *)

NoneEnded == Least(wait, Hang) <= idle /\ wait + dogIn <= Hang + DogTick
OneEnded  == /\ ~inFlight
             /\ idle < Hang => wait <= MaxAge + idle
             /\ wait + dogIn <= MaxAge + Stall + DogTick

WaitInv ==
  /\ \A s \in Guarded : Working(s) => wait <= pass[s].age
  /\ NoneEnded \/ OneEnded

LEMMA Numbers ==
  ASSUME TypeOK
  PROVE  /\ wait \in Nat /\ idle \in 0..Hang /\ dogIn \in 0..DogTick
         /\ Hang \in Nat /\ Stall \in Nat /\ DogTick \in Nat /\ MaxAge \in Nat /\ Stall < Hang
         /\ \A s \in Starters : pass[s] \in Pass /\ pass[s].age \in 0..MaxAge
BY ConstantsAssumption, WaitType DEF TypeOK, Pass

LEMMA LeastBounds ==
  ASSUME NEW h \in Nat, NEW i \in Nat, NEW w \in Nat, NEW v \in Nat, v <= w, Least(w, h) <= i
  PROVE  Least(v, h) <= i
BY DEF Least

LEMMA SumBounds ==
  ASSUME NEW w \in Nat, NEW v \in Nat, NEW d \in Nat, NEW m \in Nat, v <= w, w + d <= m
  PROVE  v + d <= m
OBVIOUS

LEMMA SumOfZero ==
  ASSUME NEW w, w = 0, NEW d \in Nat, NEW t \in Nat, NEW h \in Nat, d <= t
  PROVE  w + d <= h + t
OBVIOUS

LEMMA LeastOfZero == ASSUME NEW h \in Nat  PROVE Least(0, h) = 0
BY DEF Least

(* No guarded pass begins, ends or grows older, and no time passes.        *)
LEMMA WaitKept ==
  ASSUME TypeOK, TypeOK', WaitInv, wait' <= wait, UNCHANGED <<idle, inFlight, dogIn>>,
         \A s \in Guarded : Working(s)' => Working(s) /\ pass'[s].age = pass[s].age
  PROVE  WaitInv'
<1>1. /\ wait \in Nat /\ idle \in 0..Hang /\ dogIn \in 0..DogTick
      /\ Hang \in Nat /\ Stall \in Nat /\ DogTick \in Nat /\ MaxAge \in Nat
      /\ \A s \in Starters : pass[s].age \in 0..MaxAge
  BY Numbers
<1>2. wait' \in Nat
  BY WaitType DEF TypeOK
<1>3. \A s \in Guarded : Working(s)' => wait' <= pass'[s].age
  BY <1>1, <1>2, Names DEF WaitInv
<1>4. wait' <= wait /\ idle' = idle /\ inFlight' = inFlight /\ dogIn' = dogIn
  OBVIOUS
<1>5. idle \in Nat /\ dogIn \in Nat
  BY <1>1
<1>6. ASSUME NoneEnded  PROVE NoneEnded'
  <2>1. Least(wait', Hang) <= idle
    BY <1>1, <1>2, <1>4, <1>5, <1>6, LeastBounds DEF NoneEnded
  <2>2. wait' + dogIn <= Hang + DogTick
    <3>1. Hang + DogTick \in Nat
      BY <1>1
    <3> QED
      BY <1>1, <1>2, <1>4, <1>5, <1>6, <3>1, SumBounds DEF NoneEnded
  <2> QED
    BY <1>4, <2>1, <2>2 DEF NoneEnded
<1>7. ASSUME OneEnded  PROVE OneEnded'
  <2>1. idle < Hang => wait' <= MaxAge + idle
    BY <1>1, <1>2, <1>4, <1>5, <1>7 DEF OneEnded
  <2>2. wait' + dogIn <= MaxAge + Stall + DogTick
    <3>1. MaxAge + Stall + DogTick \in Nat
      BY <1>1
    <3> QED
      BY <1>1, <1>2, <1>4, <1>5, <1>7, <3>1, SumBounds DEF OneEnded
  <2> QED
    BY <1>4, <1>7, <2>1, <2>2 DEF OneEnded
<1> QED
  BY <1>3, <1>6, <1>7 DEF WaitInv

(* Nobody waits.                                                           *)
LEMMA NoWait ==
  ASSUME TypeOK', wait' = 0
  PROVE  WaitInv'
<1>1. /\ idle' \in 0..Hang /\ dogIn' \in 0..DogTick /\ Hang \in Nat /\ DogTick \in Nat /\ MaxAge \in Nat
      /\ \A s \in Starters : pass'[s].age \in 0..MaxAge
  BY ConstantsAssumption DEF TypeOK, Pass
<1>2. \A s \in Guarded : Working(s)' => wait' <= pass'[s].age
  BY <1>1, Names
<1>3. NoneEnded'
  <2>1. Least(wait', Hang) <= idle'
    BY <1>1, LeastOfZero
  <2>2. wait' + dogIn' <= Hang + DogTick
    <3>1. dogIn' \in Nat /\ dogIn' <= DogTick /\ wait' = 0
      BY <1>1
    <3> QED
      BY <1>1, <3>1, SumOfZero
  <2> QED
    BY <2>1, <2>2 DEF NoneEnded
<1> QED
  BY <1>2, <1>3 DEF WaitInv

LEMMA WaitReturn ==
  ASSUME TypeOK, TypeOK', WaitInv, NEW s \in Starters, NEW seen, Working(s), Return(s, seen)
  PROVE  WaitInv'
<1>1. /\ wait \in Nat /\ idle \in 0..Hang /\ dogIn \in 0..DogTick
      /\ Hang \in Nat /\ Stall \in Nat /\ DogTick \in Nat /\ MaxAge \in Nat
      /\ \A t \in Starters : pass[t] \in Pass /\ pass[t].age \in 0..MaxAge
  BY Numbers
<1>2. /\ pass' = [pass EXCEPT ![s] = NoPass] /\ UNCHANGED <<wait, dogIn>>
      /\ IF s \in Guarded THEN inFlight' = FALSE /\ idle' = 0 ELSE UNCHANGED <<inFlight, idle>>
  BY DEF Return, files
<1>3. /\ ~Working(s)'
      /\ \A t \in Starters \ {s} : pass'[t] = pass[t] /\ (Working(t)' <=> Working(t))
  BY <1>2 DEF TypeOK, Working, Running, NoPass
<1>4. CASE s \in Guarded
  <2>1. wait <= MaxAge
    BY <1>1, <1>4 DEF WaitInv
  <2>2. OneEnded'
    BY <1>1, <1>2, <1>4, <2>1 DEF OneEnded
  <2>3. \A t \in Guarded : Working(t)' => wait' <= pass'[t].age
    BY <1>2, <1>3, Names DEF WaitInv
  <2> QED
    BY <2>2, <2>3 DEF WaitInv
<1>5. CASE s \notin Guarded
  <2>1. \A t \in Guarded : Working(t)' => Working(t) /\ pass'[t].age = pass[t].age
    BY <1>3, <1>5, Names
  <2> QED
    BY <1>1, <1>2, <1>5, <2>1, WaitKept
<1> QED
  BY <1>4, <1>5

(* A tick at which the watchdog is patient: what ended is young, or the    *)
(* guard is, and so is the wait.                                           *)
LEMMA WaitWatchdog ==
  ASSUME TypeOK, TypeOK', WaitInv, Watchdog
  PROVE  WaitInv'
<1>1. /\ wait \in Nat /\ idle \in 0..Hang /\ dogIn \in 0..DogTick
      /\ Hang \in Nat /\ Stall \in Nat /\ DogTick \in Nat /\ MaxAge \in Nat /\ Stall < Hang
  BY Numbers
<1>2. dogIn' = DogTick /\ UNCHANGED idle
  BY DEF Watchdog
<1>3. CASE ~Patient
  <2>1. PICK s \in Dogs : Start(s, Dirs)
    BY <1>3 DEF Watchdog
  <2>2. wait' = 0
    BY <2>1, ConstantsAssumption DEF Start
  <2> QED
    BY <2>2, NoWait
<1>4. CASE Patient
  <2>1. UNCHANGED <<inFlight, wait, pass>> /\ idle < Hang /\ (~inFlight => idle <= Stall)
    BY <1>1, <1>4 DEF Watchdog, Patient
  <2>2. NoneEnded => NoneEnded'
    BY <1>1, <1>2, <2>1 DEF NoneEnded, Least
  <2>3. OneEnded => OneEnded'
    BY <1>1, <1>2, <2>1 DEF OneEnded
  <2> QED
    BY <2>1, <2>2, <2>3 DEF WaitInv, Working, Running
<1> QED
  BY <1>3, <1>4

LEMMA WaitMinute ==
  ASSUME TypeOK, TypeOK', WaitInv, Minute
  PROVE  WaitInv'
<1>1. /\ wait \in Nat /\ idle \in 0..Hang /\ dogIn \in 0..DogTick /\ MaxWait \in Nat
      /\ Hang \in Nat /\ Stall \in Nat /\ DogTick \in Nat /\ MaxAge \in Nat
      /\ \A s \in Starters : pass[s] \in Pass /\ pass[s].age \in 0..MaxAge
  BY Numbers, WaitType
<1>2. CASE wait' = 0
  BY <1>2, NoWait
<1>3. CASE wait' # 0
  <2>1. /\ up /\ wait' = Least(wait + 1, MaxWait + 1) /\ idle' = Least(idle + 1, Hang)
        /\ dogIn' = dogIn - 1 /\ UNCHANGED inFlight
        /\ pass' = [s \in Starters |-> IF Working(s) THEN [pass[s] EXCEPT !.age = @ + 1] ELSE pass[s]]
    BY <1>3 DEF Minute
  <2>2. wait' \in Nat /\ wait' <= wait + 1
    BY <1>1, <2>1 DEF Least
  <2>3. ASSUME NEW s \in Guarded, Working(s)'  PROVE wait' <= pass'[s].age
    <3>1. s \in Starters /\ pass[s] \in Pass
      BY <1>1, Names
    <3>2. CASE Working(s)
      <4>1. pass'[s].age = pass[s].age + 1
        BY <2>1, <3>1, <3>2 DEF Pass
      <4> QED
        BY <1>1, <2>2, <3>1, <3>2, <4>1 DEF WaitInv
    <3>3. CASE ~Working(s)
      BY <2>1, <2>3, <3>1, <3>3 DEF Working, Running
    <3> QED
      BY <3>2, <3>3
  <2>4. NoneEnded => NoneEnded'
    BY <1>1, <2>1, <2>2 DEF NoneEnded, Least
  <2>5. OneEnded => OneEnded'
    BY <1>1, <2>1, <2>2 DEF OneEnded, Least
  <2> QED
    BY <2>3, <2>4, <2>5 DEF WaitInv
<1> QED
  BY <1>2, <1>3

LEMMA WaitStep ==
  ASSUME TypeOK, TypeOK', WaitInv, [Next]_vars
  PROVE  WaitInv'
<1>0. wait \in Nat
  BY Numbers
<1>1. ASSUME NEW d \in Dirs, NEW seen \in BOOLEAN, Write(d, seen)  PROVE WaitInv'
  BY <1>0, <1>1, WaitKept DEF Write, Working, Running
<1>2. CASE FileChange
  <2>1. CASE ingesting
    BY <1>0, <1>2, <2>1, WaitKept DEF FileChange, vars, files, Working, Running
  <2>2. CASE ~ingesting
    <3>1. PICK dirs : Start("watcher", dirs)
      BY <1>2, <2>2 DEF FileChange
    <3>2. UNCHANGED <<idle, inFlight, dogIn>>
      BY <1>2, <2>2 DEF FileChange
    <3>3. wait' <= wait
      BY <1>0, <3>1 DEF Start
    <3>4. \A s \in Guarded : Working(s)' => Working(s) /\ pass'[s].age = pass[s].age
      BY <3>1, Names DEF Start, TypeOK, Working, Running
    <3> QED
      BY <3>2, <3>3, <3>4, WaitKept
  <2> QED
    BY <2>1, <2>2
<1>3. CASE Poll
  <2>1. CASE inFlight
    <3>1. UNCHANGED <<idle, inFlight, dogIn, wait, pass>>
      BY <1>3, <2>1 DEF Poll
    <3> QED
      BY <1>0, <3>1, WaitKept DEF Working, Running
  <2>2. CASE ~inFlight
    <3>1. wait' = 0
      BY <1>3, <2>2, ConstantsAssumption DEF Poll, Start
    <3> QED
      BY <3>1, NoWait
  <2> QED
    BY <2>1, <2>2
<1>4. ASSUME NEW s \in Starters, Read(s)  PROVE WaitInv'
  BY <1>4, NoWait DEF Read
<1>5. ASSUME NEW s \in Starters, Finish(s) \/ Fail(s)  PROVE WaitInv'
  BY <1>5, WaitReturn DEF Finish, Fail
<1>6. ASSUME NEW s \in Starters, Stop(s)  PROVE WaitInv'
  <2>1. /\ pass' = [pass EXCEPT ![s].hung = TRUE]
        /\ UNCHANGED <<wait, idle, inFlight, dogIn>>
    BY <1>6 DEF Stop, files
  <2>2. \A t \in Starters : Working(t)' => Working(t) /\ pass'[t].age = pass[t].age
    BY <2>1 DEF TypeOK, Pass, Working, Running
  <2> QED
    BY <1>0, <2>1, <2>2, Names, WaitKept
<1>7. CASE UNCHANGED vars
  BY <1>0, <1>7, WaitKept DEF vars, files, Working, Running
<1> QED
  BY <1>1, <1>2, <1>3, <1>4, <1>5, <1>6, <1>7, WaitWatchdog, WaitMinute DEF Next, PassStep

(* main.ts:46: no directory with unread bytes waits longer than MaxWait    *)
(* for a pass that is to read it, however many passes throw or hang and    *)
(* whatever events are lost.                                               *)
THEOREM NobodyWaitsForever == Spec => []WaitBounded
<1>1. Init => IInv /\ WaitInv
  <2> SUFFICES ASSUME Init PROVE WaitInv
    BY InitInv
  <2>1. TypeOK /\ wait = 0
    BY InitInv DEF IInv, Init
  <2>2. NoneEnded
    BY <2>1, Numbers DEF NoneEnded, Least
  <2>3. \A s \in Guarded : wait <= pass[s].age
    BY <2>1, Numbers, Names
  <2> QED
    BY <2>2, <2>3 DEF WaitInv
<1>2. IInv /\ WaitInv /\ [Next]_vars => (IInv /\ WaitInv)'
  BY NextStep, WaitStep DEF IInv
<1>3. IInv /\ WaitInv => WaitBounded
  <2> SUFFICES ASSUME TypeOK, WaitInv PROVE WaitBounded
    BY DEF IInv
  <2>1. /\ wait \in Nat /\ dogIn \in 0..DogTick
        /\ Hang \in Nat /\ Stall \in Nat /\ DogTick \in Nat /\ MaxAge \in Nat
    BY Numbers
  <2>2. wait + dogIn <= Hang + DogTick \/ wait + dogIn <= MaxAge + Stall + DogTick
    BY DEF WaitInv, NoneEnded, OneEnded
  <2> QED
    BY <2>1, <2>2 DEF WaitBounded, MaxWait, Most
<1> QED
  BY <1>1, <1>2, <1>3, PTL DEF Spec

------------------------------------------------------------------------------
(* A pass that is let be.  From the end of one guarded pass the poll begins *)
(* the next within PollMax, so while one is under way the time the watchdog *)
(* goes by is at most PollMax more than its age.                            *)

Calm ==
  /\ ~forced
  /\ \A s \in Starters : ~pass[s].hung
  /\ ~inFlight => idle + pollIn <= PollMax
  /\ \A s \in Guarded : Running(s) => idle <= PollMax + pass[s].age

Short == MaxHangs = 0 /\ PollMax + MaxAge < Hang

LEMMA CalmNumbers ==
  ASSUME TypeOK
  PROVE  /\ idle \in Nat /\ pollIn \in Int /\ PollMax \in Nat /\ MaxAge \in Nat /\ Hang \in Nat
         /\ pollIn <= PollMax /\ delay <= PollMax
         /\ \A s \in Starters : pass[s] \in Pass /\ pass[s].age \in Nat /\ pass[s].age <= MaxAge
BY ConstantsAssumption DEF TypeOK, Pass, NoTimer

LEMMA FromZero == ASSUME NEW i, i = 0, NEW q \in Int, NEW m \in Nat, q <= m  PROVE i + q <= m
OBVIOUS

LEMMA StillWithin ==
  ASSUME NEW i \in Nat, NEW j \in Nat, NEW q \in Int, NEW r, NEW m \in Nat,
         j <= i + 1, r = q - 1, i + q <= m
  PROVE  j + r <= m
OBVIOUS

(* A guarded pass begins within PollMax of the end of the last.            *)
LEMMA CalmStart ==
  ASSUME IInv, Calm, NEW s \in Guarded, NEW dirs, Start(s, dirs), ~inFlight, inFlight',
         forced' = forced, idle' = idle, pollIn >= 0
  PROVE  Calm'
<1>1. TypeOK /\ s \in Starters
  BY Names DEF IInv
<1>2. /\ idle \in Nat /\ pollIn \in Int /\ PollMax \in Nat
      /\ \A t \in Starters : pass[t].age \in Nat
  BY <1>1, CalmNumbers
<1>3. idle <= PollMax
  BY <1>2 DEF Calm
<1>4. pass' = [pass EXCEPT ![s] = NewPass(dirs)] /\ pass \in [Starters -> Pass]
  BY <1>1 DEF Start, TypeOK
<1>5. /\ pass'[s] = NewPass(dirs)
      /\ \A t \in Starters : t # s => pass'[t] = pass[t]
  BY <1>1, <1>4
<1>6. \A t \in Starters : ~pass'[t].hung
  BY <1>5 DEF Calm, NewPass
<1>7. \A t \in Guarded : Running(t)' => idle' <= PollMax + pass'[t].age
  BY <1>2, <1>3, <1>5, Names DEF Calm, NewPass, Running
<1> QED
  BY <1>6, <1>7 DEF Calm

(* Nothing begins but a pass of the watcher, nothing ends, no time passes. *)
LEMMA CalmKept ==
  ASSUME Calm, forced' = forced, inFlight' = inFlight, idle' = idle,
         ~inFlight => pollIn' = pollIn,
         \A s \in Starters : ~pass'[s].hung,
         \A s \in Guarded : Running(s)' => Running(s) /\ pass'[s].age = pass[s].age
  PROVE  Calm'
<1>1. ~inFlight' => idle' + pollIn' <= PollMax
  BY DEF Calm
<1>2. \A s \in Guarded : Running(s)' => idle' <= PollMax + pass'[s].age
  BY DEF Calm
<1> QED
  BY <1>1, <1>2 DEF Calm

LEMMA CalmReturn ==
  ASSUME IInv, TypeOK', Calm, NEW s \in Starters, NEW seen, Return(s, seen)
  PROVE  Calm'
<1>0. TypeOK
  BY DEF IInv
<1>1. /\ pass' = [pass EXCEPT ![s] = NoPass] /\ forced' = forced
      /\ IF s \in Guarded THEN inFlight' = FALSE /\ idle' = 0 ELSE UNCHANGED <<inFlight, idle>>
  BY DEF Return
<1>2. /\ ~Running(s)' /\ ~pass'[s].hung
      /\ \A t \in Starters : t # s => pass'[t] = pass[t]
  BY <1>0, <1>1 DEF TypeOK, Running, NoPass
<1>3. \A t \in Starters : ~pass'[t].hung
  BY <1>2 DEF Calm
<1>4. \A t \in Guarded : Running(t)' => Running(t) /\ pass'[t].age = pass[t].age
  BY <1>2, Names DEF Running
<1>5. CASE s \in Guarded
  <2>1. /\ PollMax \in Nat /\ pollIn' \in Int /\ pollIn' <= PollMax
        /\ \A t \in Starters : pass'[t].age \in Nat
    BY ConstantsAssumption DEF TypeOK, Pass, NoTimer
  <2>0. idle' = 0
    BY <1>1, <1>5
  <2>2. idle' + pollIn' <= PollMax
    BY <2>0, <2>1, FromZero
  <2>3. \A t \in Guarded : idle' <= PollMax + pass'[t].age
    BY <2>0, <2>1, Names
  <2> QED
    BY <1>1, <1>3, <2>2, <2>3 DEF Calm
<1>6. CASE s \notin Guarded
  <2>1. pollIn' = pollIn /\ UNCHANGED <<inFlight, idle>>
    BY <1>1, <1>6, Names DEF Return
  <2> QED
    BY <1>1, <1>3, <1>4, <2>1, CalmKept
<1> QED
  BY <1>5, <1>6

LEMMA CalmWatchdog ==
  ASSUME Short, IInv, Calm, Watchdog
  PROVE  Calm'
<1>1. /\ TypeOK /\ up /\ idle \in Nat /\ pollIn \in Int /\ PollMax \in Nat /\ MaxAge \in Nat
      /\ Hang \in Nat /\ UNCHANGED <<idle, pollIn>>
      /\ \A s \in Starters : pass[s].age \in Nat /\ pass[s].age <= MaxAge
  BY CalmNumbers DEF IInv, Watchdog, poll
<1>2. inFlight => idle < Hang
  <2> SUFFICES ASSUME inFlight PROVE idle < Hang
    OBVIOUS
  <2>1. PICK s \in Guarded : Running(s)
    BY DEF IInv, OneGuarded, Calm
  <2>2. idle <= PollMax + pass[s].age /\ s \in Starters
    BY <2>1, Names DEF Calm
  <2> QED
    BY <1>1, <2>2 DEF Short
<1>3. CASE Patient
  <2>1. UNCHANGED <<inFlight, pass, forced>>
    BY <1>3 DEF Watchdog
  <2> QED
    BY <1>1, <2>1, CalmKept DEF Calm, Running
<1>4. CASE ~Patient
  <2>1. ~inFlight
    BY <1>2, <1>4 DEF Patient
  <2>2. PICK s \in Dogs : inFlight' = TRUE /\ Start(s, Dirs) /\ forced' = (forced \/ inFlight)
    BY <1>4 DEF Watchdog
  <2>3. ~forced /\ ~forced'
    BY <2>1, <2>2 DEF Calm
  <2>5. forced' = forced /\ s \in Guarded
    BY <1>1, <2>2, <2>3, Names DEF TypeOK
  <2>4. pollIn >= 0
    <3>1. ~Running("poll")
      BY <2>1, Names DEF IInv, OneGuarded, Calm
    <3>2. pollIn # NoTimer /\ pollIn \in {NoTimer} \cup 0..PollMax
      BY <1>1, <3>1 DEF IInv, OnePoll, TypeOK
    <3> QED
      BY <1>1, <3>2
  <2> QED
    BY <1>1, <2>1, <2>2, <2>4, <2>5, CalmStart
<1> QED
  BY <1>3, <1>4

LEMMA CalmMinute ==
  ASSUME IInv, Calm, Minute
  PROVE  Calm'
<1>1. /\ TypeOK /\ idle \in Nat /\ pollIn \in Int /\ PollMax \in Nat /\ Hang \in Nat
      /\ \A s \in Starters : pass[s] \in Pass /\ pass[s].age \in Nat
  BY CalmNumbers DEF IInv
<1>2. /\ UNCHANGED <<forced, inFlight>> /\ pollIn # 0
      /\ idle' = IF up THEN Least(idle + 1, Hang) ELSE idle
      /\ pollIn' = IF pollIn = NoTimer THEN NoTimer ELSE pollIn - 1
      /\ pass' = [s \in Starters |-> IF Working(s) THEN [pass[s] EXCEPT !.age = @ + 1] ELSE pass[s]]
  BY DEF Minute, Due
<1>3. idle' \in Nat /\ idle' <= idle + 1
  BY <1>1, <1>2 DEF Least
<1>4. \A s \in Starters : /\ pass'[s].hung = pass[s].hung /\ (Running(s)' <=> Running(s))
                          /\ Running(s) => pass'[s].age = pass[s].age + 1
  BY <1>1, <1>2 DEF Calm, Working, Running, Pass
<1>5. ASSUME ~inFlight'  PROVE idle' + pollIn' <= PollMax
  <2>1. ~inFlight /\ idle + pollIn <= PollMax
    BY <1>2, <1>5 DEF Calm
  <2>2. ~Running("poll") /\ ~Running("startup")
    BY <2>1, Names DEF IInv, OneGuarded, Calm
  <2>3. pollIn # NoTimer
    BY <2>2 DEF IInv, OnePoll
  <2>4. pollIn' = pollIn - 1
    BY <1>2, <2>3
  <2> QED
    <3>1. idle \in Nat /\ idle' \in Nat /\ pollIn \in Int /\ PollMax \in Nat
      BY <1>1, <1>3
    <3>2. idle' <= idle + 1 /\ pollIn' = pollIn - 1 /\ idle + pollIn <= PollMax
      BY <1>3, <2>1, <2>4
    <3> QED
      BY <3>1, <3>2, StillWithin, Zenon
<1>6. ASSUME NEW s \in Guarded, Running(s)'  PROVE idle' <= PollMax + pass'[s].age
  <2>1. s \in Starters /\ Running(s) /\ idle <= PollMax + pass[s].age
    BY <1>4, <1>6, Names DEF Calm
  <2>2. pass'[s].age = pass[s].age + 1
    BY <1>4, <2>1
  <2> QED
    BY <1>1, <1>3, <2>1, <2>2
<1> QED
  BY <1>2, <1>4, <1>5, <1>6 DEF Calm

LEMMA CalmStep ==
  ASSUME Short, IInv, TypeOK', Calm, [Next]_vars
  PROVE  Calm'
<1>0. TypeOK
  BY DEF IInv
<1>1. ASSUME NEW d \in Dirs, NEW seen \in BOOLEAN, Write(d, seen)  PROVE Calm'
  BY <1>1, CalmKept DEF Write, poll, Calm, Running
<1>2. CASE FileChange
  <2>1. CASE ingesting
    BY <1>2, <2>1, CalmKept DEF FileChange, vars, poll, Calm, Running
  <2>2. CASE ~ingesting
    <3>1. PICK dirs : Start("watcher", dirs)
      BY <1>2, <2>2 DEF FileChange
    <3>2. UNCHANGED <<inFlight, pollIn, idle, forced>>
      BY <1>2, <2>2 DEF FileChange, poll
    <3>3. /\ pass'["watcher"] = NewPass(dirs)
          /\ \A s \in Starters : s # "watcher" => pass'[s] = pass[s]
      BY <1>0, <3>1, Names DEF Start, TypeOK
    <3>4. \A s \in Starters : ~pass'[s].hung
      BY <3>3 DEF Calm, NewPass
    <3>5. \A s \in Guarded : Running(s)' => Running(s) /\ pass'[s].age = pass[s].age
      BY <3>3, Names DEF Running
    <3> QED
      BY <3>2, <3>4, <3>5, CalmKept
  <2> QED
    BY <2>1, <2>2
<1>3. CASE Poll
  <2>1. CASE inFlight
    <3>1. UNCHANGED <<inFlight, idle, forced, pass>>
      BY <1>3, <2>1 DEF Poll
    <3> QED
      BY <2>1, <3>1, CalmKept DEF Calm, Running
  <2>2. CASE ~inFlight
    <3>1. inFlight' = TRUE /\ Start("poll", Dirs) /\ UNCHANGED <<idle, forced>> /\ pollIn = 0
      BY <1>3, <2>2 DEF Poll
    <3> QED
      BY <2>2, <3>1, Names, CalmStart
  <2> QED
    BY <2>1, <2>2
<1>4. ASSUME NEW s \in Starters, Read(s)  PROVE Calm'
  <2>1. pass' = [pass EXCEPT ![s].todo = FALSE] /\ UNCHANGED <<inFlight, pollIn, idle, forced>>
    BY <1>4 DEF Read, poll
  <2>2. \A t \in Starters : /\ pass'[t].hung = pass[t].hung /\ pass'[t].age = pass[t].age
                            /\ pass'[t].on = pass[t].on
    BY <1>0, <2>1 DEF TypeOK, Pass
  <2> QED
    BY <2>1, <2>2, Names, CalmKept DEF Calm, Running
<1>5. ASSUME NEW s \in Starters, Finish(s) \/ Fail(s)  PROVE Calm'
  BY <1>5, CalmReturn DEF Finish, Fail
<1>6. ASSUME NEW s \in Starters  PROVE ~Stop(s)
  BY <1>0 DEF Short, TypeOK, Stop
<1>7. CASE UNCHANGED vars
  BY <1>7, CalmKept DEF vars, poll, Calm, Running
<1> QED
  BY <1>1, <1>2, <1>3, <1>4, <1>5, <1>6, <1>7, CalmWatchdog, CalmMinute DEF Next, PassStep

(* main.ts:168: a run "that is legitimately still in flight is left alone". *)
(* It is, and one guarded pass runs at a time for good, when none hangs and *)
(* none lasts as long as INGEST_HANG_MS less POLL_QUIET_MAX_MS: the bound   *)
(* is less than the comment's, since the time is counted from the end of    *)
(* the pass before.                                                         *)
THEOREM LeftAlone ==
  ASSUME MaxHangs = 0, PollMax + MaxAge < Hang
  PROVE  Spec => [](~forced /\ SingleFlight)
<1>1. Init => Calm
  <2> SUFFICES ASSUME Init PROVE Calm
    OBVIOUS
  <2>1. \A s \in Starters : ~pass[s].hung /\ pass[s].age = 0
    BY DEF Init, NoPass, NewPass
  <2>2. idle = 0 /\ PollMax \in Nat /\ inFlight /\ ~forced
    BY ConstantsAssumption DEF Init
  <2> QED
    BY <2>1, <2>2, Names DEF Calm
<1>2. IInv /\ IInv' /\ Calm /\ [Next]_vars => Calm'
  BY CalmStep DEF IInv, Short
<1>3. Calm => ~forced
  BY DEF Calm
<1> QED
  BY <1>1, <1>2, <1>3, Invariant, GuardHolds, PTL DEF Spec
=============================================================================
