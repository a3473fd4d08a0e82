-------------------------------- MODULE Worker --------------------------------
(***************************************************************************)
(* The timers of the worker.  Ingest passes are started by the file        *)
(* watcher (a debounced burst of changes, read in the directories it       *)
(* names), by the poll (a full pass, a while after the last one) and by a  *)
(* watchdog (a full pass, when none has ended for long).  Poll and         *)
(* watchdog share a guard, the watcher has one of its own.  A pass may     *)
(* fail, and may hang without ever returning.                              *)
(*                                                                         *)
(* Time passes in minutes.  A poll or watchdog that is due fires before    *)
(* the minute ends; the debounce of two seconds starts again with every    *)
(* change, and need not fire as long as changes come.                      *)
(***************************************************************************)
EXTENDS Integers, FiniteSets

CONSTANTS
  Dirs,          \* project directories with events
  Probe,         \* a directory whose bytes are followed
  MaxTargeted,   \* MAX_TARGETED_DIRS
  PollMin,       \* POLL_INTERVAL_MS
  PollMax,       \* POLL_QUIET_MAX_MS
  DogTick,       \* WATCHDOG_TICK_MS
  Stall,         \* INGEST_STALL_MS
  Hang,          \* INGEST_HANG_MS
  Dogs,          \* bound: passes of the watchdog at a time
  MaxAge,        \* bound: minutes a pass takes that does not hang
  MaxFailures,   \* bound: passes that throw
  MaxHangs       \* bound: passes that never return

ASSUME ConstantsAssumption ==
  /\ Probe \in Dirs /\ IsFiniteSet(Dirs)
  /\ MaxTargeted \in Nat /\ MaxAge \in Nat /\ MaxFailures \in Nat /\ MaxHangs \in Nat
  /\ PollMin \in Nat \ {0} /\ PollMax \in Nat /\ DogTick \in Nat \ {0}
  /\ Stall \in Nat /\ Hang \in Nat /\ PollMin <= PollMax /\ Stall < Hang
  /\ Dogs \cap {"startup", "poll", "watcher"} = {}

\* runIngestOnce has the guard ingestInFlight, onFileChange the guard ingesting.
Guarded == {"startup", "poll"} \cup Dogs
Starters == Guarded \cup {"watcher"}

VARIABLES
  unread,    \* Probe has bytes no pass has read
  up,        \* the startup pass is over, watchers and timers are set
  changed,   \* changedDirs
  debounce,  \* debounceTimer is set
  ingesting, \* ingesting, of the watcher
  inFlight,  \* ingestInFlight
  pollIn,    \* minutes until the poll, NoTimer while it runs
  delay,     \* pollDelay
  active,    \* a pass has read something since the poll was set
  dogIn,     \* minutes until the watchdog looks
  idle,      \* minutes since a guarded pass ended, up to Hang
  pass,      \* the pass each starter runs
  wait,      \* history: minutes they have waited with no pass that was to read them
  forced,    \* history: the watchdog cleared the guard of a pass
  failures, hangs

files  == <<unread, wait>>
watch  == <<changed, debounce, ingesting>>
poll   == <<pollIn, delay, active>>
bounds == <<failures, hangs>>
vars   == <<files, up, watch, inFlight, poll, dogIn, idle, pass, forced, bounds>>

NoTimer == -1
NoPass == [on |-> FALSE, hung |-> FALSE, todo |-> FALSE, age |-> 0]
NewPass(dirs) == [on |-> TRUE, hung |-> FALSE, todo |-> Probe \in dirs, age |-> 0]
Start(s, dirs) == /\ pass' = [pass EXCEPT ![s] = NewPass(dirs)]
                  /\ wait' = IF Probe \in dirs THEN 0 ELSE wait
Running(s) == pass[s].on
Working(s) == Running(s) /\ ~pass[s].hung
\* Some pass is yet to come to Probe.
Covered == \E s \in Starters : Working(s) /\ pass[s].todo
Least(a, b) == IF a < b THEN a ELSE b
Most(a, b)  == IF a > b THEN a ELSE b
MaxWait == Most(Hang, MaxAge + Stall) + DogTick

\* nextPollDelayMs.
NextDelay(previous, seen) ==
  IF seen THEN PollMin ELSE Least(PollMax, Most(PollMin, previous) * 2)

------------------------------------------------------------------------------
\* main() begins with a full pass; nothing else runs before it is over.
Init ==
  /\ unread \in BOOLEAN /\ wait = 0
  /\ up = FALSE
  /\ changed = {} /\ debounce = FALSE /\ ingesting = FALSE
  /\ inFlight = TRUE
  /\ pollIn = NoTimer /\ delay = PollMin /\ active = FALSE
  /\ dogIn = DogTick /\ idle = 0
  /\ pass = [s \in Starters |-> IF s = "startup" THEN NewPass(Dirs) ELSE NoPass]
  /\ forced = FALSE /\ failures = 0 /\ hangs = 0

\* A harness writes, in Probe or elsewhere.  The watcher may see it
\* (noteChange) or not: before it is set, in a tree it does not watch (a fleet
\* worker's home, a foreign harness), when the event is lost.
Write(d, seen) ==
  /\ unread' = (unread \/ d = Probe)
  /\ IF seen
       THEN /\ up
            /\ changed' = changed \cup {d} /\ debounce' = TRUE
       ELSE UNCHANGED <<changed, debounce>>
  /\ UNCHANGED <<wait, up, ingesting, inFlight, poll, dogIn, idle, pass, forced, bounds>>

\* onFileChange: a pass over the directories that changed, or over all; while
\* a pass of the watcher runs, the timer is set again.
\* Mutant: a burst that comes while a pass runs is dropped.
FileChangeDropped ==
  /\ debounce
  /\ debounce' = FALSE /\ UNCHANGED <<unread, up, inFlight, poll, dogIn, idle, forced, bounds>>
  /\ IF ingesting
       THEN UNCHANGED <<changed, ingesting, pass, wait>>
       ELSE /\ ingesting' = TRUE /\ changed' = {}
            /\ Start("watcher", IF changed # {} /\ Cardinality(changed) <= MaxTargeted THEN changed ELSE Dirs)
FileChange ==
  /\ debounce
  /\ IF ingesting
       THEN UNCHANGED vars
       ELSE /\ ingesting' = TRUE /\ debounce' = FALSE /\ changed' = {}
            /\ Start("watcher", IF changed # {} /\ Cardinality(changed) <= MaxTargeted THEN changed ELSE Dirs)
            /\ UNCHANGED <<unread, up, inFlight, poll, dogIn, idle, forced, bounds>>

\* The poll fires; runIngestOnce returns at once when a pass is in flight.
\* Mutant: the next poll is set without waiting for the pass.
PollAtOnce ==
  /\ pollIn = 0
  /\ pollIn' = NextDelay(delay, active) /\ delay' = NextDelay(delay, active) /\ active' = FALSE
  /\ inFlight' = TRUE
  /\ IF inFlight THEN UNCHANGED <<wait, pass>> ELSE Start("poll", Dirs)
  /\ UNCHANGED <<unread, up, watch, dogIn, idle, forced, bounds>>
Poll ==
  /\ pollIn = 0
  /\ IF inFlight
       THEN /\ pollIn' = NextDelay(delay, active) /\ delay' = NextDelay(delay, active)
            /\ active' = FALSE
            /\ UNCHANGED <<inFlight, wait, pass>>
       ELSE /\ inFlight' = TRUE /\ pollIn' = NoTimer
            /\ Start("poll", Dirs)
            /\ UNCHANGED <<delay, active>>
  /\ UNCHANGED <<unread, up, watch, dogIn, idle, forced, bounds>>

\* The watchdog: a full pass unless one has ended of late, or one is in flight
\* that is not old enough to be abandoned.
Patient == idle <= Stall \/ (inFlight /\ idle < Hang)
\* Mutant: the guard is not cleared first, so runIngestOnce returns at once.
WatchdogGuarded ==
  /\ up /\ dogIn = 0 /\ dogIn' = DogTick
  /\ IF Patient \/ inFlight
       THEN UNCHANGED <<inFlight, wait, pass, forced>>
       ELSE \E s \in Dogs :
              /\ ~Running(s)
              /\ inFlight' = TRUE /\ Start(s, Dirs)
              /\ UNCHANGED forced
  /\ UNCHANGED <<unread, up, watch, poll, idle, bounds>>
Watchdog ==
  /\ up /\ dogIn = 0 /\ dogIn' = DogTick
  /\ IF Patient
       THEN UNCHANGED <<inFlight, wait, pass, forced>>
       ELSE \E s \in Dogs :
              /\ ~Running(s)
              /\ inFlight' = TRUE /\ Start(s, Dirs)
              /\ forced' = (forced \/ inFlight)
  /\ UNCHANGED <<unread, up, watch, poll, idle, bounds>>

\* A pass comes to Probe.
Read(s) ==
  /\ Working(s) /\ pass[s].todo
  /\ unread' = FALSE /\ wait' = 0
  /\ pass' = [pass EXCEPT ![s].todo = FALSE]
  /\ UNCHANGED <<up, watch, inFlight, poll, dogIn, idle, forced, bounds>>

\* What its starter does when a pass ends: the finally of runIngestOnce, with
\* what follows the await, and that of onFileChange.
Return(s, seen) ==
  /\ pass' = [pass EXCEPT ![s] = NoPass]
  /\ IF s \in Guarded
       THEN inFlight' = FALSE /\ idle' = 0 /\ UNCHANGED ingesting
       ELSE ingesting' = FALSE /\ UNCHANGED <<inFlight, idle>>
  /\ up' = (up \/ s = "startup")
  /\ CASE s = "poll" ->
            /\ delay' = NextDelay(delay, active \/ seen) /\ pollIn' = NextDelay(delay, active \/ seen)
            /\ active' = FALSE
       [] s = "startup" -> pollIn' = delay /\ active' = FALSE /\ UNCHANGED delay
       [] OTHER -> active' = (active \/ seen) /\ UNCHANGED <<delay, pollIn>>
  /\ UNCHANGED <<files, changed, debounce, dogIn, forced>>

\* The end of a pass that has read its directories; seen is whether it found
\* new bytes in any of them.
Finish(s) == /\ Working(s) /\ ~pass[s].todo /\ UNCHANGED bounds
             /\ \E seen \in BOOLEAN : Return(s, seen)

\* ingestAll throws: the directories left wait for another pass.
Fail(s) ==
  /\ Working(s) /\ failures < MaxFailures /\ failures' = failures + 1
  /\ Return(s, FALSE) /\ UNCHANGED hangs

\* A pass stops for good, once the worker is up.
Stop(s) ==
  /\ up /\ Working(s) /\ hangs < MaxHangs /\ hangs' = hangs + 1
  /\ pass' = [pass EXCEPT ![s].hung = TRUE]
  /\ UNCHANGED <<files, up, watch, inFlight, poll, dogIn, idle, forced, failures>>

\* A minute passes.
Due == \/ pollIn = 0
       \/ up /\ dogIn = 0
       \/ \E s \in Starters : Working(s) /\ pass[s].age >= MaxAge
Minute ==
  /\ ~Due
  /\ wait' = IF up /\ unread /\ ~Covered THEN Least(wait + 1, MaxWait + 1) ELSE 0
  /\ pollIn' = IF pollIn = NoTimer THEN NoTimer ELSE pollIn - 1
  /\ dogIn' = IF up THEN dogIn - 1 ELSE dogIn
  /\ idle' = IF up THEN Least(idle + 1, Hang) ELSE idle
  /\ pass' = [s \in Starters |-> IF Working(s) THEN [pass[s] EXCEPT !.age = @ + 1] ELSE pass[s]]
  /\ UNCHANGED <<unread, up, watch, inFlight, delay, active, forced, bounds>>

PassStep(s) == Read(s) \/ Finish(s)
Next == \/ \E d \in Dirs, seen \in BOOLEAN : Write(d, seen)
        \/ FileChange \/ Poll \/ Watchdog
        \/ \E s \in Starters : PassStep(s) \/ Fail(s) \/ Stop(s)
        \/ Minute

Spec == Init /\ [][Next]_vars

\* The event loop runs the timers that are due, the passes go on, and so does
\* the clock: passes of the watcher are two seconds apart, a minute has room
\* for a few.  Nothing is assumed of the watcher: its events may be lost, and
\* its debounce may be put off for good.
FairSpec == /\ Spec /\ WF_vars(Poll) /\ WF_vars(Watchdog) /\ SF_vars(Minute)
            /\ \A s \in Starters : WF_vars(PassStep(s))

------------------------------------------------------------------------------
Pass == [on : BOOLEAN, hung : BOOLEAN, todo : BOOLEAN, age : 0..MaxAge]

TypeOK ==
  /\ unread \in BOOLEAN /\ wait \in 0..(MaxWait + 1)
  /\ up \in BOOLEAN /\ debounce \in BOOLEAN /\ ingesting \in BOOLEAN
  /\ inFlight \in BOOLEAN /\ active \in BOOLEAN /\ forced \in BOOLEAN
  /\ changed \subseteq Dirs
  /\ pollIn \in {NoTimer} \cup 0..PollMax /\ delay \in PollMin..PollMax
  /\ dogIn \in 0..DogTick /\ idle \in 0..Hang
  /\ pass \in [Starters -> Pass]
  /\ failures \in 0..MaxFailures /\ hangs \in 0..MaxHangs

\* Once the worker is up there is one poll: its timer is set or its pass has
\* not returned, whatever the watchdog does in between (main.ts:111-123); and
\* until the watchdog clears a guard, one guarded pass at most, with the
\* guard set exactly while it runs (main.ts:64 "single-flight guard").
SingleFlight ==
  /\ up => (pollIn = NoTimer <=> Running("poll"))
  /\ ~forced => /\ Cardinality({s \in Guarded : Running(s)}) <= 1
                /\ inFlight <=> \E s \in Guarded : Running(s)

\* A change the watcher noted has a timer that will look at it, also when it
\* came while a pass ran (watcher.ts:39 "keep what has accumulated and look
\* again after it").
NotedIsTimed == changed # {} => debounce

\* No directory with unread bytes waits longer than this for a pass that is
\* to read it, although events are lost, passes throw and hang, the poll among
\* them: until a hung pass is abandoned, or until a pass that had gone by ends
\* and nothing has ended for Stall since, and up to a tick of the watchdog
\* (main.ts:46 "we want it to self-heal, not wait for a human").
WaitBounded == wait <= MaxWait

\* What is written while the worker is up is read (main.ts:107 "Periodic full
\* ingest as safety net").
EventuallyRead == (up /\ unread) ~> ~unread
=============================================================================
