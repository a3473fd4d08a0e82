---------------------------- MODULE AlertDelivery ----------------------------
(***************************************************************************)
(* Delivery of alerts by rule: the rules a user edits (web server), the    *)
(* alerts that ingest raises and a user clears, and deliverDue, the tick   *)
(* of the worker that queues one row per (alert, rule), sends what is due, *)
(* retries with backoff, keeps a per-hour limit and prunes old rows.       *)
(*                                                                         *)
(* The tick reads the rules once, and each rule's due rows once, and then  *)
(* awaits one HTTP request after the other; rules and alerts change under  *)
(* it.  Every database statement of the tick is a step.  Its time stamps   *)
(* are the time it started at, however long it runs.  An edit of a rule is *)
(* two statements as well, the read of the highest alert id and the write, *)
(* with nothing else of the web server between them: it is synchronous.    *)
(*                                                                         *)
(* Time is kept as ages and waits relative to now, in units of the first   *)
(* backoff; `lag' is how long ago the running tick started.  Test sends    *)
(* (alert_id NULL) take no part in any of this.                            *)
(***************************************************************************)
EXTENDS Integers, FiniteSets

CONSTANTS
  Rules,        \* rule ids, in order: AUTOINCREMENT, so never used again
  MaxAlerts,    \* bound: alerts raised
  Limits,       \* values of rate_limit_per_hour considered
  Matches,      \* sets of alerts a rule may match (metric, window, project)
  MaxAttempts,  \* MAX_ATTEMPTS
  Backoff,      \* wait before attempt n + 1
  Hour,         \* the window of the rate limit
  Keep,         \* KEEP_DELIVERIES_DAYS
  PerTick,      \* DUE_PER_RULE_PER_TICK
  MaxLag,       \* bound: duration of a tick
  LostAnswers,  \* may a request time out after the destination took it?
  MaxEdits,     \* bound: updates of rules
  MaxCrashes    \* bound: worker deaths

Alerts == 1..MaxAlerts
Pairs  == Alerts \X Rules

ASSUME ConstantsAssumption ==
  /\ Rules \subseteq Nat \ {0} /\ IsFiniteSet(Rules)
  /\ MaxAlerts \in Nat /\ Limits \subseteq Nat \ {0} /\ Matches \subseteq SUBSET Alerts
  /\ MaxAttempts \in Nat \ {0} /\ Backoff \in [1..(MaxAttempts - 1) -> Nat \ {0}]
  /\ Hour \in Nat \ {0} /\ Keep \in Nat \ {0} /\ Hour < Keep
  /\ PerTick \in Nat \ {0} /\ MaxLag \in Nat
  /\ LostAnswers \in BOOLEAN /\ MaxEdits \in Nat /\ MaxCrashes \in Nat

VARIABLES
  lastAlert,  \* highest alert id given out
  alerts,     \* rows of alerts
  rule,       \* alert_delivery_rules
  edit,       \* locals of createRule and updateRule, and the alerts raised since
  row,        \* alert_deliveries, by (alert, rule): the unique index; `attempts'
              \* and `wait' count for pending rows, `age' for settled ones
  tick,       \* locals of deliverDue
  taken,      \* history: times the destination took an alert (2 stands for more)
  unsure,     \* history: pairs taken while the worker did not learn of it
  forgotten,  \* history: pairs whose row was deleted
  missed,     \* history: pairs (alert, rule) raised while the rule was not on,
              \* nor its starting point read to switch it on
  overtaken,  \* history: rules changed while a tick ran
  edits, crashes

history == <<taken, unsure, forgotten, missed, overtaken>>
vars == <<lastAlert, alerts, rule, edit, row, tick, history, edits, crashes>>

Statuses == {"none", "pending", "sent", "failed", "rate_limited"}
Settled  == {"sent", "failed", "rate_limited"}
NoRow    == [status |-> "none", attempts |-> 0, wait |-> 0, age |-> 0]
NoRule   == [state |-> "absent", since |-> 0, limit |-> 0, match |-> {}]
GoneRule == [state |-> "gone", since |-> 0, limit |-> 0, match |-> {}]
NoEdit   == [rule |-> 0, to |-> NoRule, raised |-> {}]
On(r)    == rule[r].state = "on"
IdleTick == [at |-> "idle", lag |-> 0, seen |-> [r \in Rules |-> NoRule], rules |-> {},
             rule |-> 0, todo |-> {}, alert |-> 0, took |-> FALSE, sent |-> 0]
OldestAge == Keep + MaxLag + 1

\* Rows as the running tick writes them, stamped with the time it started at.
PendingRow(attempts, wait) ==
  [status |-> "pending", attempts |-> attempts, wait |-> wait - tick.lag, age |-> 0]
SettledAs(status) == [status |-> status, attempts |-> 0, wait |-> 0, age |-> tick.lag]

\* SELECT COALESCE(MAX(id), 0) FROM alerts
MaxAlertId == CHOOSE m \in alerts \cup {0} : \A a \in alerts : a <= m

\* Rows of rule r sent in the hour before a time `ago' units back.
SentInHour(r, ago) ==
  {a \in Alerts : row[<<a, r>>].status = "sent" /\ row[<<a, r>>].age <= Hour + ago}

------------------------------------------------------------------------------
Init ==
  /\ lastAlert = 0 /\ alerts = {}
  /\ rule = [r \in Rules |-> NoRule] /\ edit = NoEdit
  /\ row = [x \in Pairs |-> NoRow]
  /\ tick = IdleTick
  /\ taken = [x \in Pairs |-> 0]
  /\ unsure = {} /\ forgotten = {} /\ missed = {} /\ overtaken = {}
  /\ edits = 0 /\ crashes = 0

\* checkThresholds and raiseSecretAlert insert an alert.
Raise ==
  /\ lastAlert < MaxAlerts
  /\ lastAlert' = lastAlert + 1
  /\ alerts' = alerts \cup {lastAlert + 1}
  /\ missed' = missed \cup {<<lastAlert + 1, r>> : r \in {q \in Rules : ~On(q) /\ edit.rule # q}}
  /\ edit' = IF edit.rule = 0 THEN edit ELSE [edit EXCEPT !.raised = @ \cup {lastAlert + 1}]
  /\ UNCHANGED <<rule, row, tick, taken, unsure, forgotten, overtaken, edits, crashes>>

\* The web server is not in the middle of an edit.
WebIdle == edit.rule = 0

\* clearAlerts: the acknowledged ones, or all of them.
Clear ==
  /\ WebIdle
  /\ \E cleared \in SUBSET alerts \ {{}} : alerts' = alerts \ cleared
  /\ UNCHANGED <<lastAlert, rule, edit, row, tick, history, edits, crashes>>

Overtake(r) == overtaken' = IF tick.at = "idle" THEN overtaken ELSE overtaken \cup {r}

\* createRule reads the highest alert id, the starting point of the new rule.
CreateRule(r) ==
  /\ WebIdle /\ rule[r].state = "absent"
  /\ \A q \in Rules : q < r => rule[q].state # "absent"
  /\ \E state \in {"on", "off"}, limit \in Limits, match \in Matches :
       edit' = [rule |-> r, raised |-> {},
                to |-> [state |-> state, since |-> MaxAlertId, limit |-> limit, match |-> match]]
  /\ UNCHANGED <<lastAlert, alerts, rule, row, tick, history, edits, crashes>>

\* Mutant: switching a rule on keeps its old starting point.
UpdateRuleFromBefore(r) ==
  /\ WebIdle /\ rule[r].state \in {"on", "off"} /\ edits < MaxEdits
  /\ \E state \in {"on", "off"}, limit \in Limits, match \in Matches :
       /\ <<state, limit, match>> # <<rule[r].state, rule[r].limit, rule[r].match>>
       /\ edit' = [rule |-> r, raised |-> {},
                   to |-> [state |-> state, limit |-> limit, match |-> match,
                           since |-> rule[r].since]]
  /\ edits' = edits + 1
  /\ UNCHANGED <<lastAlert, alerts, rule, row, tick, history, crashes>>

\* updateRule reads the rule and, to switch it on again, the highest alert id:
\* its starting point moves to now.
UpdateRule(r) ==
  /\ WebIdle /\ rule[r].state \in {"on", "off"} /\ edits < MaxEdits
  /\ \E state \in {"on", "off"}, limit \in Limits, match \in Matches :
       /\ <<state, limit, match>> # <<rule[r].state, rule[r].limit, rule[r].match>>
       /\ edit' = [rule |-> r, raised |-> {},
                   to |-> [state |-> state, limit |-> limit, match |-> match,
                           since |-> IF state = "on" /\ ~On(r) THEN MaxAlertId ELSE rule[r].since]]
  /\ edits' = edits + 1
  /\ UNCHANGED <<lastAlert, alerts, rule, row, tick, history, crashes>>

\* What was raised meanwhile was missed, if the rule is off before and after.
StillOff == {<<a, edit.rule>> : a \in edit.raised}

\* The INSERT or UPDATE.  An alert the worker raised since the read lies above
\* the starting point, whatever the rule was when it was raised.
WriteRule ==
  /\ edit.rule # 0
  /\ rule' = [rule EXCEPT ![edit.rule] = edit.to]
  /\ missed' = IF On(edit.rule) \/ edit.to.state = "on" THEN missed ELSE missed \cup StillOff
  /\ IF rule[edit.rule].state = "absent" THEN UNCHANGED overtaken ELSE Overtake(edit.rule)
  /\ edit' = NoEdit
  /\ UNCHANGED <<lastAlert, alerts, row, tick, taken, unsure, forgotten, edits, crashes>>

\* The write fails, or the web server dies before it.
EditFails ==
  /\ edit.rule # 0
  /\ missed' = IF On(edit.rule) THEN missed ELSE missed \cup StillOff
  /\ edit' = NoEdit
  /\ UNCHANGED <<lastAlert, alerts, rule, row, tick, taken, unsure, forgotten, overtaken,
                 edits, crashes>>

\* Mutant: the rows stay behind.
DeleteRuleOnly(r) ==
  /\ WebIdle /\ rule[r].state \in {"on", "off"}
  /\ rule' = [rule EXCEPT ![r] = GoneRule]
  /\ Overtake(r)
  /\ UNCHANGED <<lastAlert, alerts, edit, row, tick, taken, unsure, forgotten, missed, edits, crashes>>

\* A rule goes with its rows.
DeleteRule(r) ==
  /\ WebIdle /\ rule[r].state \in {"on", "off"}
  /\ rule' = [rule EXCEPT ![r] = GoneRule]
  /\ row' = [x \in Pairs |-> IF x[2] = r THEN NoRow ELSE row[x]]
  /\ forgotten' = forgotten \cup {x \in Pairs : x[2] = r /\ row[x].status # "none"}
  /\ Overtake(r)
  /\ UNCHANGED <<lastAlert, alerts, edit, tick, taken, unsure, missed, edits, crashes>>

------------------------------------------------------------------------------
(* deliverDue.  A tick that finds no rule switched on does nothing.        *)

StartTick ==
  /\ tick.at = "idle" /\ \E r \in Rules : On(r)
  /\ tick' = [tick EXCEPT !.at = "clear", !.rules = {r \in Rules : On(r)},
                          !.seen = [r \in Rules |-> IF On(r) THEN rule[r] ELSE NoRule]]
  /\ UNCHANGED <<lastAlert, alerts, rule, edit, row, history, edits, crashes>>

\* A pending row whose alert was cleared fails.
FailCleared ==
  /\ tick.at = "clear"
  /\ row' = [x \in Pairs |-> IF row[x].status = "pending" /\ x[1] \notin alerts
                             THEN SettledAs("failed")
                             ELSE row[x]]
  /\ tick' = [tick EXCEPT !.at = "rule"]
  /\ UNCHANGED <<lastAlert, alerts, rule, edit, history, edits, crashes>>

\* Mutant: only rows still pending keep an alert from being queued again.
EnqueueUnlessPending(r) ==
  LET seen == tick.seen[r]
  IN /\ tick.at = "rule" /\ r \in tick.rules /\ \A q \in tick.rules : r <= q
     /\ row' = [x \in Pairs |->
                  IF /\ x[2] = r /\ row[x].status # "pending"
                     /\ x[1] \in alerts \cap seen.match /\ x[1] > seen.since
                  THEN PendingRow(0, 0)
                  ELSE row[x]]
     /\ tick' = [tick EXCEPT !.at = "due", !.rule = r, !.rules = @ \ {r}]
     /\ UNCHANGED <<lastAlert, alerts, rule, edit, history, edits, crashes>>

\* INSERT OR IGNORE of what matches the rule as it was read, in order of id.
Enqueue(r) ==
  LET seen == tick.seen[r]
  IN /\ tick.at = "rule" /\ r \in tick.rules /\ \A q \in tick.rules : r <= q
     /\ row' = [x \in Pairs |->
                  IF /\ x[2] = r /\ row[x].status = "none"
                     /\ x[1] \in alerts \cap seen.match /\ x[1] > seen.since
                  THEN PendingRow(0, 0)
                  ELSE row[x]]
     /\ tick' = [tick EXCEPT !.at = "due", !.rule = r, !.rules = @ \ {r}]
     /\ UNCHANGED <<lastAlert, alerts, rule, edit, history, edits, crashes>>

\* What the tick reads of a row, and the rows due when it started.
Read(r, a) == [alert |-> a, attempts |-> row[<<a, r>>].attempts]
Due(r) == {a \in alerts : row[<<a, r>>].status = "pending" /\ row[<<a, r>>].wait + tick.lag <= 0}

\* At most PerTick of them, and the count of the last hour.
ReadDue ==
  LET due == Due(tick.rule)
  IN /\ tick.at = "due"
     /\ \E first \in SUBSET due :
          /\ Cardinality(first) = IF Cardinality(due) < PerTick THEN Cardinality(due) ELSE PerTick
          /\ tick' = [tick EXCEPT !.at = "row", !.todo = {Read(tick.rule, a) : a \in first},
                                  !.sent = Cardinality(SentInHour(tick.rule, tick.lag))]
     /\ UNCHANGED <<lastAlert, alerts, rule, edit, row, history, edits, crashes>>

\* UPDATE ... WHERE id: nothing when the row went with its rule.
Mark(a, r, new) == row' = [row EXCEPT ![<<a, r>>] = IF @.status = "none" THEN @ ELSE new]

\* Over the limit: dropped, not sent and not retried.
DropOverLimit ==
  /\ tick.at = "row" /\ tick.sent >= tick.seen[tick.rule].limit
  /\ \E d \in tick.todo :
       /\ Mark(d.alert, tick.rule, SettledAs("rate_limited"))
       /\ tick' = [tick EXCEPT !.todo = @ \ {d}]
  /\ UNCHANGED <<lastAlert, alerts, rule, edit, history, edits, crashes>>

Send ==
  /\ tick.at = "row" /\ tick.sent < tick.seen[tick.rule].limit
  /\ \E d \in tick.todo : tick' = [tick EXCEPT !.at = "await", !.alert = d.alert]
  /\ UNCHANGED <<lastAlert, alerts, rule, edit, row, history, edits, crashes>>

\* The destination takes the alert; its answer is still on the way.
Take ==
  /\ tick.at = "await" /\ ~tick.took
  /\ tick' = [tick EXCEPT !.took = TRUE]
  /\ taken' = [taken EXCEPT ![<<tick.alert, tick.rule>>] = IF @ < 2 THEN @ + 1 ELSE @]
  /\ UNCHANGED <<lastAlert, alerts, rule, edit, row, unsure, forgotten, missed, overtaken, edits, crashes>>

\* The await returns and the row is marked by the attempts read before it.
Returned(d, sent) ==
  tick' = [tick EXCEPT !.at = "row", !.todo = @ \ {d}, !.alert = 0, !.took = FALSE, !.sent = sent]

\* Mutant: what the tick itself sent does not count.
DeliveredUncounted ==
  /\ tick.at = "await" /\ tick.took
  /\ \E d \in tick.todo :
       /\ d.alert = tick.alert
       /\ Mark(d.alert, tick.rule, SettledAs("sent"))
       /\ Returned(d, tick.sent)
  /\ UNCHANGED <<lastAlert, alerts, rule, edit, history, edits, crashes>>

\* 2xx.
Delivered ==
  /\ tick.at = "await" /\ tick.took
  /\ \E d \in tick.todo :
       /\ d.alert = tick.alert
       /\ Mark(d.alert, tick.rule, SettledAs("sent"))
       /\ Returned(d, tick.sent + 1)
  /\ UNCHANGED <<lastAlert, alerts, rule, edit, history, edits, crashes>>

\* Mutant: one attempt too many.
UnavailableOnceMore ==
  /\ tick.at = "await" /\ (tick.took => LostAnswers)
  /\ \E d \in tick.todo :
       /\ d.alert = tick.alert
       /\ IF d.attempts < MaxAttempts
          THEN Mark(d.alert, tick.rule, PendingRow(d.attempts + 1, 1))
          ELSE Mark(d.alert, tick.rule, SettledAs("failed"))
       /\ Returned(d, tick.sent)
       /\ unsure' = IF tick.took THEN unsure \cup {<<d.alert, tick.rule>>} ELSE unsure
  /\ UNCHANGED <<lastAlert, alerts, rule, edit, taken, forgotten, missed, overtaken, edits, crashes>>

\* Mutant: the attempts are never written, so the last is never reached.
UnavailableForever ==
  /\ tick.at = "await" /\ (tick.took => LostAnswers)
  /\ \E d \in tick.todo :
       /\ d.alert = tick.alert
       /\ Mark(d.alert, tick.rule, PendingRow(d.attempts, 1))
       /\ Returned(d, tick.sent)
       /\ unsure' = IF tick.took THEN unsure \cup {<<d.alert, tick.rule>>} ELSE unsure
  /\ UNCHANGED <<lastAlert, alerts, rule, edit, taken, forgotten, missed, overtaken, edits, crashes>>

\* A status worth a retry, or a silence: what the destination took may be
\* lost on the way back.
Unavailable ==
  /\ tick.at = "await" /\ (tick.took => LostAnswers)
  /\ \E d \in tick.todo :
       /\ d.alert = tick.alert
       /\ IF d.attempts + 1 < MaxAttempts
          THEN Mark(d.alert, tick.rule, PendingRow(d.attempts + 1, Backoff[d.attempts + 1]))
          ELSE Mark(d.alert, tick.rule, SettledAs("failed"))
       /\ Returned(d, tick.sent)
       /\ unsure' = IF tick.took THEN unsure \cup {<<d.alert, tick.rule>>} ELSE unsure
  /\ UNCHANGED <<lastAlert, alerts, rule, edit, taken, forgotten, missed, overtaken, edits, crashes>>

\* A status that will not change, or a rule no request can be built from.
Refused ==
  /\ tick.at = "await" /\ ~tick.took
  /\ \E d \in tick.todo :
       /\ d.alert = tick.alert
       /\ Mark(d.alert, tick.rule, SettledAs("failed"))
       /\ Returned(d, tick.sent)
  /\ UNCHANGED <<lastAlert, alerts, rule, edit, history, edits, crashes>>

EndRule ==
  /\ tick.at = "row" /\ tick.todo = {}
  /\ tick' = [tick EXCEPT !.at = "rule", !.rule = 0, !.sent = 0, !.seen[tick.rule] = NoRule]
  /\ UNCHANGED <<lastAlert, alerts, rule, edit, row, history, edits, crashes>>

\* After the last rule: rows that are settled and old are deleted.
Prune ==
  LET old == {x \in Pairs : row[x].status \in Settled /\ row[x].age > Keep + tick.lag}
  IN /\ tick.at = "rule" /\ tick.rules = {}
     /\ row' = [x \in Pairs |-> IF x \in old THEN NoRow ELSE row[x]]
     /\ forgotten' = forgotten \cup old
     /\ tick' = IdleTick
     /\ UNCHANGED <<lastAlert, alerts, rule, edit, taken, unsure, missed, overtaken, edits, crashes>>

TickStep ==
  \/ StartTick \/ FailCleared \/ (\E r \in Rules : Enqueue(r)) \/ ReadDue
  \/ DropOverLimit \/ Send \/ Take \/ Delivered \/ Unavailable \/ Refused
  \/ EndRule \/ Prune

\* The worker dies; the row in flight stays as it was.
Crash ==
  /\ crashes < MaxCrashes /\ tick.at # "idle"
  /\ crashes' = crashes + 1
  /\ tick' = IdleTick
  /\ unsure' = IF tick.took THEN unsure \cup {<<tick.alert, tick.rule>>} ELSE unsure
  /\ UNCHANGED <<lastAlert, alerts, rule, edit, row, taken, forgotten, missed, overtaken, edits>>

\* Ages beyond the oldest and waits long over make no difference.
Older(w) ==
  [w EXCEPT !.wait = IF w.status = "pending" /\ w.wait > -MaxLag THEN w.wait - 1 ELSE w.wait,
            !.age  = IF w.status \in Settled /\ w.age < OldestAge THEN w.age + 1 ELSE w.age]

\* A unit of time goes by.
Elapse ==
  /\ tick.at # "idle" => tick.lag < MaxLag
  /\ row' = [x \in Pairs |-> Older(row[x])]
  /\ tick' = IF tick.at = "idle" THEN tick ELSE [tick EXCEPT !.lag = @ + 1]
  /\ UNCHANGED <<lastAlert, alerts, rule, edit, history, edits, crashes>>

Next ==
  \/ Raise \/ Clear \/ Elapse \/ Crash \/ TickStep \/ WriteRule \/ EditFails
  \/ \E r \in Rules : CreateRule(r) \/ UpdateRule(r) \/ DeleteRule(r)

Spec == Init /\ [][Next]_vars

\* The worker's timer starts a tick every 30 s, a request is answered or times
\* out, and time goes by.
FairSpec == Spec /\ WF_vars(TickStep) /\ SF_vars(Elapse)

------------------------------------------------------------------------------
RuleType == [state : {"absent", "on", "off", "gone"}, since : 0..MaxAlerts,
             limit : Limits \cup {0}, match : Matches \cup {{}}]

TypeOK ==
  /\ lastAlert \in 0..MaxAlerts /\ alerts \subseteq 1..lastAlert
  /\ rule \in [Rules -> RuleType]
  /\ edit \in [rule : Rules \cup {0}, to : RuleType, raised : SUBSET Alerts]
  /\ row \in [Pairs -> [status : Statuses, attempts : 0..(MaxAttempts - 1),
                       wait : Int, age : Nat]]
  /\ tick \in [at : {"idle", "clear", "rule", "due", "row", "await"}, lag : 0..MaxLag,
               seen : [Rules -> RuleType], rules : SUBSET Rules, rule : Rules \cup {0},
               todo : SUBSET [alert : Alerts, attempts : 0..(MaxAttempts - 1)],
               alert : Alerts \cup {0}, took : BOOLEAN, sent : Nat]
  /\ taken \in [Pairs -> 0..2]
  /\ unsure \subseteq Pairs /\ forgotten \subseteq Pairs /\ missed \subseteq Pairs
  /\ overtaken \subseteq Rules
  /\ edits \in 0..MaxEdits /\ crashes \in 0..MaxCrashes

\* "never sends one alert to one rule twice", as far as it can be kept: the
\* second time needs a worker that died or saw no answer after the destination
\* took the first, or a row that was deleted.
SentTwiceOnlyWhenUnsure ==
  \A x \in Pairs : taken[x] > 1 => x \in unsure \cup forgotten

\* By its own stamps a rule never goes over the limit the tick read for it,
\* whatever was sent, failed, retried or cleared in the hour.
LimitKept ==
  [][\A r \in Rules :
       Cardinality(SentInHour(r, 0))' > Cardinality(SentInHour(r, 0))
         => Cardinality(SentInHour(r, 0))' <= tick.seen[r].limit]_vars

\* "A new or re-enabled rule delivers what fires from then on": an alert that
\* fired while the rule was off or not there, and before the starting point of
\* the edit that switched it on was read, is never queued for it, unless the
\* rule was changed under a running tick.
MissedStaysMissed ==
  \A x \in missed : row[x].status = "none" \/ x[2] \in overtaken

\* A row outlives its rule only if the rule was deleted under a running tick.
NoOrphans ==
  \A x \in Pairs : row[x].status # "none" /\ rule[x[2]].state = "gone" => x[2] \in overtaken

\* Every alert a rule is for is settled, sooner or later: sent, failed or
\* dropped, unless it is cleared or the rule is changed.
EventuallySettled ==
  \A a \in Alerts, r \in Rules :
    LET For == On(r) /\ a \in alerts \cap rule[r].match /\ a > rule[r].since
    IN For ~> (row[<<a, r>>].status \in Settled \/ ~For)

=============================================================================
