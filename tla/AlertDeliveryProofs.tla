------------------------- MODULE AlertDeliveryProofs -------------------------
(* Theorems about AlertDelivery, for every value of its constants.         *)
EXTENDS AlertDelivery, FiniteSetTheorems, TLAPS

\* A set of alerts has a greatest member: stated of all sets the state can
\* shrink to, so that it is preserved.
Maxima ==
  \A S \in SUBSET (alerts \cup {0}) : S # {} => \E m \in S : \A a \in S : a <= m

\* Where the tick is, and what it may hold there.
Position ==
  /\ tick.at = "idle" => tick.rules = {}
  /\ tick.at \in {"due", "row", "await"} => tick.rule \in Rules \ tick.rules
  /\ tick.at = "await" => tick.alert \in Alerts
  /\ tick.took => tick.at = "await"

LEMMA MaxAlertIdIs ==
  ASSUME TypeOK, Maxima
  PROVE  /\ MaxAlertId \in 0..MaxAlerts
         /\ \A a \in alerts : a <= MaxAlertId
<1> DEFINE S == alerts \cup {0}
<1>1. \E m \in S : \A a \in S : a <= m
  BY DEF Maxima
<1>2. \E m \in S : \A a \in alerts : a <= m
  BY <1>1
<1>3. MaxAlertId \in S /\ \A a \in alerts : a <= MaxAlertId
  BY <1>2 DEF MaxAlertId
<1>4. S \subseteq 0..MaxAlerts
  BY ConstantsAssumption DEF TypeOK
<1> QED
  BY <1>3, <1>4

LEMMA Bounded ==
  ASSUME TypeOK
  PROVE  /\ lastAlert \in Nat
         /\ \A a \in alerts : a \in Nat /\ a <= lastAlert
BY ConstantsAssumption DEF TypeOK

------------------------------------------------------------------------------
(* Types.                                                                  *)

RowType == [status : Statuses, attempts : 0..(MaxAttempts - 1), wait : Int, age : Nat]
TickType ==
  [at : {"idle", "clear", "rule", "due", "row", "await"}, lag : 0..MaxLag,
   seen : [Rules -> RuleType], rules : SUBSET Rules, rule : Rules \cup {0},
   todo : SUBSET [alert : Alerts, attempts : 0..(MaxAttempts - 1)],
   alert : Alerts \cup {0}, took : BOOLEAN, sent : Nat]

LEMMA NoRowType == NoRow \in RowType
BY ConstantsAssumption DEF NoRow, RowType, Statuses

LEMMA NoRuleType == NoRule \in RuleType
BY ConstantsAssumption DEF NoRule, RuleType

EditType == [rule : Rules \cup {0}, to : RuleType, raised : SUBSET Alerts]

LEMMA NoEditType == NoEdit \in EditType
BY NoRuleType DEF NoEdit, EditType

LEMMA IdleTickType == IdleTick \in TickType
BY NoRuleType, ConstantsAssumption DEF IdleTick, TickType

LEMMA WrittenRowType ==
  ASSUME TypeOK
  PROVE  /\ \A status \in Statuses : SettledAs(status) \in RowType
         /\ \A n \in 0..(MaxAttempts - 1), w \in Int : PendingRow(n, w) \in RowType
<1>1. tick.lag \in Nat
  BY ConstantsAssumption DEF TypeOK
<1> QED
  BY <1>1, ConstantsAssumption DEF SettledAs, PendingRow, RowType, Statuses

LEMMA MarkType ==
  ASSUME TypeOK, NEW a, NEW r, NEW new \in RowType, Mark(a, r, new)
  PROVE  row' \in [Pairs -> RowType]
<1>1. row \in [Pairs -> RowType]
  BY DEF TypeOK, RowType
<1> QED
  BY <1>1 DEF Mark

LEMMA ReturnedType ==
  ASSUME TypeOK, NEW d, NEW sent \in Nat, Returned(d, sent)
  PROVE  tick' \in TickType
<1>1. tick \in TickType
  BY DEF TypeOK, TickType
<1> QED
  BY <1>1 DEF Returned, TickType

\* The parts of the type invariant the actions are about.
LEMMA TypeParts ==
  ASSUME TypeOK
  PROVE  /\ row \in [Pairs -> RowType] /\ tick \in TickType
         /\ rule \in [Rules -> RuleType] /\ tick.lag \in Nat /\ tick.sent \in Nat
         /\ tick.rules \subseteq Rules
         /\ edit \in EditType /\ (edit.rule # 0 => edit.rule \in Rules)
BY ConstantsAssumption DEF TypeOK, RowType, TickType, EditType

LEMMA TypeInit == Init => TypeOK
<1> SUFFICES ASSUME Init PROVE TypeOK
  OBVIOUS
<1>1. row \in [Pairs -> RowType]
  BY NoRowType DEF Init
<1>2. tick \in TickType
  BY IdleTickType DEF Init
<1>3. rule \in [Rules -> RuleType]
  BY NoRuleType DEF Init
<1>4. taken \in [Pairs -> 0..2]
  BY DEF Init
<1>5. edit \in EditType
  BY NoEditType DEF Init
<1> QED
  BY <1>1, <1>2, <1>3, <1>4, <1>5, ConstantsAssumption DEF Init, TypeOK, RowType, TickType, EditType

LEMMA NextAlert ==
  ASSUME TypeOK, Raise  PROVE lastAlert + 1 \in Alerts
<1>1. lastAlert \in 0..MaxAlerts
  BY DEF TypeOK
<1>2. lastAlert < MaxAlerts
  BY DEF Raise
<1> QED
  BY <1>1, <1>2, ConstantsAssumption DEF Alerts

\* The actions that leave the tick alone.
LEMMA TypeAround ==
  ASSUME TypeOK, Maxima,
         \/ Raise \/ Clear \/ WriteRule \/ EditFails
         \/ \E r \in Rules : CreateRule(r) \/ UpdateRule(r) \/ DeleteRule(r)
  PROVE  TypeOK'
<1>0. /\ row \in [Pairs -> RowType] /\ tick \in TickType /\ rule \in [Rules -> RuleType]
      /\ edit \in EditType /\ (edit.rule # 0 => edit.rule \in Rules)
  BY TypeParts
<1> USE <1>0, ConstantsAssumption DEF history
<1>1. CASE Raise
  <2>1. missed' \subseteq Pairs
    <3>1. lastAlert + 1 \in Alerts
      BY <1>1, NextAlert
    <3>2. {<<lastAlert + 1, r>> : r \in {q \in Rules : ~On(q) /\ edit.rule # q}} \subseteq Pairs
      BY <3>1 DEF Pairs
    <3> QED
      BY <1>1, <3>2 DEF Raise, TypeOK
  <2>2. lastAlert' \in 0..MaxAlerts /\ alerts' \subseteq 1..lastAlert'
    <3>1. lastAlert < MaxAlerts /\ lastAlert' = lastAlert + 1 /\ alerts' = alerts \cup {lastAlert + 1}
      BY <1>1 DEF Raise
    <3>2. lastAlert \in 0..MaxAlerts /\ alerts \subseteq 1..lastAlert
      BY DEF TypeOK
    <3> QED
      BY <3>1, <3>2
  <2>3. edit' \in EditType
    <3>1. lastAlert + 1 \in Alerts
      BY <1>1, NextAlert
    <3> QED
      BY <1>1, <3>1 DEF Raise, EditType
  <2> QED
    BY <1>1, <2>1, <2>2, <2>3 DEF Raise, TypeOK, EditType
<1>2. CASE Clear
  <2>1. alerts' \subseteq alerts
    BY <1>2 DEF Clear
  <2> QED
    BY <1>2, <2>1 DEF Clear, TypeOK
<1>3. ASSUME NEW r \in Rules, CreateRule(r) PROVE TypeOK'
  <2>1. MaxAlertId \in 0..MaxAlerts
    BY MaxAlertIdIs
  <2>2. edit' \in EditType
    BY <1>3, <2>1 DEF CreateRule, RuleType, EditType
  <2> QED
    BY <1>3, <2>2 DEF CreateRule, TypeOK, EditType
<1>4. ASSUME NEW r \in Rules, UpdateRule(r) PROVE TypeOK'
  <2>1. MaxAlertId \in 0..MaxAlerts /\ rule[r].since \in 0..MaxAlerts
    BY MaxAlertIdIs DEF RuleType
  <2>2. PICK state \in {"on", "off"}, limit \in Limits, match \in Matches :
          edit' = [rule |-> r, raised |-> {},
                   to |-> [state |-> state, limit |-> limit, match |-> match,
                           since |-> IF state = "on" /\ ~On(r) THEN MaxAlertId ELSE rule[r].since]]
    BY <1>4 DEF UpdateRule
  <2>3. edit' \in EditType
    BY <2>1, <2>2 DEF RuleType, EditType
  <2>4. edits' \in 0..MaxEdits
    <3>1. edits < MaxEdits /\ edits' = edits + 1
      BY <1>4 DEF UpdateRule
    <3> QED
      BY <3>1 DEF TypeOK
  <2> QED
    BY <1>4, <2>3, <2>4 DEF UpdateRule, TypeOK, EditType
<1>6. CASE WriteRule \/ EditFails
  <2>1. edit.rule \in Rules /\ StillOff \subseteq Pairs
    BY <1>6 DEF WriteRule, EditFails, StillOff, EditType, Pairs
  <2>2. edit' \in EditType /\ missed' \subseteq Pairs
    BY <1>6, <2>1, NoEditType DEF WriteRule, EditFails, TypeOK
  <2>3. CASE WriteRule
    <3>1. rule' \in [Rules -> RuleType]
      BY <2>1, <2>3 DEF WriteRule, EditType
    <3>2. overtaken' \subseteq Rules
      BY <2>1, <2>3 DEF WriteRule, Overtake, TypeOK
    <3> QED
      BY <2>2, <2>3, <3>1, <3>2 DEF WriteRule, TypeOK, EditType
  <2>4. CASE EditFails
    BY <2>2, <2>4 DEF EditFails, TypeOK, EditType
  <2> QED
    BY <1>6, <2>3, <2>4
<1>5. ASSUME NEW r \in Rules, DeleteRule(r) PROVE TypeOK'
  <2>1. rule' \in [Rules -> RuleType]
    BY <1>5 DEF DeleteRule, RuleType, GoneRule
  <2>2. row' \in [Pairs -> RowType]
    BY <1>5, NoRowType DEF DeleteRule
  <2>3. overtaken' \subseteq Rules
    BY <1>5 DEF DeleteRule, Overtake, TypeOK
  <2>4. forgotten' \subseteq Pairs
    BY <1>5 DEF DeleteRule, TypeOK
  <2> QED
    BY <1>5, <2>1, <2>2, <2>3, <2>4 DEF DeleteRule, TypeOK, RowType
<1> QED
  BY <1>1, <1>2, <1>3, <1>4, <1>5, <1>6

\* The count of ReadDue is a number: rows are finitely many.
LEMMA CountIsNat ==
  ASSUME NEW r, NEW ago
  PROVE  Cardinality(SentInHour(r, ago)) \in Nat
<1>1. IsFiniteSet(Alerts)
  BY FS_Interval, ConstantsAssumption DEF Alerts
<1>2. SentInHour(r, ago) \subseteq Alerts
  BY DEF SentInHour
<1> QED
  BY <1>1, <1>2, FS_Subset, FS_CardinalityType

\* The database statements of a tick.
LEMMA TypeStatements ==
  ASSUME TypeOK, Position,
         StartTick \/ FailCleared \/ (\E r \in Rules : Enqueue(r)) \/ ReadDue \/ EndRule \/ Prune
  PROVE  TypeOK'
<1>0. /\ row \in [Pairs -> RowType] /\ tick \in TickType /\ rule \in [Rules -> RuleType]
  BY TypeParts
<1> USE <1>0, ConstantsAssumption DEF history
<1>1. CASE StartTick
  <2>1. [r \in Rules |-> IF On(r) THEN rule[r] ELSE NoRule] \in [Rules -> RuleType]
    BY NoRuleType
  <2>2. tick' \in TickType
    BY <1>1, <2>1 DEF StartTick, TickType
  <2> QED
    BY <1>1, <2>2 DEF StartTick, TypeOK, TickType
<1>2. CASE FailCleared
  <2>1. row' \in [Pairs -> RowType]
    BY <1>2, WrittenRowType DEF FailCleared, Statuses
  <2>2. tick' \in TickType
    BY <1>2 DEF FailCleared, TickType
  <2> QED
    BY <1>2, <2>1, <2>2 DEF FailCleared, TypeOK, TickType, RowType
<1>3. ASSUME NEW r \in Rules, Enqueue(r) PROVE TypeOK'
  <2>1. PendingRow(0, 0) \in RowType
    BY WrittenRowType
  <2>2. row' \in [Pairs -> RowType]
    BY <1>3, <2>1 DEF Enqueue
  <2>3. tick' \in TickType
    BY <1>3 DEF Enqueue, TickType
  <2> QED
    BY <1>3, <2>2, <2>3 DEF Enqueue, TypeOK, TickType, RowType
<1>4. CASE ReadDue
  <2>1. PICK first \in SUBSET Due(tick.rule) :
          tick' = [tick EXCEPT !.at = "row", !.todo = {Read(tick.rule, a) : a \in first},
                               !.sent = Cardinality(SentInHour(tick.rule, tick.lag))]
    BY <1>4 DEF ReadDue
  <2>2. tick.rule \in Rules
    BY <1>4 DEF ReadDue, Position
  <2>3. {Read(tick.rule, a) : a \in first}
          \in SUBSET [alert : Alerts, attempts : 0..(MaxAttempts - 1)]
    <3>1. \A a \in first : a \in alerts
      BY DEF Due
    <3>2. alerts \subseteq Alerts
      BY DEF TypeOK, Alerts
    <3>3. \A a \in first : row[<<a, tick.rule>>] \in RowType
      BY <3>1, <3>2, <2>2 DEF Pairs
    <3>4. \A a \in first : Read(tick.rule, a) \in [alert : Alerts, attempts : 0..(MaxAttempts - 1)]
      BY <3>1, <3>2, <3>3 DEF Read, RowType
    <3> QED
      BY <3>4
  <2>4. tick' \in TickType
    BY <2>1, <2>3, CountIsNat DEF TickType
  <2> QED
    BY <1>4, <2>4 DEF ReadDue, TypeOK, TickType
<1>5. CASE EndRule
  <2>1. tick' \in TickType
    BY <1>5, NoRuleType DEF EndRule, TickType
  <2> QED
    BY <1>5, <2>1 DEF EndRule, TypeOK, TickType
<1>6. CASE Prune
  <2>1. row' \in [Pairs -> RowType]
    BY <1>6, NoRowType DEF Prune
  <2>2. tick' \in TickType
    BY <1>6, IdleTickType DEF Prune
  <2>3. forgotten' \subseteq Pairs
    BY <1>6 DEF Prune, TypeOK
  <2> QED
    BY <1>6, <2>1, <2>2, <2>3 DEF Prune, TypeOK, TickType, RowType
<1> QED
  BY <1>1, <1>2, <1>3, <1>4, <1>5, <1>6

\* What becomes of the rows read.
LEMMA TypeSending ==
  ASSUME TypeOK, Position,
         DropOverLimit \/ Send \/ Take \/ Delivered \/ Unavailable \/ Refused
  PROVE  TypeOK'
<1>0. /\ row \in [Pairs -> RowType] /\ tick \in TickType
      /\ tick.sent \in Nat
      /\ \A d \in tick.todo : d.alert \in Alerts /\ d.attempts \in 0..(MaxAttempts - 1)
  BY TypeParts DEF TickType
<1> USE <1>0, ConstantsAssumption DEF history
<1>1. CASE DropOverLimit
  <2>1. PICK d \in tick.todo : /\ Mark(d.alert, tick.rule, SettledAs("rate_limited"))
                               /\ tick' = [tick EXCEPT !.todo = @ \ {d}]
    BY <1>1 DEF DropOverLimit
  <2>2. row' \in [Pairs -> RowType]
    BY <2>1, MarkType, WrittenRowType DEF Statuses
  <2>3. tick' \in TickType
    BY <2>1 DEF TickType
  <2> QED
    BY <1>1, <2>2, <2>3 DEF DropOverLimit, TypeOK, RowType, TickType
<1>2. CASE Send
  <2>1. PICK d \in tick.todo : tick' = [tick EXCEPT !.at = "await", !.alert = d.alert]
    BY <1>2 DEF Send
  <2>2. tick' \in TickType
    BY <2>1 DEF TickType
  <2> QED
    BY <1>2, <2>2 DEF Send, TypeOK, TickType
<1>3. CASE Take
  <2>1. tick' \in TickType
    BY <1>3 DEF Take, TickType
  <2>2. taken \in [Pairs -> 0..2]
    BY DEF TypeOK
  <2>3. taken' \in [Pairs -> 0..2]
    <3>1. taken' = [taken EXCEPT ![<<tick.alert, tick.rule>>] = IF @ < 2 THEN @ + 1 ELSE @]
      BY <1>3 DEF Take
    <3>2. <<tick.alert, tick.rule>> \in Pairs
      BY <1>3 DEF Take, Position, Pairs
    <3>3. taken[<<tick.alert, tick.rule>>] \in 0..2
      BY <2>2, <3>2
    <3>4. (IF taken[<<tick.alert, tick.rule>>] < 2
           THEN taken[<<tick.alert, tick.rule>>] + 1
           ELSE taken[<<tick.alert, tick.rule>>]) \in 0..2
      BY <3>3
    <3> QED
      BY <2>2, <3>1, <3>2, <3>4
  <2> QED
    BY <1>3, <2>1, <2>3 DEF Take, TypeOK, TickType
<1>4. CASE Delivered
  <2>1. PICK d \in tick.todo : /\ Mark(d.alert, tick.rule, SettledAs("sent"))
                               /\ Returned(d, tick.sent + 1)
    BY <1>4 DEF Delivered
  <2>2. row' \in [Pairs -> RowType]
    BY <2>1, MarkType, WrittenRowType DEF Statuses
  <2>3. tick' \in TickType
    BY <2>1, ReturnedType
  <2> QED
    BY <1>4, <2>2, <2>3 DEF Delivered, TypeOK, RowType, TickType
<1>5. CASE Unavailable
  <2>1. PICK d \in tick.todo :
          /\ d.alert = tick.alert
          /\ IF d.attempts + 1 < MaxAttempts
             THEN Mark(d.alert, tick.rule, PendingRow(d.attempts + 1, Backoff[d.attempts + 1]))
             ELSE Mark(d.alert, tick.rule, SettledAs("failed"))
          /\ Returned(d, tick.sent)
          /\ unsure' = IF tick.took THEN unsure \cup {<<d.alert, tick.rule>>} ELSE unsure
    BY <1>5 DEF Unavailable
  <2>2. row' \in [Pairs -> RowType]
    <3>1. CASE d.attempts + 1 < MaxAttempts
      <4>1. d.attempts + 1 \in 1..(MaxAttempts - 1)
        BY <3>1
      <4>2. Backoff[d.attempts + 1] \in Int
        BY <4>1
      <4>3. PendingRow(d.attempts + 1, Backoff[d.attempts + 1]) \in RowType
        BY <4>1, <4>2, WrittenRowType
      <4> QED
        BY <2>1, <3>1, <4>3, MarkType
    <3>2. CASE ~(d.attempts + 1 < MaxAttempts)
      BY <2>1, <3>2, MarkType, WrittenRowType DEF Statuses
    <3> QED
      BY <3>1, <3>2
  <2>3. tick' \in TickType
    BY <2>1, ReturnedType
  <2>4. unsure' \subseteq Pairs
    BY <1>5, <2>1 DEF Unavailable, Position, TypeOK, Pairs
  <2> QED
    BY <1>5, <2>2, <2>3, <2>4 DEF Unavailable, TypeOK, RowType, TickType
<1>6. CASE Refused
  <2>1. PICK d \in tick.todo : /\ Mark(d.alert, tick.rule, SettledAs("failed"))
                               /\ Returned(d, tick.sent)
    BY <1>6 DEF Refused
  <2>2. row' \in [Pairs -> RowType]
    BY <2>1, MarkType, WrittenRowType DEF Statuses
  <2>3. tick' \in TickType
    BY <2>1, ReturnedType
  <2> QED
    BY <1>6, <2>2, <2>3 DEF Refused, TypeOK, RowType, TickType
<1> QED
  BY <1>1, <1>2, <1>3, <1>4, <1>5, <1>6

\* Death and time.
LEMMA TypeCrashElapse ==
  ASSUME TypeOK, Position, Crash \/ Elapse
  PROVE  TypeOK'
<1>0. /\ row \in [Pairs -> RowType] /\ tick \in TickType /\ tick.lag \in 0..MaxLag
  BY TypeParts DEF TickType
<1> USE <1>0, ConstantsAssumption DEF history
<1>1. CASE Crash
  <2>1. tick' \in TickType
    BY <1>1, IdleTickType DEF Crash
  <2>2. unsure' \subseteq Pairs
    BY <1>1 DEF Crash, TypeOK, Position, Pairs
  <2>3. crashes' \in 0..MaxCrashes
    BY <1>1 DEF Crash, TypeOK
  <2> QED
    BY <1>1, <2>1, <2>2, <2>3 DEF Crash, TypeOK, TickType
<1>2. CASE Elapse
  <2>1. row' \in [Pairs -> RowType]
    <3>1. ASSUME NEW w \in RowType PROVE Older(w) \in RowType
      <4>1. /\ w.status \in Statuses /\ w.attempts \in 0..(MaxAttempts - 1)
            /\ w.wait \in Int /\ w.age \in Nat
        BY DEF RowType
      <4>2. w = [status |-> w.status, attempts |-> w.attempts, wait |-> w.wait, age |-> w.age]
        BY DEF RowType
      <4>3. (IF w.status = "pending" /\ w.wait > -MaxLag THEN w.wait - 1 ELSE w.wait) \in Int
        BY <4>1
      <4>4. (IF w.status \in Settled /\ w.age < OldestAge THEN w.age + 1 ELSE w.age) \in Nat
        BY <4>1
      <4> QED
        BY <4>1, <4>2, <4>3, <4>4 DEF Older, RowType
    <3> QED
      BY <1>2, <3>1 DEF Elapse
  <2>2. tick' \in TickType
    <3>1. /\ tick.at # "idle" => tick.lag < MaxLag
          /\ tick' = IF tick.at = "idle" THEN tick ELSE [tick EXCEPT !.lag = @ + 1]
      BY <1>2 DEF Elapse
    <3>2. tick.at # "idle" => tick.lag + 1 \in 0..MaxLag
      BY <3>1, SMTT(30)
    <3> QED
      BY <3>1, <3>2 DEF TickType
  <2> QED
    BY <1>2, <2>1, <2>2 DEF Elapse, TypeOK, RowType, TickType
<1> QED
  BY <1>1, <1>2

------------------------------------------------------------------------------
(* The inductive invariant.                                                *)

\* A rule the tick has yet to come to is as the tick read it, unless it was
\* changed under the tick.
TickFresh ==
  \A r \in tick.rules : r \notin overtaken => On(r) /\ tick.seen[r] = rule[r]

\* A missed alert lies before the starting point of the rule, or is cleared.
MissedBehind ==
  \A x \in missed :
    /\ x[1] <= lastAlert
    /\ On(x[2]) => x[1] <= rule[x[2]].since \/ x[1] \notin alerts

\* Rows are for alerts that have been raised.
RowsOfAlerts == \A x \in Pairs : row[x].status # "none" => x[1] <= lastAlert

\* What an edit read: missed alerts lie before the starting point it will write
\* or are cleared, and those raised since are not queued while the rule is off.
EditSound ==
  edit.rule # 0 =>
    /\ edit.to.state \in {"on", "off"}
    /\ edit.to.state = "on" =>
         \A x \in missed : x[2] = edit.rule => x[1] <= edit.to.since \/ x[1] \notin alerts
    /\ \A a \in edit.raised : a <= lastAlert
    /\ ~On(edit.rule) => \A a \in edit.raised :
                            row[<<a, edit.rule>>].status = "none" \/ edit.rule \in overtaken

IInv ==
  /\ TypeOK /\ Maxima /\ Position /\ TickFresh /\ MissedBehind /\ RowsOfAlerts /\ EditSound
  /\ MissedStaysMissed /\ NoOrphans

\* What the steps of the tick have in common that queue nothing.
QueuesNothing ==
  /\ lastAlert' = lastAlert /\ alerts' = alerts /\ rule' = rule /\ edit' = edit
  /\ missed' = missed /\ overtaken' = overtaken
  /\ tick'.rules \subseteq tick.rules
  /\ \A r \in tick'.rules : tick'.seen[r] = tick.seen[r]
  /\ \A x \in Pairs : row'[x].status # "none" => row[x].status # "none"

LEMMA Marking ==
  ASSUME TypeOK, NEW a, NEW r, NEW new, Mark(a, r, new)
  PROVE  \A x \in Pairs : row'[x].status # "none" => row[x].status # "none"
<1>1. row \in [Pairs -> RowType]
  BY TypeParts
<1>2. ASSUME NEW x \in Pairs, row[x].status = "none" PROVE row'[x] = row[x]
  BY <1>1, <1>2 DEF Mark
<1> QED
  BY <1>2

LEMMA Returning ==
  ASSUME TypeOK, NEW d, NEW sent, Returned(d, sent)
  PROVE  /\ tick'.rules = tick.rules /\ tick'.seen = tick.seen /\ tick'.rule = tick.rule
         /\ tick'.at = "row" /\ tick'.took = FALSE
<1>1. tick \in TickType
  BY TypeParts
<1> QED
  BY <1>1 DEF Returned, TickType

LEMMA SendingQueuesNothing ==
  ASSUME TypeOK, Position,
         DropOverLimit \/ Send \/ Take \/ Delivered \/ Unavailable \/ Refused
  PROVE  QueuesNothing /\ Position'
<1>0. tick \in TickType /\ \A d \in tick.todo : d.alert \in Alerts
  BY TypeParts DEF TickType
<1> USE <1>0 DEF history
<1>1. CASE DropOverLimit
  <2>1. PICK d \in tick.todo : /\ Mark(d.alert, tick.rule, SettledAs("rate_limited"))
                               /\ tick' = [tick EXCEPT !.todo = @ \ {d}]
    BY <1>1 DEF DropOverLimit
  <2>2. /\ tick'.rules = tick.rules /\ tick'.seen = tick.seen /\ tick'.rule = tick.rule
        /\ tick'.at = tick.at /\ tick'.took = tick.took /\ tick.at = "row"
    BY <1>1, <2>1 DEF TickType, DropOverLimit
  <2> QED
    BY <1>1, <2>1, <2>2, Marking DEF DropOverLimit, QueuesNothing, Position
<1>2. CASE Send
  <2>1. PICK d \in tick.todo : tick' = [tick EXCEPT !.at = "await", !.alert = d.alert]
    BY <1>2 DEF Send
  <2>2. /\ tick'.rules = tick.rules /\ tick'.seen = tick.seen /\ tick'.rule = tick.rule
        /\ tick'.at = "await" /\ tick'.took = tick.took /\ tick.at = "row"
        /\ tick'.alert \in Alerts
    BY <1>2, <2>1 DEF TickType, Send
  <2> QED
    BY <1>2, <2>2 DEF Send, QueuesNothing, Position
<1>3. CASE Take
  <2>1. /\ tick'.rules = tick.rules /\ tick'.seen = tick.seen /\ tick'.rule = tick.rule
        /\ tick'.at = tick.at /\ tick'.alert = tick.alert /\ tick.at = "await"
    BY <1>3 DEF TickType, Take
  <2> QED
    BY <1>3, <2>1 DEF Take, QueuesNothing, Position
<1>4. CASE Delivered
  <2>1. PICK d \in tick.todo : /\ Mark(d.alert, tick.rule, SettledAs("sent"))
                               /\ Returned(d, tick.sent + 1)
    BY <1>4 DEF Delivered
  <2> QED
    BY <1>4, <2>1, Marking, Returning DEF Delivered, QueuesNothing, Position
<1>5. CASE Unavailable
  <2>1. PICK d \in tick.todo :
          /\ d.alert = tick.alert
          /\ IF d.attempts + 1 < MaxAttempts
             THEN Mark(d.alert, tick.rule, PendingRow(d.attempts + 1, Backoff[d.attempts + 1]))
             ELSE Mark(d.alert, tick.rule, SettledAs("failed"))
          /\ Returned(d, tick.sent)
          /\ unsure' = IF tick.took THEN unsure \cup {<<d.alert, tick.rule>>} ELSE unsure
    BY <1>5 DEF Unavailable
  <2>2. \A x \in Pairs : row'[x].status # "none" => row[x].status # "none"
    <3>1. CASE d.attempts + 1 < MaxAttempts
      <4>1. Mark(d.alert, tick.rule, PendingRow(d.attempts + 1, Backoff[d.attempts + 1]))
        BY <2>1, <3>1, Zenon
      <4> QED
        BY <4>1, Marking
    <3>2. CASE ~(d.attempts + 1 < MaxAttempts)
      <4>1. Mark(d.alert, tick.rule, SettledAs("failed"))
        BY <2>1, <3>2, Zenon
      <4> QED
        BY <4>1, Marking
    <3> QED
      BY <3>1, <3>2
  <2>3. Returned(d, tick.sent)
    BY <2>1
  <2> QED
    BY <1>5, <2>2, <2>3, Returning DEF Unavailable, QueuesNothing, Position
<1>6. CASE Refused
  <2>1. PICK d \in tick.todo : /\ Mark(d.alert, tick.rule, SettledAs("failed"))
                               /\ Returned(d, tick.sent)
    BY <1>6 DEF Refused
  <2> QED
    BY <1>6, <2>1, Marking, Returning DEF Refused, QueuesNothing, Position
<1> QED
  BY <1>1, <1>2, <1>3, <1>4, <1>5, <1>6

LEMMA StatementsQueueNothing ==
  ASSUME TypeOK, Position,
         FailCleared \/ ReadDue \/ EndRule \/ Prune \/ Crash \/ Elapse
  PROVE  QueuesNothing /\ Position'
<1>0. tick \in TickType /\ row \in [Pairs -> RowType]
  BY TypeParts
<1> USE <1>0 DEF history
<1>1. CASE FailCleared
  <2>1. /\ tick'.rules = tick.rules /\ tick'.seen = tick.seen
        /\ tick'.at = "rule" /\ tick'.took = tick.took /\ tick.at = "clear"
    BY <1>1 DEF TickType, FailCleared
  <2>2. \A x \in Pairs : row'[x].status # "none" => row[x].status # "none"
    BY <1>1 DEF FailCleared
  <2> QED
    BY <1>1, <2>1, <2>2 DEF FailCleared, QueuesNothing, Position
<1>2. CASE ReadDue
  <2>1. PICK first \in SUBSET Due(tick.rule) :
          tick' = [tick EXCEPT !.at = "row", !.todo = {Read(tick.rule, a) : a \in first},
                               !.sent = Cardinality(SentInHour(tick.rule, tick.lag))]
    BY <1>2 DEF ReadDue
  <2>2. /\ tick'.rules = tick.rules /\ tick'.seen = tick.seen /\ tick'.rule = tick.rule
        /\ tick'.at = "row" /\ tick'.took = tick.took /\ tick.at = "due"
    BY <1>2, <2>1 DEF TickType, ReadDue
  <2> QED
    BY <1>2, <2>2 DEF ReadDue, QueuesNothing, Position
<1>3. CASE EndRule
  <2>1. /\ tick'.rules = tick.rules /\ tick'.at = "rule" /\ tick'.took = tick.took
        /\ tick'.seen = [tick.seen EXCEPT ![tick.rule] = NoRule] /\ tick.at = "row"
    BY <1>3 DEF TickType, EndRule
  <2>2. \A r \in tick.rules : r # tick.rule /\ r \in Rules
    BY <2>1 DEF Position, TickType
  <2>3. \A r \in tick'.rules : tick'.seen[r] = tick.seen[r]
    BY <2>1, <2>2 DEF TickType
  <2> QED
    BY <1>3, <2>1, <2>3 DEF EndRule, QueuesNothing, Position
<1>4. CASE Prune
  <2>1. tick'.rules = {} /\ tick'.at = "idle" /\ tick'.took = FALSE
    BY <1>4 DEF Prune, IdleTick
  <2>2. \A x \in Pairs : row'[x].status # "none" => row[x].status # "none"
    BY <1>4 DEF Prune, NoRow
  <2> QED
    BY <1>4, <2>1, <2>2 DEF Prune, QueuesNothing, Position
<1>5. CASE Crash
  <2>1. tick'.rules = {} /\ tick'.at = "idle" /\ tick'.took = FALSE
    BY <1>5 DEF Crash, IdleTick
  <2> QED
    BY <1>5, <2>1 DEF Crash, QueuesNothing, Position
<1>6. CASE Elapse
  <2>1. tick' = IF tick.at = "idle" THEN tick ELSE [tick EXCEPT !.lag = @ + 1]
    BY <1>6 DEF Elapse
  <2>2. /\ tick'.rules = tick.rules /\ tick'.seen = tick.seen /\ tick'.rule = tick.rule
        /\ tick'.at = tick.at /\ tick'.took = tick.took /\ tick'.alert = tick.alert
    BY <2>1 DEF TickType
  <2>3. \A w \in RowType : Older(w).status = w.status
    BY DEF Older, RowType
  <2>4. row' = [x \in Pairs |-> Older(row[x])]
    BY <1>6 DEF Elapse
  <2>5. \A x \in Pairs : row'[x].status # "none" => row[x].status # "none"
    BY <2>3, <2>4
  <2> QED
    BY <1>6, <2>2, <2>5 DEF Elapse, QueuesNothing, Position
<1> QED
  BY <1>1, <1>2, <1>3, <1>4, <1>5, <1>6

\* A step that queues nothing keeps what the invariant says of rows and rules.
LEMMA QuietStep ==
  ASSUME IInv, QueuesNothing
  PROVE  Maxima' /\ TickFresh' /\ MissedBehind' /\ RowsOfAlerts' /\ EditSound'
         /\ MissedStaysMissed' /\ NoOrphans'
<1>0. missed \subseteq Pairs /\ tick.rules \subseteq Rules
  BY TypeParts DEF IInv, TypeOK
<1> USE <1>0 DEF IInv, QueuesNothing
<1>1. Maxima'
  BY DEF Maxima
<1>2. TickFresh'
  BY DEF TickFresh, On
<1>3. MissedBehind'
  BY DEF MissedBehind, On
<1>4. RowsOfAlerts'
  BY DEF RowsOfAlerts
<1>5. MissedStaysMissed'
  BY DEF MissedStaysMissed
<1>6. NoOrphans'
  BY DEF NoOrphans
<1>7. EditSound'
  <2>1. \A a \in edit.raised : edit.rule # 0 => <<a, edit.rule>> \in Pairs
    BY TypeParts DEF EditType, Pairs
  <2> QED
    BY <2>1 DEF EditSound, On
<1> QED
  BY <1>1, <1>2, <1>3, <1>4, <1>5, <1>6, <1>7

\* The two steps of the tick that read a rule and use it.
LEMMA StartTickStep ==
  ASSUME IInv, StartTick
  PROVE  IInv'
<1>0. tick \in TickType
  BY TypeParts DEF IInv
<1> USE <1>0 DEF IInv, history
<1>1. TypeOK'
  BY TypeStatements
<1>2. /\ tick'.at = "clear" /\ tick'.rules = {r \in Rules : On(r)} /\ tick'.took = tick.took
      /\ tick'.seen = [r \in Rules |-> IF On(r) THEN rule[r] ELSE NoRule] /\ tick.at = "idle"
  BY DEF StartTick, TickType
<1>3. UNCHANGED <<lastAlert, alerts, rule, edit, row, missed, overtaken>>
  BY DEF StartTick
<1>4. Maxima' /\ MissedBehind' /\ RowsOfAlerts' /\ MissedStaysMissed' /\ NoOrphans' /\ EditSound'
  BY <1>3 DEF Maxima, MissedBehind, RowsOfAlerts, MissedStaysMissed, NoOrphans, EditSound, On
<1>5. TickFresh'
  BY <1>2, <1>3 DEF TickFresh, On
<1>6. Position'
  BY <1>2 DEF Position
<1> QED
  BY <1>1, <1>4, <1>5, <1>6

LEMMA EnqueueStep ==
  ASSUME IInv, NEW r \in Rules, Enqueue(r)
  PROVE  IInv'
<1>0. tick \in TickType /\ missed \subseteq Pairs /\ row \in [Pairs -> RowType]
  BY TypeParts DEF IInv, TypeOK
<1> USE <1>0 DEF IInv, history
<1>1. TypeOK'
  BY TypeStatements
<1>2. /\ tick'.at = "due" /\ tick'.rule = r /\ tick'.rules = tick.rules \ {r}
      /\ tick'.seen = tick.seen /\ tick'.took = tick.took /\ tick.at = "rule"
  BY DEF Enqueue, TickType
<1>3. UNCHANGED <<lastAlert, alerts, rule, edit, missed, overtaken>> /\ r \in tick.rules
  BY DEF Enqueue
<1>4. \A x \in Pairs : row'[x].status # "none" =>
        \/ row[x].status # "none"
        \/ x[2] = r /\ x[1] \in alerts /\ x[1] > tick.seen[r].since
  BY DEF Enqueue
<1>5. Maxima' /\ MissedBehind' /\ Position'
  BY <1>2, <1>3 DEF Maxima, MissedBehind, Position, On
<1>6. TickFresh'
  BY <1>2, <1>3 DEF TickFresh, On
<1>7. RowsOfAlerts'
  BY <1>3, <1>4, Bounded DEF RowsOfAlerts
<1>8. MissedStaysMissed'
  <2> SUFFICES ASSUME NEW x \in missed, row'[x].status # "none", row[x].status = "none",
                      x[2] \notin overtaken
               PROVE  FALSE
    BY <1>3 DEF MissedStaysMissed
  <2>1. x[2] = r /\ x[1] \in alerts /\ x[1] > tick.seen[r].since
    BY <1>4
  <2>2. On(r) /\ tick.seen[r] = rule[r]
    BY <2>1, <1>3 DEF TickFresh
  <2>3. x[1] <= rule[r].since
    BY <2>1, <2>2 DEF MissedBehind
  <2>4. x[1] \in Nat /\ rule[r].since \in Int
    BY <2>1, Bounded, TypeParts DEF RuleType
  <2> QED
    BY <2>1, <2>2, <2>3, <2>4
<1>9. NoOrphans'
  BY <1>3, <1>4 DEF NoOrphans, TickFresh, On
<1>10. EditSound'
  <2> SUFFICES ASSUME edit.rule # 0, ~On(edit.rule), NEW a \in edit.raised,
                      edit.rule \notin overtaken
               PROVE  row'[<<a, edit.rule>>].status = "none"
    BY <1>3 DEF EditSound, On
  <2>1. <<a, edit.rule>> \in Pairs /\ row[<<a, edit.rule>>].status = "none"
    BY TypeParts DEF EditSound, EditType, Pairs
  <2>2. edit.rule # r
    BY <1>3 DEF TickFresh
  <2> QED
    BY <1>4, <2>1, <2>2
<1> QED
  BY <1>1, <1>5, <1>6, <1>7, <1>8, <1>9, <1>10

\* Alerts come and go.
LEMMA RaiseStep ==
  ASSUME IInv, Raise
  PROVE  IInv'
<1>0. /\ missed \subseteq Pairs /\ lastAlert \in Nat
      /\ \A a \in alerts : a \in Nat /\ a <= lastAlert
  BY Bounded DEF IInv, TypeOK
<1> USE <1>0 DEF IInv
<1> DEFINE new == lastAlert + 1
<1>1. TypeOK'
  BY TypeAround
<1>2. /\ lastAlert' = new /\ alerts' = alerts \cup {new} /\ lastAlert < MaxAlerts
      /\ missed' = missed \cup {<<new, q>> : q \in {q \in Rules : ~On(q) /\ edit.rule # q}}
      /\ edit' = IF edit.rule = 0 THEN edit ELSE [edit EXCEPT !.raised = @ \cup {new}]
      /\ UNCHANGED <<rule, row, tick, overtaken>>
  BY DEF Raise
<1>3. Maxima'
  <2> SUFFICES ASSUME NEW S \in SUBSET (alerts' \cup {0}), S # {}
               PROVE  \E m \in S : \A a \in S : a <= m
    BY DEF Maxima
  <2>1. S \subseteq alerts \cup {0, new}
    BY <1>2
  <2>2. CASE new \in S
    <3>1. \A a \in S : a <= new
      BY <2>1
    <3> QED
      BY <2>2, <3>1
  <2>3. CASE new \notin S
    BY <2>1, <2>3 DEF Maxima
  <2> QED
    BY <2>2, <2>3
<1>4. Position' /\ TickFresh' /\ NoOrphans'
  BY <1>2 DEF Position, TickFresh, NoOrphans, On
<1>5. RowsOfAlerts'
  <2> SUFFICES ASSUME NEW x \in Pairs, row[x].status # "none"
               PROVE  x[1] <= new
    BY <1>2 DEF RowsOfAlerts
  <2>1. x[1] <= lastAlert /\ x[1] \in Nat
    BY DEF RowsOfAlerts, Pairs, Alerts
  <2> QED
    BY <2>1
<1>6. ASSUME NEW x \in missed
      PROVE  x[1] <= new /\ x[1] # new /\ x[1] \in Nat
  <2>1. x[1] <= lastAlert /\ x[1] \in Nat
    BY DEF MissedBehind, Pairs, Alerts
  <2> QED
    BY <2>1
<1>7. ASSUME NEW x \in missed', x \notin missed
      PROVE  x[1] = new /\ x[2] \in Rules /\ ~On(x[2]) /\ x[2] # edit.rule /\ x \in Pairs
  <2>1. PICK q \in Rules : ~On(q) /\ edit.rule # q /\ x = <<new, q>>
    BY <1>2, <1>7
  <2>2. new \in Alerts
    BY <1>2, ConstantsAssumption DEF Alerts
  <2> QED
    BY <2>1, <2>2 DEF Pairs
<1>8. MissedBehind'
  <2> SUFFICES ASSUME NEW x \in missed'
               PROVE  /\ x[1] <= new
                      /\ On(x[2]) => x[1] <= rule[x[2]].since \/ x[1] \notin alerts \cup {new}
    BY <1>2 DEF MissedBehind, On
  <2>1. CASE x \in missed
    BY <2>1, <1>6 DEF MissedBehind
  <2>2. CASE x \notin missed
    BY <2>2, <1>7
  <2> QED
    BY <2>1, <2>2
<1>9. MissedStaysMissed'
  <2> SUFFICES ASSUME NEW x \in missed'
               PROVE  row[x].status = "none" \/ x[2] \in overtaken
    BY <1>2 DEF MissedStaysMissed
  <2>1. CASE x \in missed
    BY <2>1 DEF MissedStaysMissed
  <2>2. CASE x \notin missed
    BY <2>2, <1>7 DEF RowsOfAlerts
  <2> QED
    BY <2>1, <2>2
<1>10. EditSound'
  <2> SUFFICES ASSUME edit.rule # 0  PROVE EditSound'
    BY <1>2 DEF EditSound
  <2>1. /\ edit'.rule = edit.rule /\ edit'.to = edit.to /\ edit'.raised = edit.raised \cup {new}
        /\ edit.rule \in Rules /\ edit.raised \subseteq Alerts
    BY <1>2, TypeParts DEF EditType
  <2>2. <<new, edit.rule>> \in Pairs /\ row[<<new, edit.rule>>].status = "none"
    <3>1. new \in Alerts
      BY <1>2, ConstantsAssumption DEF Alerts
    <3> QED
      BY <2>1, <3>1 DEF RowsOfAlerts, Pairs
  <2>3. ASSUME edit.to.state = "on", NEW x \in missed', x[2] = edit.rule
        PROVE  x[1] <= edit.to.since \/ x[1] \notin alerts'
    <3>1. x \in missed
      BY <1>7, <2>3
    <3>2. x[1] <= edit.to.since \/ x[1] \notin alerts
      BY <2>3, <3>1 DEF EditSound
    <3> QED
      BY <1>2, <1>6, <3>1, <3>2
  <2>4. \A a \in edit'.raised : a <= new
    <3>1. \A a \in edit.raised : a \in Nat /\ a <= lastAlert
      BY <2>1 DEF EditSound, Alerts
    <3> QED
      BY <2>1, <3>1
  <2>5. ~On(edit.rule) => \A a \in edit'.raised :
                            row[<<a, edit.rule>>].status = "none" \/ edit.rule \in overtaken
    BY <2>1, <2>2 DEF EditSound
  <2> QED
    BY <1>2, <2>1, <2>3, <2>4, <2>5 DEF EditSound, On
<1> QED
  BY <1>1, <1>3, <1>4, <1>5, <1>8, <1>9, <1>10

LEMMA ClearStep ==
  ASSUME IInv, Clear
  PROVE  IInv'
<1> USE DEF IInv, history
<1>1. TypeOK'
  BY TypeAround
<1>2. /\ alerts' \subseteq alerts /\ edit'.rule = 0
      /\ UNCHANGED <<lastAlert, rule, row, tick, missed, overtaken>>
  BY DEF Clear, WebIdle
<1>3. Maxima'
  BY <1>2 DEF Maxima
<1>4. MissedBehind'
  BY <1>2 DEF MissedBehind, On
<1>5. Position' /\ TickFresh' /\ RowsOfAlerts' /\ MissedStaysMissed' /\ NoOrphans' /\ EditSound'
  BY <1>2 DEF Position, TickFresh, RowsOfAlerts, MissedStaysMissed, NoOrphans, EditSound, On
<1> QED
  BY <1>1, <1>3, <1>4, <1>5

------------------------------------------------------------------------------
(* Rules come, change and go, under a tick or not.                         *)

\* What the read of an edit has to give.
LEMMA EditBegins ==
  ASSUME IInv, TypeOK', UNCHANGED <<lastAlert, alerts, rule, row, tick, missed, overtaken>>,
         edit'.to.state \in {"on", "off"}, edit'.raised = {},
         edit'.to.state = "on" =>
           \A x \in missed : x[2] = edit'.rule => x[1] <= edit'.to.since \/ x[1] \notin alerts
  PROVE  IInv'
<1>1. EditSound'
  BY DEF EditSound
<1>2. Maxima' /\ MissedBehind' /\ RowsOfAlerts' /\ MissedStaysMissed' /\ NoOrphans'
  BY DEF IInv, Maxima, MissedBehind, RowsOfAlerts, MissedStaysMissed, NoOrphans, On
<1>3. Position' /\ TickFresh'
  BY DEF IInv, Position, TickFresh, On
<1> QED
  BY <1>1, <1>2, <1>3 DEF IInv

LEMMA CreateRuleStep ==
  ASSUME IInv, NEW r \in Rules, CreateRule(r)
  PROVE  IInv'
<1>1. TypeOK'
  BY TypeAround DEF IInv
<1>2. PICK state \in {"on", "off"}, limit \in Limits, match \in Matches :
        edit' = [rule |-> r, raised |-> {},
                 to |-> [state |-> state, since |-> MaxAlertId, limit |-> limit, match |-> match]]
  BY DEF CreateRule
<1>3. edit'.to.state \in {"on", "off"} /\ edit'.raised = {} /\ edit'.to.since = MaxAlertId
  BY <1>2
<1>4. \A a \in alerts : a <= MaxAlertId
  BY MaxAlertIdIs DEF IInv
<1>5. UNCHANGED <<lastAlert, alerts, rule, row, tick, missed, overtaken>>
  BY DEF CreateRule, history
<1> QED
  BY <1>1, <1>3, <1>4, <1>5, EditBegins

LEMMA UpdateRuleStep ==
  ASSUME IInv, NEW r \in Rules, UpdateRule(r)
  PROVE  IInv'
<1>1. TypeOK'
  BY TypeAround DEF IInv
<1>2. PICK state \in {"on", "off"}, limit \in Limits, match \in Matches :
        edit' = [rule |-> r, raised |-> {},
                 to |-> [state |-> state, limit |-> limit, match |-> match,
                         since |-> IF state = "on" /\ ~On(r) THEN MaxAlertId ELSE rule[r].since]]
  BY DEF UpdateRule
<1>3. /\ edit'.to.state \in {"on", "off"} /\ edit'.raised = {} /\ edit'.rule = r
      /\ edit'.to.state = "on" => edit'.to.since = IF ~On(r) THEN MaxAlertId ELSE rule[r].since
  BY <1>2
<1>4. \A a \in alerts : a <= MaxAlertId
  BY MaxAlertIdIs DEF IInv
<1>5. UNCHANGED <<lastAlert, alerts, rule, row, tick, missed, overtaken>>
  BY DEF UpdateRule, history
<1>6. edit'.to.state = "on" =>
        \A x \in missed : x[2] = r => x[1] <= edit'.to.since \/ x[1] \notin alerts
  BY <1>3, <1>4 DEF IInv, MissedBehind
<1> QED
  BY <1>1, <1>3, <1>5, <1>6, EditBegins

\* What was raised since the read of an edit whose rule stays off is missed.
LEMMA MissedOff ==
  ASSUME IInv, NEW r \in Rules, r = edit.rule, ~On(r), missed' \subseteq missed \cup StillOff,
         UNCHANGED <<lastAlert, alerts, row>>, overtaken \subseteq overtaken',
         rule'[r].state # "on", \A q \in Rules \ {r} : rule'[q] = rule[q]
  PROVE  MissedBehind' /\ MissedStaysMissed'
<1>0. edit \in EditType /\ r # 0 /\ missed \subseteq Pairs
  BY TypeParts, ConstantsAssumption DEF IInv, TypeOK
<1>1. ASSUME NEW x \in missed', x \notin missed
      PROVE  /\ x[2] = r /\ x[1] <= lastAlert
             /\ row[x].status = "none" \/ r \in overtaken
  <2>1. PICK a \in edit.raised : x = <<a, r>>
    BY <1>1 DEF StillOff
  <2> QED
    BY <1>0, <2>1 DEF IInv, EditSound
<1>2. MissedBehind'
  <2> SUFFICES ASSUME NEW x \in missed'
               PROVE  /\ x[1] <= lastAlert
                      /\ rule'[x[2]].state = "on" => x[1] <= rule'[x[2]].since \/ x[1] \notin alerts
    BY DEF MissedBehind, On
  <2>1. CASE x \notin missed
    BY <1>1, <2>1
  <2>2. CASE x \in missed /\ x[2] = r
    BY <2>2 DEF IInv, MissedBehind
  <2>3. CASE x \in missed /\ x[2] # r
    BY <1>0, <2>3 DEF IInv, MissedBehind, On, Pairs
  <2> QED
    BY <2>1, <2>2, <2>3
<1>3. MissedStaysMissed'
  BY <1>1 DEF IInv, MissedStaysMissed
<1> QED
  BY <1>2, <1>3

LEMMA WriteRuleStep ==
  ASSUME IInv, WriteRule
  PROVE  IInv'
<1> DEFINE r == edit.rule
<1>0. /\ missed \subseteq Pairs /\ tick.rules \subseteq Rules /\ rule \in [Rules -> RuleType]
      /\ r # 0 /\ r \in Rules
  BY TypeParts DEF IInv, TypeOK, WriteRule
<1> USE <1>0 DEF IInv
<1>1. TypeOK'
  BY TypeAround
<1>2. /\ rule' = [rule EXCEPT ![r] = edit.to] /\ edit' = NoEdit
      /\ missed' = IF On(r) \/ edit.to.state = "on" THEN missed ELSE missed \cup StillOff
      /\ \/ rule[r].state = "absent" /\ overtaken' = overtaken
         \/ overtaken' = IF tick.at = "idle" THEN overtaken ELSE overtaken \cup {r}
      /\ UNCHANGED <<lastAlert, alerts, row, tick>>
  BY DEF WriteRule, Overtake
<1>3. /\ \A q \in Rules \ {r} : rule'[q] = rule[q]
      /\ rule'[r] = edit.to /\ rule'[r].state # "gone"
  BY <1>2 DEF EditSound
<1>4. Maxima' /\ Position' /\ RowsOfAlerts' /\ EditSound'
  BY <1>2 DEF Maxima, Position, RowsOfAlerts, EditSound, NoEdit
<1>5. TickFresh'
  BY <1>2, <1>3 DEF TickFresh, On, Position
<1>6. MissedBehind' /\ MissedStaysMissed'
  <2>1. CASE On(r) \/ edit.to.state = "on"
    <3>1. missed' = missed
      BY <1>2, <2>1
    <3>2. MissedStaysMissed'
      BY <1>2, <3>1 DEF MissedStaysMissed
    <3>3. MissedBehind'
      <4> SUFFICES ASSUME NEW x \in missed
                   PROVE  /\ x[1] <= lastAlert
                          /\ On(x[2])' => x[1] <= rule'[x[2]].since \/ x[1] \notin alerts
        BY <1>2, <3>1 DEF MissedBehind
      <4>1. x[2] \in Rules
        BY DEF Pairs
      <4>2. CASE x[2] = r
        BY <4>2, <1>3 DEF MissedBehind, EditSound, On
      <4>3. CASE x[2] # r
        BY <4>1, <4>3, <1>3 DEF MissedBehind, On
      <4> QED
        BY <4>2, <4>3
    <3> QED
      BY <3>2, <3>3
  <2>2. CASE ~(On(r) \/ edit.to.state = "on")
    <3>1. ~On(r) /\ missed' \subseteq missed \cup StillOff /\ overtaken \subseteq overtaken'
      BY <1>2, <2>2
    <3>2. rule'[r].state # "on"
      BY <1>3, <2>2
    <3> HIDE DEF r
    <3>3. r = edit.rule
      BY DEF r
    <3> QED
      BY <1>2, <1>3, <3>1, <3>2, <3>3, MissedOff
  <2> QED
    BY <2>1, <2>2
<1>7. NoOrphans'
  BY <1>2, <1>3 DEF NoOrphans, Pairs
<1> QED
  BY <1>1, <1>4, <1>5, <1>6, <1>7

LEMMA EditFailsStep ==
  ASSUME IInv, EditFails
  PROVE  IInv'
<1>0. edit.rule \in Rules
  BY TypeParts DEF IInv, EditFails
<1> USE <1>0 DEF IInv
<1>1. TypeOK'
  BY TypeAround
<1>2. /\ edit' = NoEdit
      /\ missed' = IF On(edit.rule) THEN missed ELSE missed \cup StillOff
      /\ UNCHANGED <<lastAlert, alerts, rule, row, tick, overtaken>>
  BY DEF EditFails
<1>3. Maxima' /\ Position' /\ RowsOfAlerts' /\ EditSound' /\ TickFresh' /\ NoOrphans'
  BY <1>2 DEF Maxima, Position, RowsOfAlerts, EditSound, NoEdit, TickFresh, NoOrphans, On
<1>4. MissedBehind' /\ MissedStaysMissed'
  <2>1. CASE On(edit.rule)
    BY <1>2, <2>1 DEF MissedBehind, MissedStaysMissed, On
  <2>2. CASE ~On(edit.rule)
    <3>1. rule'[edit.rule].state # "on"
      BY <1>2, <2>2 DEF On
    <3> QED
      BY <1>2, <2>2, <3>1, MissedOff
  <2> QED
    BY <2>1, <2>2
<1> QED
  BY <1>1, <1>3, <1>4

LEMMA DeleteRuleStep ==
  ASSUME IInv, NEW r \in Rules, DeleteRule(r)
  PROVE  IInv'
<1>0. /\ missed \subseteq Pairs /\ tick.rules \subseteq Rules /\ rule \in [Rules -> RuleType]
  BY TypeParts DEF IInv, TypeOK
<1> USE <1>0 DEF IInv, history
<1>1. TypeOK'
  BY TypeAround
<1>2. /\ rule' = [rule EXCEPT ![r] = GoneRule]
      /\ row' = [x \in Pairs |-> IF x[2] = r THEN NoRow ELSE row[x]]
      /\ overtaken' = IF tick.at = "idle" THEN overtaken ELSE overtaken \cup {r}
      /\ UNCHANGED <<lastAlert, alerts, tick, missed>>
  BY DEF DeleteRule, Overtake
<1>3. /\ \A q \in Rules \ {r} : rule'[q] = rule[q]
      /\ rule'[r].state = "gone"
  BY <1>2 DEF GoneRule
<1>4. \A x \in Pairs : row'[x].status # "none" => x[2] # r /\ row[x].status # "none"
  BY <1>2 DEF NoRow
<1>5. Maxima' /\ Position' /\ RowsOfAlerts' /\ MissedStaysMissed'
  BY <1>2, <1>4 DEF Maxima, Position, RowsOfAlerts, MissedStaysMissed
<1>6. TickFresh'
  BY <1>2, <1>3 DEF TickFresh, On, Position
<1>7. MissedBehind'
  BY <1>2, <1>3 DEF MissedBehind, On, Pairs
<1>8. NoOrphans'
  BY <1>2, <1>3, <1>4 DEF NoOrphans, Pairs
<1>9. EditSound'
  BY DEF DeleteRule, WebIdle, EditSound
<1> QED
  BY <1>1, <1>5, <1>6, <1>7, <1>8, <1>9

------------------------------------------------------------------------------
LEMMA InvInit == Init => IInv
<1> SUFFICES ASSUME Init PROVE IInv
  OBVIOUS
<1>1. TypeOK
  BY TypeInit
<1>2. alerts = {} /\ missed = {} /\ \A x \in Pairs : row[x].status = "none"
  BY DEF Init, NoRow
<1>3. tick.at = "idle" /\ tick.rules = {} /\ tick.took = FALSE
  BY DEF Init, IdleTick
<1>4. Maxima
  BY <1>2 DEF Maxima
<1>5. EditSound
  BY DEF Init, NoEdit, EditSound
<1> QED
  BY <1>1, <1>2, <1>3, <1>4, <1>5
     DEF IInv, Position, TickFresh, MissedBehind, RowsOfAlerts, MissedStaysMissed, NoOrphans

LEMMA InvNext == IInv /\ [Next]_vars => IInv'
<1> SUFFICES ASSUME IInv, [Next]_vars PROVE IInv'
  OBVIOUS
<1>1. CASE Raise
  BY <1>1, RaiseStep
<1>2. CASE Clear
  BY <1>2, ClearStep
<1>3. ASSUME NEW r \in Rules, CreateRule(r) \/ UpdateRule(r) \/ DeleteRule(r) PROVE IInv'
  BY <1>3, CreateRuleStep, UpdateRuleStep, DeleteRuleStep
<1>4. CASE StartTick
  BY <1>4, StartTickStep
<1>5. ASSUME NEW r \in Rules, Enqueue(r) PROVE IInv'
  BY <1>5, EnqueueStep
<1>6. CASE FailCleared \/ ReadDue \/ EndRule \/ Prune \/ Crash \/ Elapse
  <2>1. TypeOK'
    BY <1>6, TypeStatements, TypeCrashElapse DEF IInv
  <2>2. QueuesNothing /\ Position'
    BY <1>6, StatementsQueueNothing DEF IInv
  <2> QED
    BY <2>1, <2>2, QuietStep DEF IInv
<1>7. CASE DropOverLimit \/ Send \/ Take \/ Delivered \/ Unavailable \/ Refused
  <2>1. TypeOK'
    BY <1>7, TypeSending DEF IInv
  <2>2. QueuesNothing /\ Position'
    BY <1>7, SendingQueuesNothing DEF IInv
  <2> QED
    BY <2>1, <2>2, QuietStep DEF IInv
<1>8. CASE UNCHANGED vars
  BY <1>8 DEF vars, history, IInv, TypeOK, Maxima, Position, TickFresh, MissedBehind, RowsOfAlerts,
              EditSound, MissedStaysMissed, NoOrphans, On
<1>9. CASE WriteRule \/ EditFails
  BY <1>9, WriteRuleStep, EditFailsStep
<1> QED
  BY <1>1, <1>2, <1>3, <1>4, <1>5, <1>6, <1>7, <1>8, <1>9 DEF Next, TickStep

LEMMA Invariant == Spec => []IInv
BY InvInit, InvNext, PTL DEF Spec

------------------------------------------------------------------------------
(* Sent once.                                                              *)

\* What the tick read of a rule is still pending, or went with its rule.
TodoPending ==
  tick.at \in {"row", "await"} =>
    /\ \A d \in tick.todo :
         \/ row[<<d.alert, tick.rule>>].status = "pending"
         \/ <<d.alert, tick.rule>> \in forgotten
    /\ \A d, e \in tick.todo : d.alert = e.alert => d = e
    /\ tick.at = "await" => \E d \in tick.todo : d.alert = tick.alert

\* What the destination took is marked, unless its mark is on the way or lost.
TakenAccounted ==
  \A x \in Pairs : taken[x] > 0 =>
    \/ row[x].status = "sent"
    \/ x \in unsure \cup forgotten
    \/ tick.took /\ x = <<tick.alert, tick.rule>>

OnceInv == TodoPending /\ TakenAccounted /\ SentTwiceOnlyWhenUnsure

\* A step after which nothing is read or on its way keeps it if no mark goes
\* unremembered.
LEMMA OnceQuiet ==
  ASSUME IInv, OnceInv,
         taken' = taken, unsure \subseteq unsure', forgotten \subseteq forgotten',
         \A x \in Pairs : row[x].status = "sent" => row'[x].status = "sent" \/ x \in forgotten',
         tick.took => <<tick.alert, tick.rule>> \in unsure',
         tick'.at \notin {"row", "await"}
  PROVE  OnceInv'
<1>1. TodoPending'
  BY DEF TodoPending
<1>2. TakenAccounted'
  BY DEF OnceInv, TakenAccounted
<1>3. SentTwiceOnlyWhenUnsure'
  BY DEF OnceInv, SentTwiceOnlyWhenUnsure
<1> QED
  BY <1>1, <1>2, <1>3 DEF OnceInv

\* A step around the tick keeps it if only rows that are forgotten change.
LEMMA OnceAround ==
  ASSUME IInv, OnceInv,
         taken' = taken, unsure' = unsure, forgotten \subseteq forgotten',
         \A x \in Pairs : row[x].status # "none" => row'[x].status = row[x].status \/ x \in forgotten',
         tick'.at = tick.at, tick'.todo = tick.todo, tick'.rule = tick.rule,
         tick'.alert = tick.alert, tick'.took = tick.took
  PROVE  OnceInv'
<1>1. TodoPending'
  <2> SUFFICES ASSUME tick.at \in {"row", "await"}, NEW d \in tick.todo
               PROVE  \/ row'[<<d.alert, tick.rule>>].status = "pending"
                      \/ <<d.alert, tick.rule>> \in forgotten'
    BY DEF OnceInv, TodoPending
  <2>1. <<d.alert, tick.rule>> \in Pairs
    BY TypeParts DEF IInv, Position, TickType, Pairs
  <2>2. \/ row[<<d.alert, tick.rule>>].status = "pending"
        \/ <<d.alert, tick.rule>> \in forgotten
    BY DEF OnceInv, TodoPending
  <2> QED
    BY <2>1, <2>2
<1>2. TakenAccounted'
  <2> SUFFICES ASSUME NEW x \in Pairs, taken[x] > 0
               PROVE  \/ row'[x].status = "sent"
                      \/ x \in unsure \cup forgotten'
                      \/ tick.took /\ x = <<tick.alert, tick.rule>>
    BY DEF TakenAccounted
  <2> QED
    BY DEF OnceInv, TakenAccounted
<1>3. SentTwiceOnlyWhenUnsure'
  BY DEF OnceInv, SentTwiceOnlyWhenUnsure
<1> QED
  BY <1>1, <1>2, <1>3 DEF OnceInv

\* The step that marks row d as `new'.
LEMMA OnceMarked ==
  ASSUME IInv, OnceInv, NEW d \in tick.todo, tick.at \in {"row", "await"},
         NEW new \in RowType, Mark(d.alert, tick.rule, new),
         taken' = taken, unsure \subseteq unsure', forgotten' = forgotten,
         tick'.at = "row", tick'.todo = tick.todo \ {d}, tick'.rule = tick.rule,
         tick.took => \/ <<tick.alert, tick.rule>> \in unsure'
                      \/ d.alert = tick.alert /\ new.status = "sent"
  PROVE  OnceInv'
<1> DEFINE x == <<d.alert, tick.rule>>
<1>0. /\ row \in [Pairs -> RowType] /\ x \in Pairs
      /\ \A e \in tick.todo : <<e.alert, tick.rule>> \in Pairs
  BY TypeParts DEF IInv, Position, TickType, Pairs
<1>1. row' = [row EXCEPT ![x] = IF row[x].status = "none" THEN row[x] ELSE new]
  BY DEF Mark
<1>2. \A y \in Pairs : y # x => row'[y] = row[y]
  BY <1>0, <1>1
<1>3. row[x].status = "pending" \/ x \in forgotten
  BY DEF OnceInv, TodoPending
<1>4. row[x].status = "pending" => row'[x] = new
  BY <1>0, <1>1
<1>5. TodoPending'
  <2> SUFFICES ASSUME NEW e \in tick.todo, e # d
               PROVE  \/ row'[<<e.alert, tick.rule>>].status = "pending"
                      \/ <<e.alert, tick.rule>> \in forgotten
    BY DEF OnceInv, TodoPending
  <2>1. e.alert # d.alert
    BY DEF OnceInv, TodoPending
  <2>2. row'[<<e.alert, tick.rule>>] = row[<<e.alert, tick.rule>>]
    BY <2>1, <1>0, <1>2
  <2> QED
    BY <2>2 DEF OnceInv, TodoPending
<1>6. TakenAccounted'
  <2> SUFFICES ASSUME NEW y \in Pairs, taken[y] > 0
               PROVE  row'[y].status = "sent" \/ y \in unsure' \cup forgotten
    BY DEF TakenAccounted
  <2>1. \/ row[y].status = "sent"
        \/ y \in unsure \cup forgotten
        \/ tick.took /\ y = <<tick.alert, tick.rule>>
    BY DEF OnceInv, TakenAccounted
  <2>2. CASE y # x
    BY <2>1, <2>2, <1>2
  <2>3. CASE y = x
    BY <2>1, <2>3, <1>3, <1>4
  <2> QED
    BY <2>2, <2>3
<1>7. SentTwiceOnlyWhenUnsure'
  BY DEF OnceInv, SentTwiceOnlyWhenUnsure
<1> QED
  BY <1>5, <1>6, <1>7 DEF OnceInv

LEMMA OnceReadDue ==
  ASSUME IInv, OnceInv, ReadDue
  PROVE  OnceInv'
<1>0. tick \in TickType
  BY TypeParts DEF IInv
<1>1. PICK first \in SUBSET Due(tick.rule) :
        tick' = [tick EXCEPT !.at = "row", !.todo = {Read(tick.rule, a) : a \in first},
                             !.sent = Cardinality(SentInHour(tick.rule, tick.lag))]
  BY DEF ReadDue
<1>2. /\ tick'.at = "row" /\ tick'.todo = {Read(tick.rule, a) : a \in first}
      /\ tick'.rule = tick.rule /\ tick'.took = tick.took /\ tick'.alert = tick.alert
  BY <1>0, <1>1 DEF TickType
<1>3. UNCHANGED <<row, taken, unsure, forgotten>>
  BY DEF ReadDue, history
<1>4. TodoPending'
  <2>0. ASSUME NEW d \in tick'.todo
        PROVE  d = Read(tick.rule, d.alert) /\ d.alert \in first
    <3>1. PICK a \in first : d = Read(tick.rule, a)
      BY <1>2
    <3>2. d.alert = a
      BY <3>1 DEF Read
    <3> QED
      BY <3>1, <3>2
  <2>1. \A d \in tick'.todo : row[<<d.alert, tick.rule>>].status = "pending"
    BY <2>0 DEF Due
  <2>2. \A d, e \in tick'.todo : d.alert = e.alert => d = e
    <3> SUFFICES ASSUME NEW d \in tick'.todo, NEW e \in tick'.todo, d.alert = e.alert
                 PROVE  d = e
      OBVIOUS
    <3>1. d = Read(tick.rule, d.alert) /\ e = Read(tick.rule, e.alert)
      BY <2>0
    <3> QED
      BY <3>1, Zenon
  <2> QED
    BY <1>2, <1>3, <2>1, <2>2 DEF TodoPending
<1>5. TakenAccounted' /\ SentTwiceOnlyWhenUnsure'
  BY <1>2, <1>3 DEF OnceInv, TakenAccounted, SentTwiceOnlyWhenUnsure
<1> QED
  BY <1>4, <1>5 DEF OnceInv

LEMMA OnceSend ==
  ASSUME IInv, OnceInv, Send
  PROVE  OnceInv'
<1>0. tick \in TickType
  BY TypeParts DEF IInv
<1>1. PICK d \in tick.todo : tick' = [tick EXCEPT !.at = "await", !.alert = d.alert]
  BY DEF Send
<1>2. /\ tick'.at = "await" /\ tick'.alert = d.alert /\ tick'.todo = tick.todo
      /\ tick'.rule = tick.rule /\ tick'.took = tick.took /\ tick.at = "row"
  BY <1>0, <1>1 DEF TickType, Send
<1>3. UNCHANGED <<row, taken, unsure, forgotten>> /\ ~tick.took
  BY <1>2 DEF Send, history, IInv, Position
<1>4. TodoPending'
  BY <1>2, <1>3 DEF OnceInv, TodoPending
<1>5. TakenAccounted' /\ SentTwiceOnlyWhenUnsure'
  BY <1>2, <1>3 DEF OnceInv, TakenAccounted, SentTwiceOnlyWhenUnsure
<1> QED
  BY <1>4, <1>5 DEF OnceInv

\* Here the alert is taken once more: it was not before, or that is in doubt.
LEMMA OnceTake ==
  ASSUME IInv, OnceInv, Take
  PROVE  OnceInv'
<1> DEFINE x == <<tick.alert, tick.rule>>
<1>0. tick \in TickType /\ taken \in [Pairs -> 0..2]
  BY TypeParts DEF IInv, TypeOK
<1>1. /\ tick'.at = "await" /\ tick'.alert = tick.alert /\ tick'.todo = tick.todo
      /\ tick'.rule = tick.rule /\ tick'.took = TRUE /\ tick.at = "await" /\ ~tick.took
  BY <1>0 DEF TickType, Take
<1>2. UNCHANGED <<row, unsure, forgotten>>
  BY DEF Take
<1>3. taken' = [taken EXCEPT ![x] = IF @ < 2 THEN @ + 1 ELSE @]
  BY DEF Take
<1>4. x \in Pairs /\ \A y \in Pairs : y # x => taken'[y] = taken[y]
  BY <1>0, <1>1, <1>3 DEF IInv, Position, Pairs
<1>5. TodoPending'
  BY <1>1, <1>2 DEF OnceInv, TodoPending
<1>6. TakenAccounted'
  <2> SUFFICES ASSUME NEW y \in Pairs, taken'[y] > 0
               PROVE  row[y].status = "sent" \/ y \in unsure \cup forgotten \/ y = x
    BY <1>1, <1>2 DEF TakenAccounted
  <2>1. CASE y = x
    BY <2>1
  <2>2. CASE y # x
    BY <2>2, <1>1, <1>4 DEF OnceInv, TakenAccounted
  <2> QED
    BY <2>1, <2>2
<1>7. SentTwiceOnlyWhenUnsure'
  <2>1. row[x].status = "pending" \/ x \in forgotten
    BY <1>1 DEF OnceInv, TodoPending
  <2>2. taken[x] > 0 => x \in unsure \cup forgotten
    BY <2>1, <1>1, <1>4 DEF OnceInv, TakenAccounted
  <2>3. taken'[x] > 1 => taken[x] > 0
    <3>1. taken'[x] = IF taken[x] < 2 THEN taken[x] + 1 ELSE taken[x]
      BY <1>0, <1>3, <1>4
    <3>2. taken[x] \in 0..2
      BY <1>0, <1>4
    <3> QED
      BY <3>1, <3>2
  <2> SUFFICES ASSUME NEW y \in Pairs, taken'[y] > 1
               PROVE  y \in unsure \cup forgotten
    BY <1>2 DEF SentTwiceOnlyWhenUnsure
  <2>4. CASE y = x
    BY <2>2, <2>3, <2>4
  <2>5. CASE y # x
    BY <2>5, <1>4 DEF OnceInv, SentTwiceOnlyWhenUnsure
  <2> QED
    BY <2>4, <2>5
<1> QED
  BY <1>5, <1>6, <1>7 DEF OnceInv

LEMMA OnceMarks ==
  ASSUME IInv, OnceInv, DropOverLimit \/ Delivered \/ Unavailable \/ Refused
  PROVE  OnceInv'
<1>0. tick \in TickType /\ \A d \in tick.todo : d.attempts \in 0..(MaxAttempts - 1)
  BY TypeParts DEF IInv, TickType
<1>a. ASSUME NEW d, NEW sent, Returned(d, sent)
      PROVE  tick'.at = "row" /\ tick'.todo = tick.todo \ {d} /\ tick'.rule = tick.rule
  BY <1>0, <1>a DEF Returned, TickType
<1>b. \A status \in Statuses : SettledAs(status) \in RowType /\ SettledAs(status).status = status
  BY WrittenRowType DEF SettledAs, IInv
<1> USE DEF history
<1>1. CASE DropOverLimit
  <2>1. PICK d \in tick.todo : /\ Mark(d.alert, tick.rule, SettledAs("rate_limited"))
                               /\ tick' = [tick EXCEPT !.todo = @ \ {d}]
    BY <1>1 DEF DropOverLimit
  <2>2. /\ tick'.at = "row" /\ tick'.todo = tick.todo \ {d} /\ tick'.rule = tick.rule
        /\ tick.at = "row" /\ ~tick.took
    BY <1>0, <1>1, <2>1 DEF DropOverLimit, TickType, IInv, Position
  <2>3. UNCHANGED <<taken, unsure, forgotten>>
    BY <1>1 DEF DropOverLimit
  <2>4. SettledAs("rate_limited") \in RowType
    BY <1>b DEF Statuses
  <2> QED
    BY <2>1, <2>2, <2>3, <2>4, OnceMarked
<1>2. CASE Delivered
  <2>1. PICK d \in tick.todo : /\ d.alert = tick.alert
                               /\ Mark(d.alert, tick.rule, SettledAs("sent"))
                               /\ Returned(d, tick.sent + 1)
    BY <1>2 DEF Delivered
  <2>2. UNCHANGED <<taken, unsure, forgotten>> /\ tick.at = "await"
    BY <1>2 DEF Delivered
  <2>3. SettledAs("sent") \in RowType /\ SettledAs("sent").status = "sent"
    BY <1>b DEF Statuses
  <2> QED
    BY <2>1, <2>2, <2>3, <1>a, OnceMarked
<1>3. CASE Unavailable
  <2>1. PICK d \in tick.todo :
          /\ d.alert = tick.alert
          /\ IF d.attempts + 1 < MaxAttempts
             THEN Mark(d.alert, tick.rule, PendingRow(d.attempts + 1, Backoff[d.attempts + 1]))
             ELSE Mark(d.alert, tick.rule, SettledAs("failed"))
          /\ Returned(d, tick.sent)
          /\ unsure' = IF tick.took THEN unsure \cup {<<d.alert, tick.rule>>} ELSE unsure
    BY <1>3 DEF Unavailable
  <2>2. UNCHANGED <<taken, forgotten>> /\ tick.at = "await"
    BY <1>3 DEF Unavailable
  <2>3. unsure \subseteq unsure' /\ (tick.took => <<tick.alert, tick.rule>> \in unsure')
    BY <2>1
  <2>4. PICK new \in RowType : Mark(d.alert, tick.rule, new)
    <3>1. CASE d.attempts + 1 < MaxAttempts
      <4>1. d.attempts + 1 \in 1..(MaxAttempts - 1)
        BY <1>0, <3>1, ConstantsAssumption
      <4>2. Backoff[d.attempts + 1] \in Int
        BY <4>1, ConstantsAssumption
      <4>3. PendingRow(d.attempts + 1, Backoff[d.attempts + 1]) \in RowType
        BY <4>1, <4>2, WrittenRowType DEF IInv
      <4> QED
        BY <2>1, <3>1, <4>3
    <3>2. CASE ~(d.attempts + 1 < MaxAttempts)
      BY <2>1, <3>2, <1>b DEF Statuses
    <3> QED
      BY <3>1, <3>2
  <2>5. Returned(d, tick.sent)
    BY <2>1
  <2> QED
    BY <2>2, <2>3, <2>4, <2>5, <1>a, OnceMarked
<1>4. CASE Refused
  <2>1. PICK d \in tick.todo : /\ Mark(d.alert, tick.rule, SettledAs("failed"))
                               /\ Returned(d, tick.sent)
    BY <1>4 DEF Refused
  <2>2. UNCHANGED <<taken, unsure, forgotten>> /\ tick.at = "await" /\ ~tick.took
    BY <1>4 DEF Refused
  <2>3. SettledAs("failed") \in RowType
    BY <1>b DEF Statuses
  <2> QED
    BY <2>1, <2>2, <2>3, <1>a, OnceMarked
<1> QED
  BY <1>1, <1>2, <1>3, <1>4

LEMMA OnceNext == IInv /\ OnceInv /\ [Next]_vars => OnceInv'
<1> SUFFICES ASSUME IInv, OnceInv, [Next]_vars PROVE OnceInv'
  OBVIOUS
<1>0. /\ tick \in TickType /\ row \in [Pairs -> RowType]
      /\ tick.took => tick.at = "await"
  BY TypeParts DEF IInv, Position
<1> USE DEF history
<1>1. CASE \/ Raise \/ Clear \/ WriteRule \/ EditFails
           \/ \E r \in Rules : CreateRule(r) \/ UpdateRule(r)
           \/ UNCHANGED vars
  <2>1. UNCHANGED <<row, tick, taken, unsure, forgotten>>
    BY <1>1 DEF Raise, Clear, WriteRule, EditFails, CreateRule, UpdateRule, vars
  <2> QED
    BY <2>1, OnceAround
<1>2. ASSUME NEW r \in Rules, DeleteRule(r) PROVE OnceInv'
  <2>1. UNCHANGED <<tick, taken, unsure>>
    BY <1>2 DEF DeleteRule
  <2>2. forgotten \subseteq forgotten'
    BY <1>2 DEF DeleteRule
  <2>3. \A x \in Pairs : row[x].status # "none" => row'[x].status = row[x].status \/ x \in forgotten'
    BY <1>2 DEF DeleteRule
  <2> QED
    BY <2>1, <2>2, <2>3, OnceAround
<1>3. CASE Elapse
  <2>1. UNCHANGED <<taken, unsure, forgotten>>
    BY <1>3 DEF Elapse
  <2>2. tick' = IF tick.at = "idle" THEN tick ELSE [tick EXCEPT !.lag = @ + 1]
    BY <1>3 DEF Elapse
  <2>3. /\ tick'.at = tick.at /\ tick'.todo = tick.todo /\ tick'.rule = tick.rule
        /\ tick'.alert = tick.alert /\ tick'.took = tick.took
    BY <1>0, <2>2 DEF TickType
  <2>4. \A w \in RowType : Older(w).status = w.status
    BY DEF Older, RowType
  <2>5. row' = [x \in Pairs |-> Older(row[x])]
    BY <1>3 DEF Elapse
  <2>6. \A x \in Pairs : row'[x].status = row[x].status
    BY <1>0, <2>4, <2>5
  <2> QED
    BY <2>1, <2>3, <2>6, OnceAround
<1>4. CASE StartTick \/ (\E r \in Rules : Enqueue(r)) \/ FailCleared \/ EndRule
  <2>1. UNCHANGED <<taken, unsure, forgotten>> /\ tick.at # "await"
    BY <1>4 DEF StartTick, Enqueue, FailCleared, EndRule
  <2>2. tick'.at \notin {"row", "await"} /\
        \A x \in Pairs : row[x].status = "sent" => row'[x].status = "sent"
    <3>1. CASE StartTick
      BY <1>0, <3>1 DEF StartTick, TickType
    <3>2. ASSUME NEW r \in Rules, Enqueue(r)
          PROVE  /\ tick'.at = "due"
                 /\ \A x \in Pairs : row[x].status = "sent" => row'[x].status = "sent"
      BY <1>0, <3>2 DEF Enqueue, TickType
    <3>3. CASE FailCleared
      BY <1>0, <3>3 DEF FailCleared, TickType
    <3>4. CASE EndRule
      BY <1>0, <3>4 DEF EndRule, TickType
    <3> QED
      BY <1>4, <3>1, <3>2, <3>3, <3>4
  <2> QED
    BY <1>0, <2>1, <2>2, OnceQuiet
<1>5. CASE Prune
  <2>1. UNCHANGED <<taken, unsure>> /\ forgotten \subseteq forgotten' /\ tick.at = "rule"
    BY <1>5 DEF Prune
  <2>2. tick'.at \notin {"row", "await"}
    BY <1>5 DEF Prune, IdleTick
  <2>3. \A x \in Pairs : row[x].status = "sent" => row'[x].status = "sent" \/ x \in forgotten'
    BY <1>5 DEF Prune
  <2> QED
    BY <1>0, <2>1, <2>2, <2>3, OnceQuiet
<1>6. CASE Crash
  <2>1. UNCHANGED <<row, taken, forgotten>>
    BY <1>6 DEF Crash
  <2>2. unsure \subseteq unsure' /\ (tick.took => <<tick.alert, tick.rule>> \in unsure')
    BY <1>6 DEF Crash
  <2>3. tick'.at \notin {"row", "await"}
    BY <1>6 DEF Crash, IdleTick
  <2> QED
    BY <2>1, <2>2, <2>3, OnceQuiet
<1> QED
  BY <1>1, <1>2, <1>3, <1>4, <1>5, <1>6, OnceReadDue, OnceSend, OnceTake, OnceMarks
     DEF Next, TickStep

LEMMA OnceInit == Init => OnceInv
BY DEF Init, IdleTick, OnceInv, TodoPending, TakenAccounted, SentTwiceOnlyWhenUnsure

LEMMA OnceInvariant == Spec => []OnceInv
<1>1. Init => OnceInv
  BY OnceInit
<1>2. IInv /\ OnceInv /\ [Next]_vars => OnceInv'
  BY OnceNext
<1> QED
  BY <1>1, <1>2, Invariant, PTL DEF Spec

------------------------------------------------------------------------------
(* The limit per hour.  The number a tick holds for its rule is at least   *)
(* that of the rows sent in the hour before the tick began, and it sends   *)
(* only while that number is below the limit.                              *)

SentCounted ==
  tick.at \in {"row", "await"} => Cardinality(SentInHour(tick.rule, tick.lag)) <= tick.sent
RoomLeft == tick.at = "await" => tick.sent < tick.seen[tick.rule].limit
LimitInv == SentCounted /\ RoomLeft

\* What LimitKept says of a step.
WithinLimit ==
  \A r \in Rules :
    Cardinality(SentInHour(r, 0))' > Cardinality(SentInHour(r, 0))
      => Cardinality(SentInHour(r, 0))' <= tick.seen[r].limit

\* No row is stamped as sent, and none is stamped anew.
StampsNone ==
  \A x \in Pairs : row'[x].status = "sent" => row[x].status = "sent" /\ row'[x].age >= row[x].age

LEMMA SentAreAlerts == \A r, ago : SentInHour(r, ago) \subseteq Alerts
BY DEF SentInHour

LEMMA SubsetCounts ==
  ASSUME NEW S \in SUBSET Alerts, NEW T \in SUBSET Alerts
  PROVE  /\ Cardinality(S) \in Nat /\ Cardinality(T) \in Nat
         /\ S \subseteq T => Cardinality(S) <= Cardinality(T)
         /\ \A a : S \subseteq T \cup {a} => Cardinality(S) <= Cardinality(T) + 1
<1>1. IsFiniteSet(Alerts)
  BY FS_Interval, ConstantsAssumption DEF Alerts
<1>2. IsFiniteSet(S) /\ IsFiniteSet(T)
  BY <1>1, FS_Subset
<1>3. Cardinality(S) \in Nat /\ Cardinality(T) \in Nat
  BY <1>2, FS_CardinalityType
<1>4. S \subseteq T => Cardinality(S) <= Cardinality(T)
  BY <1>2, FS_Subset
<1>5. ASSUME NEW a, S \subseteq T \cup {a}  PROVE Cardinality(S) <= Cardinality(T) + 1
  <2>1. /\ IsFiniteSet(T \cup {a})
        /\ Cardinality(T \cup {a}) = IF a \in T THEN Cardinality(T) ELSE Cardinality(T) + 1
    BY <1>2, FS_AddElement
  <2>2. Cardinality(S) <= Cardinality(T \cup {a})
    BY <1>5, <2>1, FS_Subset
  <2> QED
    BY <1>3, <2>1, <2>2
<1> QED
  BY <1>3, <1>4, <1>5

\* The rows of an hour before now are among those of an hour before the tick.
LEMMA HourWithinLag ==
  ASSUME TypeOK, NEW r \in Rules, NEW ago \in Nat
  PROVE  SentInHour(r, 0) \subseteq SentInHour(r, ago)
<1>1. \A a \in Alerts : row[<<a, r>>] \in RowType
  BY TypeParts DEF Pairs
<1>2. Hour \in Nat
  BY ConstantsAssumption
<1>3. \A a \in Alerts : row[<<a, r>>].age \in Nat
  BY <1>1 DEF RowType
<1> QED
  BY <1>2, <1>3 DEF SentInHour

\* Without a new stamp no hour has more rows.
LEMMA NoneAdded ==
  ASSUME TypeOK, TypeOK', StampsNone, NEW r \in Rules, NEW ago \in Nat
  PROVE  {a \in Alerts : row'[<<a, r>>].status = "sent" /\ row'[<<a, r>>].age <= Hour + ago}
           \subseteq SentInHour(r, ago)
<1>1. row \in [Pairs -> RowType] /\ row' \in [Pairs -> RowType] /\ Hour \in Nat
  BY TypeParts, ConstantsAssumption DEF TypeOK, RowType
<1>2. \A a \in Alerts : /\ <<a, r>> \in Pairs
                        /\ row[<<a, r>>].age \in Nat /\ row'[<<a, r>>].age \in Nat
  BY <1>1 DEF Pairs, RowType
<1> QED
  BY <1>1, <1>2 DEF StampsNone, SentInHour

LEMMA StampsNoneKeepsLimit ==
  ASSUME TypeOK, TypeOK', StampsNone
  PROVE  WithinLimit
<1> SUFFICES ASSUME NEW r \in Rules
             PROVE  ~(Cardinality(SentInHour(r, 0))' > Cardinality(SentInHour(r, 0)))
  BY DEF WithinLimit
<1> DEFINE S == {a \in Alerts : row'[<<a, r>>].status = "sent" /\ row'[<<a, r>>].age <= Hour + 0}
<1>1. SentInHour(r, 0)' = S
  BY DEF SentInHour
<1>2. S \subseteq SentInHour(r, 0)
  BY NoneAdded
<1> HIDE DEF S
<1>3. S \in SUBSET Alerts /\ SentInHour(r, 0) \in SUBSET Alerts
  BY <1>2, SentAreAlerts
<1>4. Cardinality(S) <= Cardinality(SentInHour(r, 0)) /\ Cardinality(S) \in Nat
      /\ Cardinality(SentInHour(r, 0)) \in Nat
  BY <1>2, <1>3, SubsetCounts
<1>5. Cardinality(SentInHour(r, 0))' = Cardinality(S)
  BY <1>1
<1> QED
  BY <1>4, <1>5

\* Steps that stamp nothing and leave the count of the tick alone, or end it.
LEMMA LimitAround ==
  ASSUME IInv, TypeOK', LimitInv, StampsNone,
         tick'.at \in {"row", "await"} =>
           /\ tick.at \in {"row", "await"} /\ tick'.rule = tick.rule /\ tick'.sent = tick.sent
           /\ tick'.lag = tick.lag /\ tick'.seen = tick.seen,
         tick'.at = "await" => tick.sent < tick.seen[tick.rule].limit
  PROVE  LimitInv'
<1>1. ASSUME tick'.at \in {"row", "await"}
      PROVE  Cardinality(SentInHour(tick.rule, tick.lag)') <= tick'.sent
  <2> DEFINE S == {a \in Alerts : /\ row'[<<a, tick.rule>>].status = "sent"
                                  /\ row'[<<a, tick.rule>>].age <= Hour + tick.lag}
             T == SentInHour(tick.rule, tick.lag)
  <2>1. tick.rule \in Rules /\ tick.lag \in Nat /\ tick.sent \in Nat /\ TypeOK
    BY <1>1, TypeParts DEF IInv, Position
  <2>2. SentInHour(tick.rule, tick.lag)' = S
    BY <1>1 DEF SentInHour
  <2>3. S \subseteq T
    BY <2>1, NoneAdded
  <2>4. T \subseteq Alerts
    BY SentAreAlerts
  <2>5. Cardinality(T) <= tick.sent
    BY <1>1 DEF LimitInv, SentCounted
  <2> HIDE DEF S, T
  <2>6. Cardinality(S) <= Cardinality(T) /\ Cardinality(S) \in Nat /\ Cardinality(T) \in Nat
    BY <2>3, <2>4, SubsetCounts
  <2>7. Cardinality(S) <= tick'.sent
    BY <1>1, <2>1, <2>5, <2>6
  <2> QED
    BY <2>2, <2>7
<1>2. SentCounted'
  BY <1>1 DEF SentCounted
<1>3. RoomLeft'
  BY DEF RoomLeft
<1> QED
  BY <1>2, <1>3 DEF LimitInv

\* A mark that is not "sent".
LEMMA MarkStampsNone ==
  ASSUME TypeOK, NEW a, NEW r, NEW new, Mark(a, r, new), new.status # "sent"
  PROVE  StampsNone
<1>1. row \in [Pairs -> RowType]
  BY TypeParts
<1>2. ASSUME NEW x \in Pairs, row'[x].status = "sent"
      PROVE  row[x].status = "sent" /\ row'[x].age >= row[x].age
  <2>1. row'[x] = row[x]
    BY <1>1, <1>2 DEF Mark
  <2>2. row[x].age \in Nat
    BY <1>1 DEF RowType
  <2> QED
    BY <1>2, <2>1, <2>2
<1> QED
  BY <1>2 DEF StampsNone

LEMMA NothingMarked ==
  ASSUME TypeOK, \A x \in Pairs : row'[x].status = "sent" => row'[x] = row[x]
  PROVE  StampsNone
<1>1. \A x \in Pairs : row[x].age \in Nat
  BY TypeParts DEF RowType
<1> QED
  BY <1>1 DEF StampsNone

\* The count of the last hour as the tick reads it.
LEMMA LimitReadDue ==
  ASSUME IInv, TypeOK', ReadDue
  PROVE  LimitInv' /\ StampsNone
<1>0. tick \in TickType /\ TypeOK
  BY TypeParts DEF IInv
<1>1. /\ tick'.at = "row" /\ tick'.rule = tick.rule /\ tick'.lag = tick.lag /\ row' = row
      /\ tick'.sent = Cardinality(SentInHour(tick.rule, tick.lag))
  BY <1>0 DEF ReadDue, TickType
<1>2. SentInHour(tick.rule, tick.lag)' = SentInHour(tick.rule, tick.lag)
  BY <1>1 DEF SentInHour
<1>3. Cardinality(SentInHour(tick.rule, tick.lag)) \in Nat
  BY CountIsNat
<1>4. SentCounted'
  BY <1>1, <1>2, <1>3 DEF SentCounted
<1>5. RoomLeft'
  BY <1>1 DEF RoomLeft
<1>6. StampsNone
  BY <1>0, <1>1, NothingMarked
<1> QED
  BY <1>4, <1>5, <1>6 DEF LimitInv

\* The one step that stamps a row as sent, while there is room.
LEMMA LimitDelivered ==
  ASSUME IInv, TypeOK', LimitInv, Delivered
  PROVE  LimitInv' /\ WithinLimit
<1> DEFINE q == tick.rule
           T == SentInHour(q, tick.lag)
           S == {a \in Alerts : row'[<<a, q>>].status = "sent" /\ row'[<<a, q>>].age <= Hour + tick.lag}
<1>0. /\ tick \in TickType /\ row \in [Pairs -> RowType] /\ TypeOK
      /\ tick.at = "await" /\ q \in Rules /\ tick.lag \in Nat /\ tick.sent \in Nat
      /\ tick.sent < tick.seen[q].limit /\ Cardinality(T) <= tick.sent
  BY TypeParts DEF IInv, Position, LimitInv, SentCounted, RoomLeft, Delivered
<1>1. PICK d \in tick.todo : Mark(d.alert, q, SettledAs("sent")) /\ Returned(d, tick.sent + 1)
  BY DEF Delivered
<1>2. /\ tick'.at = "row" /\ tick'.rule = q /\ tick'.sent = tick.sent + 1 /\ tick'.lag = tick.lag
  BY <1>0, <1>1 DEF Returned, TickType
<1>3. \A x \in Pairs : x # <<d.alert, q>> => row'[x] = row[x]
  BY <1>0, <1>1 DEF Mark
<1>4. S \subseteq T \cup {d.alert}
  <2> SUFFICES ASSUME NEW a \in S, a # d.alert  PROVE a \in T
    OBVIOUS
  <2>1. <<a, q>> \in Pairs /\ <<a, q>> # <<d.alert, q>>
    BY <1>0 DEF Pairs
  <2>2. row'[<<a, q>>] = row[<<a, q>>]
    BY <1>3, <2>1
  <2> QED
    BY <2>2 DEF SentInHour
<1>5. T \subseteq Alerts /\ S \subseteq Alerts
  BY SentAreAlerts
<1>6. SentInHour(tick.rule, tick.lag)' = S
  BY <1>2 DEF SentInHour
<1>a. tick.seen[q].limit \in Nat
  <2>1. tick.seen[q] \in RuleType
    BY <1>0 DEF TickType
  <2>2. tick.seen[q].limit \in Limits \cup {0}
    BY <2>1 DEF RuleType
  <2>3. Limits \cup {0} \subseteq Nat
    BY ConstantsAssumption
  <2> QED
    BY <2>2, <2>3, Zenon
<1>7. /\ Cardinality(S) <= tick.sent + 1 /\ Cardinality(S) \in Nat
      /\ Cardinality(S) <= tick.seen[q].limit
  <2> HIDE DEF S, T, q
  <2>1. Cardinality(S) <= Cardinality(T) + 1 /\ Cardinality(S) \in Nat /\ Cardinality(T) \in Nat
    BY <1>4, <1>5, SubsetCounts
  <2> QED
    BY <1>0, <1>a, <2>1
<1>8. LimitInv'
  <2>1. SentCounted'
    BY <1>2, <1>6, <1>7 DEF SentCounted
  <2>2. RoomLeft'
    BY <1>2 DEF RoomLeft
  <2> QED
    BY <2>1, <2>2 DEF LimitInv
<1>9. WithinLimit
  <2> SUFFICES ASSUME NEW r \in Rules,
                      Cardinality(SentInHour(r, 0))' > Cardinality(SentInHour(r, 0))
               PROVE  Cardinality(SentInHour(r, 0))' <= tick.seen[r].limit
    BY DEF WithinLimit
  <2> DEFINE R == {a \in Alerts : row'[<<a, r>>].status = "sent" /\ row'[<<a, r>>].age <= Hour + 0}
  <2>1. SentInHour(r, 0)' = R
    BY DEF SentInHour
  <2>2. CASE r = q
    <3>1. R \subseteq S
      <4>1. \A a \in Alerts : <<a, r>> \in Pairs
        BY DEF Pairs
      <4>2. \A a \in Alerts : row'[<<a, r>>].age \in Nat
        BY <4>1 DEF TypeOK
      <4> QED
        BY <1>0, <2>2, <4>2, ConstantsAssumption
    <3> HIDE DEF R, S, T
    <3>2. Cardinality(R) <= Cardinality(S) /\ Cardinality(R) \in Nat
      BY <3>1, <1>5, SubsetCounts
    <3>3. Cardinality(R) <= tick.seen[q].limit
      BY <1>7, <1>a, <3>2
    <3> QED
      BY <2>1, <2>2, <3>3
  <2>3. CASE r # q
    <3>1. \A a \in Alerts : <<a, r>> \in Pairs /\ <<a, r>> # <<d.alert, q>>
      BY <2>3 DEF Pairs
    <3>2. \A a \in Alerts : row'[<<a, r>>] = row[<<a, r>>]
      BY <1>3, <3>1
    <3>3. R = SentInHour(r, 0)
      BY <3>2 DEF SentInHour
    <3>4. Cardinality(SentInHour(r, 0)) \in Nat
      BY CountIsNat
    <3> HIDE DEF R
    <3>5. Cardinality(SentInHour(r, 0))' = Cardinality(SentInHour(r, 0))
      BY <2>1, <3>3
    <3> QED
      BY <3>4, <3>5
  <2> QED
    BY <2>2, <2>3
<1> QED
  BY <1>8, <1>9

\* A unit of time makes the rows and the tick older alike.
LEMMA LimitElapse ==
  ASSUME IInv, TypeOK', LimitInv, Elapse
  PROVE  LimitInv' /\ StampsNone
<1>0. /\ tick \in TickType /\ row \in [Pairs -> RowType] /\ TypeOK
      /\ tick.lag \in Nat /\ MaxLag \in Nat /\ Hour \in Nat /\ Keep \in Nat /\ Hour < Keep
  BY TypeParts, ConstantsAssumption DEF IInv
<1>1. row' = [x \in Pairs |-> Older(row[x])]
  BY DEF Elapse
<1>2. \A w \in RowType : /\ Older(w).status = w.status
                         /\ w.age \in Nat
                         /\ w.status = "sent" =>
                              Older(w).age = IF w.age < OldestAge THEN w.age + 1 ELSE w.age
  BY DEF Older, RowType, Settled
<1>3. OldestAge = Keep + MaxLag + 1
  BY DEF OldestAge
<1>4. StampsNone
  <2> SUFFICES ASSUME NEW x \in Pairs, row'[x].status = "sent"
               PROVE  row[x].status = "sent" /\ row'[x].age >= row[x].age
    BY DEF StampsNone
  <2>1. row'[x] = Older(row[x]) /\ row[x] \in RowType
    BY <1>0, <1>1
  <2>2. row[x].status = "sent" /\ row[x].age \in Nat
    BY <1>2, <2>1
  <2>3. row'[x].age = IF row[x].age < OldestAge THEN row[x].age + 1 ELSE row[x].age
    BY <1>2, <2>1, <2>2
  <2> QED
    BY <2>2, <2>3
<1>5. ASSUME tick'.at \in {"row", "await"}
      PROVE  /\ tick.at = tick'.at /\ tick.rule \in Rules /\ tick.lag < MaxLag
             /\ tick'.lag = tick.lag + 1 /\ tick'.rule = tick.rule /\ tick'.sent = tick.sent
             /\ tick'.seen = tick.seen
  <2>1. tick.at # "idle"
    BY <1>5 DEF Elapse
  <2>2. tick' = [tick EXCEPT !.lag = @ + 1] /\ tick.lag < MaxLag
    BY <2>1 DEF Elapse
  <2>3. /\ tick.at = tick'.at /\ tick'.lag = tick.lag + 1 /\ tick'.rule = tick.rule
        /\ tick'.sent = tick.sent /\ tick'.seen = tick.seen
    BY <1>0, <2>2 DEF TickType
  <2> QED
    BY <1>5, <2>2, <2>3 DEF IInv, Position
<1>6. SentCounted'
  <2> SUFFICES ASSUME tick'.at \in {"row", "await"}
               PROVE  Cardinality(SentInHour(tick.rule, tick.lag))' <= tick'.sent
    BY DEF SentCounted
  <2> DEFINE q == tick.rule
             T == SentInHour(q, tick.lag)
             S == {a \in Alerts : row'[<<a, q>>].status = "sent" /\ row'[<<a, q>>].age <= Hour + (tick.lag + 1)}
  <2>1. SentInHour(tick.rule, tick.lag)' = S
    BY <1>5 DEF SentInHour
  <2>2. S \subseteq T
    <3> SUFFICES ASSUME NEW a \in S  PROVE a \in T
      OBVIOUS
    <3> DEFINE x == <<a, q>>
    <3>1. x \in Pairs
      BY <1>5 DEF Pairs
    <3>2. row'[x] = Older(row[x]) /\ row[x] \in RowType
      BY <1>0, <1>1, <3>1
    <3>3. row[x].status = "sent" /\ row[x].age \in Nat
      BY <1>2, <3>2
    <3>4. row'[x].age = IF row[x].age < OldestAge THEN row[x].age + 1 ELSE row[x].age
      BY <1>2, <3>2, <3>3
    <3>5. row'[x].age <= Hour + (tick.lag + 1) /\ tick.lag < MaxLag
      BY <1>5
    <3>6. row[x].age <= Hour + tick.lag
      <4> HIDE DEF x, S, T
      <4>1. CASE row[x].age < OldestAge
        BY <1>0, <3>3, <3>4, <3>5, <4>1
      <4>2. CASE ~(row[x].age < OldestAge)
        BY <1>0, <1>3, <3>3, <3>4, <3>5, <4>2
      <4> QED
        BY <4>1, <4>2
    <3> QED
      BY <3>3, <3>6 DEF SentInHour
  <2>3. T \subseteq Alerts
    BY SentAreAlerts
  <2>4. Cardinality(T) <= tick.sent
    BY <1>5 DEF LimitInv, SentCounted
  <2> HIDE DEF S, T
  <2>5. Cardinality(S) <= Cardinality(T) /\ Cardinality(S) \in Nat /\ Cardinality(T) \in Nat
    BY <2>2, <2>3, SubsetCounts
  <2>6. Cardinality(S) <= tick'.sent
    <3>1. tick.sent \in Nat
      BY <1>0 DEF TickType
    <3> QED
      BY <1>5, <2>4, <2>5, <3>1
  <2> QED
    BY <2>1, <2>6
<1>7. RoomLeft'
  BY <1>5 DEF LimitInv, RoomLeft
<1> QED
  BY <1>4, <1>6, <1>7 DEF LimitInv

LEMMA LimitNext ==
  ASSUME IInv, TypeOK', LimitInv, [Next]_vars
  PROVE  LimitInv' /\ WithinLimit
<1>0. /\ tick \in TickType /\ row \in [Pairs -> RowType] /\ TypeOK
      /\ tick.at \in {"row", "await"} => tick.rule \in Rules
  BY TypeParts DEF IInv, Position
<1> USE DEF history
<1>1. CASE UNCHANGED <<row, tick>>
  <2>1. StampsNone
    BY <1>0, <1>1, NothingMarked
  <2> QED
    BY <1>0, <1>1, <2>1, LimitAround, StampsNoneKeepsLimit DEF LimitInv, RoomLeft
<1>2. ASSUME NEW r \in Rules, DeleteRule(r)  PROVE LimitInv' /\ WithinLimit
  <2>1. row' = [x \in Pairs |-> IF x[2] = r THEN NoRow ELSE row[x]] /\ tick' = tick
    BY <1>2 DEF DeleteRule
  <2>2. NoRow.status # "sent"
    BY DEF NoRow
  <2>3. StampsNone
    BY <1>0, <2>1, <2>2, NothingMarked
  <2> QED
    BY <1>0, <2>1, <2>3, LimitAround, StampsNoneKeepsLimit DEF LimitInv, RoomLeft
<1>3. CASE StartTick \/ EndRule \/ Crash
  <2>1. row' = row /\ tick'.at \notin {"row", "await"}
    <3>1. CASE StartTick
      BY <1>0, <3>1 DEF StartTick, TickType
    <3>2. CASE EndRule
      BY <1>0, <3>2 DEF EndRule, TickType
    <3>3. CASE Crash
      BY <3>3 DEF Crash, IdleTick
    <3> QED
      BY <1>3, <3>1, <3>2, <3>3
  <2>2. StampsNone
    BY <1>0, <2>1, NothingMarked
  <2> QED
    BY <1>0, <2>1, <2>2, LimitAround, StampsNoneKeepsLimit
<1>4. CASE FailCleared \/ Prune \/ \E r \in Rules : Enqueue(r)
  <2>1. tick'.at \notin {"row", "await"}
    <3>1. CASE FailCleared
      BY <1>0, <3>1 DEF FailCleared, TickType
    <3>2. CASE Prune
      BY <3>2 DEF Prune, IdleTick
    <3>3. ASSUME NEW r \in Rules, Enqueue(r)  PROVE tick'.at \notin {"row", "await"}
      BY <1>0, <3>3 DEF Enqueue, TickType
    <3> QED
      BY <1>4, <3>1, <3>2, <3>3
  <2>2. \A status : SettledAs(status).status = status
    BY DEF SettledAs
  <2>3. NoRow.status # "sent" /\ PendingRow(0, 0).status # "sent"
    BY DEF NoRow, PendingRow
  <2>4. \A x \in Pairs : row'[x].status = "sent" => row'[x] = row[x]
    <3>1. CASE FailCleared
      BY <2>2, <3>1 DEF FailCleared
    <3>2. CASE Prune
      BY <2>3, <3>2 DEF Prune
    <3>3. ASSUME NEW r \in Rules, Enqueue(r)
          PROVE  \A x \in Pairs : row'[x].status = "sent" => row'[x] = row[x]
      BY <2>3, <3>3 DEF Enqueue
    <3> QED
      BY <1>4, <3>1, <3>2, <3>3
  <2>5. StampsNone
    BY <1>0, <2>4, NothingMarked
  <2> QED
    BY <1>0, <2>1, <2>5, LimitAround, StampsNoneKeepsLimit
<1>5. CASE ReadDue
  BY <1>0, <1>5, LimitReadDue, StampsNoneKeepsLimit
<1>6. CASE Send \/ Take
  <2>1. /\ row' = row /\ tick'.at = "await" /\ tick.at \in {"row", "await"}
        /\ tick'.rule = tick.rule /\ tick'.sent = tick.sent /\ tick'.lag = tick.lag
        /\ tick'.seen = tick.seen
    BY <1>0, <1>6 DEF Send, Take, TickType
  <2>2. tick.sent < tick.seen[tick.rule].limit
    BY <1>6 DEF Send, Take, LimitInv, RoomLeft
  <2>3. StampsNone
    BY <1>0, <2>1, NothingMarked
  <2> QED
    BY <1>0, <2>1, <2>2, <2>3, LimitAround, StampsNoneKeepsLimit
<1>7. CASE DropOverLimit \/ Unavailable \/ Refused
  <2>1. /\ tick'.at = "row" /\ tick.at \in {"row", "await"} /\ tick'.rule = tick.rule
        /\ tick'.sent = tick.sent /\ tick'.lag = tick.lag /\ tick'.seen = tick.seen
    BY <1>0, <1>7, ZenonT(30) DEF DropOverLimit, Unavailable, Refused, Returned, TickType
  <2>2. \A status : SettledAs(status).status = status
    BY DEF SettledAs
  <2>3. \A n, w : PendingRow(n, w).status = "pending"
    BY DEF PendingRow
  <2>4. \E a, new : Mark(a, tick.rule, new) /\ new.status # "sent"
    <3>1. CASE DropOverLimit
      <4>1. PICK d \in tick.todo : Mark(d.alert, tick.rule, SettledAs("rate_limited"))
        BY <3>1 DEF DropOverLimit
      <4> QED
        BY <4>1, <2>2
    <3>2. CASE Refused
      <4>1. PICK d \in tick.todo : Mark(d.alert, tick.rule, SettledAs("failed"))
        BY <3>2 DEF Refused
      <4> QED
        BY <4>1, <2>2
    <3>3. CASE Unavailable
      <4>1. PICK d \in tick.todo :
              \/ Mark(d.alert, tick.rule, PendingRow(d.attempts + 1, Backoff[d.attempts + 1]))
              \/ Mark(d.alert, tick.rule, SettledAs("failed"))
        BY <3>3 DEF Unavailable
      <4> QED
        BY <4>1, <2>2, <2>3
    <3> QED
      BY <1>7, <3>1, <3>2, <3>3
  <2>5. StampsNone
    BY <1>0, <2>4, MarkStampsNone
  <2> QED
    BY <1>0, <2>1, <2>5, LimitAround, StampsNoneKeepsLimit
<1>8. CASE Delivered
  BY <1>8, LimitDelivered
<1>9. CASE Elapse
  BY <1>0, <1>9, LimitElapse, StampsNoneKeepsLimit
<1>10. CASE \/ Raise \/ Clear \/ WriteRule \/ EditFails
            \/ \E r \in Rules : CreateRule(r) \/ UpdateRule(r)
            \/ UNCHANGED vars
  <2>1. UNCHANGED <<row, tick>>
    BY <1>10 DEF Raise, Clear, WriteRule, EditFails, CreateRule, UpdateRule, vars
  <2> QED
    BY <1>1, <2>1
<1> QED
  BY <1>2, <1>3, <1>4, <1>5, <1>6, <1>7, <1>8, <1>9, <1>10 DEF Next, TickStep

LEMMA LimitInvariant == Spec => []LimitInv
<1>1. Init => LimitInv
  BY DEF Init, IdleTick, LimitInv, SentCounted, RoomLeft
<1>2. IInv /\ IInv' /\ LimitInv /\ [Next]_vars => LimitInv'
  BY LimitNext DEF IInv
<1> QED
  BY <1>1, <1>2, Invariant, PTL DEF Spec

------------------------------------------------------------------------------
\* Types, for any rules, limits, backoff and number of alerts: no row is tried
\* more than MaxAttempts times, and a tick never reads a number that is none.
THEOREM TypeCorrect == Spec => []TypeOK
<1>1. IInv => TypeOK
  BY DEF IInv
<1> QED
  BY <1>1, Invariant, PTL

\* The promise to a re-enabled rule: an alert raised while the rule was off, and
\* before the edit that switches it on read its starting point, is never queued
\* for it, unless the rule changed under a running tick.
THEOREM NoFlood == Spec => []MissedStaysMissed
<1>1. IInv => MissedStaysMissed
  BY DEF IInv
<1> QED
  BY <1>1, Invariant, PTL

\* A deleted rule leaves no row behind, unless it went under a running tick.
THEOREM NoRowOutlivesItsRule == Spec => []NoOrphans
<1>1. IInv => NoOrphans
  BY DEF IInv
<1> QED
  BY <1>1, Invariant, PTL

\* "never sends one alert to one rule twice", as far as it can be kept: what the
\* destination took twice was in flight when the worker died or went without an
\* answer, or its row was deleted.
THEOREM SentOnce == Spec => []SentTwiceOnlyWhenUnsure
<1>1. OnceInv => SentTwiceOnlyWhenUnsure
  BY DEF OnceInv
<1> QED
  BY <1>1, OnceInvariant, PTL

\* A rule never goes over its hourly limit, as the tick read it: whatever was
\* sent, failed, retried, cleared or dropped in the hour, the count the tick
\* reads once and adds to by itself is never below the rows' own.
THEOREM WithinHourlyLimit == Spec => LimitKept
<1>1. IInv /\ IInv' /\ LimitInv /\ [Next]_vars => [WithinLimit]_vars
  BY LimitNext DEF IInv
<1>2. Spec => [][WithinLimit]_vars
  BY <1>1, Invariant, LimitInvariant, PTL DEF Spec
<1> QED
  BY <1>2, PTL DEF LimitKept, WithinLimit

\* alert-delivery.ts:8 without the doubt: while the answers arrive and the
\* worker lives, an alert goes to a rule a second time only after its row was
\* deleted, whatever is refused, retried, edited or cleared.
THEOREM OnceWhenAnswered ==
  ASSUME ~LostAnswers, MaxCrashes = 0
  PROVE  Spec => [](\A x \in Pairs : taken[x] > 1 => x \in forgotten)
<1>1. Init => unsure = {}
  BY DEF Init
<1>2. IInv /\ unsure = {} /\ [Next]_vars => (unsure = {})'
  <2> SUFFICES ASSUME IInv, unsure = {}, [Next]_vars  PROVE unsure' = {}
    OBVIOUS
  <2>1. ~Crash
    BY DEF Crash, IInv, TypeOK
  <2>2. CASE Unavailable
    BY <2>2 DEF Unavailable
  <2>3. CASE Raise \/ Clear \/ WriteRule \/ EditFails \/ Elapse \/ UNCHANGED vars
    BY <2>3 DEF Raise, Clear, WriteRule, EditFails, Elapse, vars, history
  <2>4. CASE \E r \in Rules : CreateRule(r) \/ UpdateRule(r) \/ DeleteRule(r)
    BY <2>4 DEF CreateRule, UpdateRule, DeleteRule, history
  <2>5. CASE StartTick \/ FailCleared \/ (\E r \in Rules : Enqueue(r)) \/ ReadDue
    BY <2>5 DEF StartTick, FailCleared, Enqueue, ReadDue, history
  <2>6. CASE DropOverLimit \/ Send \/ Take \/ Delivered \/ Refused \/ EndRule \/ Prune
    BY <2>6 DEF DropOverLimit, Send, Take, Delivered, Refused, EndRule, Prune, history
  <2> QED
    BY <2>1, <2>2, <2>3, <2>4, <2>5, <2>6 DEF Next, TickStep
<1>3. SentTwiceOnlyWhenUnsure /\ unsure = {} => \A x \in Pairs : taken[x] > 1 => x \in forgotten
  BY DEF SentTwiceOnlyWhenUnsure
<1> QED
  BY <1>1, <1>2, <1>3, Invariant, SentOnce, PTL DEF Spec

=============================================================================
