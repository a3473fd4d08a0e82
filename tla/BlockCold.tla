------------------------------ MODULE BlockCold ------------------------------
(***************************************************************************)
(* Cold storage for block text.  With a retention window set, the worker   *)
(* moves the text of old blocks to a second table, in batches of one       *)
(* transaction, while ingest is quiet; the web server sets the window,     *)
(* puts text back a batch at a time, and rewrites text wherever it lives.  *)
(* Readers read hot or cold through one expression, and notice nothing.    *)
(*                                                                         *)
(* A message has one block here, of the same id; ids grow, times need not: *)
(* a backfill of old logs stores old messages late.  Time is in days.  A   *)
(* block below MIN_COLD_BYTES is never moved; a rewrite may take it across *)
(* that line.  A recount of the total is two statements, in either process.*)
(***************************************************************************)
EXTENDS Integers, Sequences, FiniteSets

CONSTANTS
  MaxMessages,  \* bound: messages stored
  Texts,        \* what a block may hold
  Fresh,        \* what it may hold when it is stored
  None,         \* NULL
  Windows,      \* RETENTION_CHOICES, in days
  BatchSize,    \* maxMessages
  ThawLimit,    \* limit of a thaw batch
  MaxDay,       \* bound: the clock
  MaxActs       \* bound: windows set, batches thawed, texts rewritten

Ids  == 1..MaxMessages
Days == 0..MaxDay
Off  == 0       \* no window: keep everything
Start == -1     \* the empty timestamp, before every other
Processes == {"worker", "web"}

ASSUME ConstantsAssumption ==
  /\ MaxMessages \in Nat /\ MaxDay \in Nat /\ MaxActs \in Nat
  /\ BatchSize \in Nat \ {0} /\ ThawLimit \in Nat \ {0}
  /\ Windows \subseteq Nat \ {0} /\ Fresh \subseteq Texts /\ None \notin Texts

VARIABLES
  messages,  \* by id: when written, and whether the block is large enough
  hot,       \* content_blocks.text_content
  cold,      \* content_blocks.cold: ids where it is 1
  packed,    \* content_blocks_cold.text_z, None where there is no row
  window,    \* block_text_retention_days, or Off
  cursor,    \* block_text_retention_cursor; its window is Off where there is none
  totals,    \* block_text_cold_totals: the count of blocks, or None
  recount,   \* locals of recountColdStats: what a process counted, and whether
             \* a freeze or thaw came after
  today,     \* the clock
  tick,      \* the worker's tick: the window and the day it began with
  thawed,    \* history: blocks thawed since the walk last started over
  grown,     \* history: blocks a rewrite made large since then
  drifted,   \* history: the last recount written was overtaken
  acts

store    == <<hot, cold, packed>>
settings == <<window, cursor, totals>>
vars     == <<messages, store, settings, recount, today, tick, thawed, grown, drifted, acts>>

maxId == Len(messages)
Known == 1..maxId
NoCursor == [window |-> Off, ts |-> Start, id |-> 0, maxId |-> 0]
NoTick   == [window |-> Off, day |-> 0]
NoCount  == [count |-> None, stale |-> FALSE]
Counting(p) == recount[p].count # None

\* ORDER BY order LIMIT n, the order given as the pairs in it; and its last row.
First(n, ids, order) == {b \in ids : Cardinality({a \in ids : <<a, b>> \in order}) < n}
Last(ids, order)     == CHOOSE b \in ids : \A a \in ids \ {b} : <<a, b>> \in order

------------------------------------------------------------------------------
(* Readers.                                                                *)

\* Mutant: a reader that knows only the hot column.
ReadHot(b) == hot[b]

\* blockTextSql: the text of a block, hot or cold.
Read(b) == IF b \in cold THEN packed[b] ELSE hot[b]

\* Hot, and large enough to be worth moving.
Eligible(b) == b \notin cold /\ messages[b].large

\* retentionCutoff
Before(b, w, day) == messages[b].at < day - w

------------------------------------------------------------------------------
Init ==
  /\ messages = <<>>
  /\ hot = [b \in Ids |-> None] /\ cold = {} /\ packed = [b \in Ids |-> None]
  /\ window = Off /\ cursor = NoCursor /\ totals = None
  /\ recount = [p \in Processes |-> NoCount]
  /\ today = 0 /\ tick = NoTick
  /\ thawed = {} /\ grown = {} /\ drifted = FALSE /\ acts = 0

\* Ingest stores a message, written today or found in an old log.
Store ==
  /\ maxId < MaxMessages
  /\ \E at \in 0..today, large \in BOOLEAN, t \in Fresh :
       /\ messages' = Append(messages, [at |-> at, large |-> large])
       /\ hot' = [hot EXCEPT ![maxId + 1] = t]
  /\ UNCHANGED <<cold, packed, settings, recount, today, tick, thawed, grown, drifted, acts>>

Act == acts < MaxActs /\ acts' = acts + 1

NextDay ==
  /\ today < MaxDay /\ today' = today + 1
  /\ UNCHANGED <<messages, store, settings, recount, tick, thawed, grown, drifted, acts>>

\* POST set: a window, or none; the cursor stays.
SetWindow ==
  /\ Act /\ ~Counting("web")
  /\ \E w \in Windows \cup {Off} : w # window /\ window' = w
  /\ UNCHANGED <<messages, store, cursor, totals, recount, today, tick, thawed, grown, drifted>>

------------------------------------------------------------------------------
(* The running total, kept by every freeze and thaw in its transaction.    *)

\* Mutant: the first total is counted and then bumped.
BumpTwice(nowCold, delta) ==
  totals' = (IF totals = None THEN Cardinality(nowCold) ELSE totals) + delta

\* bumpColdTotals: a first total is a recount, which includes the change.
Bump(nowCold, delta) ==
  totals' = IF totals = None THEN Cardinality(nowCold)
            ELSE IF totals + delta > 0 THEN totals + delta ELSE 0

\* A recount under way in another process has now missed a change.
Overtaken ==
  recount' = [p \in Processes |-> [recount[p] EXCEPT !.stale = Counting(p)]]

\* recountColdStats with a size snapshot (before the batches of a tick, or asked
\* of the web server), or where the retention route finds no total: the cold rows
\* are counted, ...
RecountRead(p) ==
  /\ ~Counting(p) /\ (p = "worker" => tick = NoTick)
  /\ recount' = [recount EXCEPT ![p].count = Cardinality({b \in Ids : packed[b] # None})]
  /\ UNCHANGED <<messages, store, settings, today, tick, thawed, grown, drifted, acts>>

\* ... and the count is written, whatever was moved in between.
RecountWrite(p) ==
  /\ Counting(p)
  /\ totals' = recount[p].count /\ drifted' = recount[p].stale
  /\ recount' = [recount EXCEPT ![p] = NoCount]
  /\ UNCHANGED <<messages, store, window, cursor, today, tick, thawed, grown, acts>>

\* The write fails, or the process dies before it.
RecountFails(p) ==
  /\ Counting(p) /\ recount' = [recount EXCEPT ![p] = NoCount]
  /\ UNCHANGED <<messages, store, settings, today, tick, thawed, grown, drifted, acts>>

------------------------------------------------------------------------------
(* The worker: a tick of maintenance reads the window once and runs        *)
(* batches until it has caught up or its time is spent.                    *)

BeginTick ==
  /\ tick = NoTick /\ window # Off /\ ~Counting("worker")
  /\ tick' = [window |-> window, day |-> today]
  /\ UNCHANGED <<messages, store, settings, recount, today, thawed, grown, drifted, acts>>

\* The cursor read: where the walk is, started over for a new window.
Walk == IF cursor.window = tick.window THEN cursor
        ELSE [window |-> tick.window, ts |-> Start, id |-> 0, maxId |-> maxId]

\* Mutant: only the walk, no look behind it.
LateNever(c) == {}

\* Stored after the last look and stamped behind the walk.
Late(c) == {b \in Known : c.ts # Start /\ b > c.maxId /\ messages[b].at <= c.ts
                          /\ Before(b, tick.window, tick.day)}

\* What the walk has not passed, by time and then id.
Ahead(c) == {b \in Known :
  /\ messages[b].at > c.ts \/ (messages[b].at = c.ts /\ b > c.id)
  /\ Before(b, tick.window, tick.day)}

ById   == {ab \in Known \X Known : ab[1] < ab[2]}
InTime == {ab \in Known \X Known :
  \/ messages[ab[1]].at < messages[ab[2]].at
  \/ messages[ab[1]].at = messages[ab[2]].at /\ ab[1] < ab[2]}

\* insertCold and markCold
Move(moved) ==
  /\ packed' = [b \in Ids |-> IF b \in moved THEN hot[b] ELSE packed[b]]
  /\ hot' = [b \in Ids |-> IF b \in moved THEN None ELSE hot[b]]
  /\ cold' = cold \cup moved

\* freezeBatch: those that came late, as far as the batch has room the walk.
FreezeBatch ==
  LET c     == Walk
      late  == First(BatchSize, Late(c), ById)
      full  == Cardinality(late) = BatchSize
      room  == BatchSize - Cardinality(late)
      walk  == First(room, Ahead(c), InTime)
      moved == {b \in late \cup walk : Eligible(b)}
      last  == Last(walk, InTime)
  IN /\ tick # NoTick
     /\ Move(moved)
     /\ cursor' = [window |-> tick.window,
                   ts     |-> IF walk = {} THEN c.ts ELSE messages[last].at,
                   id     |-> IF walk = {} THEN c.id ELSE last,
                   maxId  |-> IF full THEN Last(late, ById) ELSE maxId]
     /\ IF moved = {} THEN UNCHANGED <<totals, recount>>
        ELSE Bump(cold \cup moved, Cardinality(moved)) /\ Overtaken
     /\ thawed' = IF c = cursor THEN thawed ELSE {}
     /\ grown' = IF c = cursor THEN grown ELSE {}
     /\ IF ~full /\ Cardinality(walk) < room THEN tick' = NoTick
        ELSE tick' \in {tick, NoTick}
     /\ UNCHANGED <<messages, window, today, drifted, acts>>

\* The worker dies between two batches: it begins again with a tick.
Crash ==
  /\ Act
  /\ tick # NoTick /\ tick' = NoTick
  /\ UNCHANGED <<messages, store, settings, recount, today, thawed, grown, drifted>>

------------------------------------------------------------------------------
(* The web server.                                                         *)

\* thawBatch: text goes back hot, all of it or only inside a window kept.
Thaw ==
  /\ Act /\ ~Counting("web")
  /\ \E keep \in Windows \cup {Off} :
       LET scope == {b \in cold : keep = Off \/ ~Before(b, keep, today)}
       IN \E back \in SUBSET scope :
            /\ Cardinality(back) = IF Cardinality(scope) < ThawLimit
                                   THEN Cardinality(scope) ELSE ThawLimit
            /\ back # {}
            /\ hot' = [b \in Ids |-> IF b \in back THEN packed[b] ELSE hot[b]]
            /\ packed' = [b \in Ids |-> IF b \in back THEN None ELSE packed[b]]
            /\ cold' = cold \ back
            /\ Bump(cold \ back, -Cardinality(back)) /\ Overtaken
            /\ thawed' = thawed \cup back
  /\ UNCHANGED <<messages, window, cursor, today, tick, grown, drifted>>

\* The new text may be large or not.
Resize(b) ==
  \E large \in BOOLEAN :
    /\ messages' = [messages EXCEPT ![b].large = large]
    /\ grown' = IF large /\ ~messages[b].large THEN grown \cup {b} ELSE grown

\* Mutant: the hot column, wherever the text is.
RewriteHot(b, t) ==
  /\ Act
  /\ hot' = [hot EXCEPT ![b] = t]
  /\ Resize(b)
  /\ UNCHANGED <<cold, packed, settings, recount, today, tick, thawed, drifted>>

\* rewriteBlockText, in the transaction of the PII backfill.
Rewrite(b, t) ==
  /\ Act
  /\ IF b \in cold THEN packed' = [packed EXCEPT ![b] = t] /\ UNCHANGED hot
     ELSE hot' = [hot EXCEPT ![b] = t] /\ UNCHANGED packed
  /\ Resize(b)
  /\ UNCHANGED <<cold, settings, recount, today, tick, thawed, drifted>>

Next ==
  \/ Store \/ NextDay \/ SetWindow
  \/ \E p \in Processes : RecountRead(p) \/ RecountWrite(p) \/ RecountFails(p)
  \/ BeginTick \/ FreezeBatch \/ Crash
  \/ Thaw \/ (\E b \in Known, t \in Texts : Rewrite(b, t))

Spec == Init /\ [][Next]_vars

\* Maintenance ticks for ever, with a snapshot once a day at most and before the
\* batches, and a tick runs its batches.
FairSpec ==
  /\ Spec /\ SF_vars(BeginTick) /\ WF_vars(FreezeBatch)
  /\ WF_vars(RecountWrite("worker") \/ RecountFails("worker"))

------------------------------------------------------------------------------
TypeOK ==
  /\ messages \in Seq([at : Days, large : BOOLEAN]) /\ maxId <= MaxMessages
  /\ hot \in [Ids -> Texts \cup {None}] /\ packed \in [Ids -> Texts \cup {None}]
  /\ cold \subseteq Known /\ thawed \subseteq Known /\ grown \subseteq Known
  /\ window \in Windows \cup {Off}
  /\ cursor \in [window : Windows \cup {Off}, ts : {Start} \cup Days,
                 id : 0..MaxMessages, maxId : 0..MaxMessages]
  /\ totals \in 0..MaxMessages \cup {None}
  /\ recount \in [Processes -> [count : 0..MaxMessages \cup {None}, stale : BOOLEAN]]
  /\ drifted \in BOOLEAN
  /\ today \in Days /\ tick \in [window : Windows \cup {Off}, day : Days]
  /\ acts \in 0..MaxActs

\* A text is in exactly one of the two places, and the flag says in which.
OnePlace ==
  \A b \in Known : IF b \in cold THEN hot[b] = None /\ packed[b] # None
                   ELSE hot[b] # None /\ packed[b] = None

\* Readers see what BlockText promises: freezing, thawing, windows, crashes and
\* recounts change no text.
Promise == INSTANCE BlockText WITH Blocks <- Ids, text <- [b \in Ids |-> Read(b)]
TextKept == Promise!Spec

\* The running total is the number of cold rows, through freezes, thaws and
\* recounts of two processes, and is never cut off at zero: it is off only from
\* the write of a count a freeze or thaw overtook to that of the next recount.
TotalsExact == totals # None /\ ~drifted => totals = Cardinality(cold)

\* The walk leaves nothing behind: a block it has passed, that was stored before
\* its last look behind, is cold, too small, or was thawed or grew large since.
NothingLeftBehind ==
  \A b \in Known :
    cursor.window # Off /\ b <= cursor.maxId /\ Eligible(b)
      /\ (messages[b].at < cursor.ts \/ (messages[b].at = cursor.ts /\ b <= cursor.id))
      => b \in thawed \cup grown

\* While a window stands, what is older than it is cold in the end, unless it
\* was thawed or grew large after the walk had passed it.
ColdInTheEnd ==
  <>[](window = Off \/ \A b \in Known : Eligible(b) /\ Before(b, window, today)
                           => b \in thawed \cup grown)
=============================================================================
