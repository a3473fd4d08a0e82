# A TLA+ verification of unfirehose

unfirehose is a local-first dashboard for coding agents. A worker reads the
JSONL journals that the agents write and fills one SQLite database (WAL); a web
server reads the database and changes parts of it; child processes sample
machines, build payloads and run single ingest passes; a router daemon forwards
journals to a cloud instance. This directory holds TLA+ modules for the parts
where order, overlap and failure decide whether the result is right, TLC
configurations that check them on small instances, and proofs for every size.
Paths below are relative to the repository root.

## 1. Inventory

| Part | State it keeps | Operations | Talks to |
|---|---|---|---|
| Journal ingest (`packages/core/db/ingest-harness.ts`, `ingest.ts`, `ingest-rows.ts`, `ingest-cache.ts`) | `ingest_offsets`, `messages`, `content_blocks`, `usage_minutes`, `sessions`; per process the offsets snapshot | a full or a targeted pass: stat, offset, stream, batches, flush, offset | journals (read), provenance, todos, alerts |
| Journal chain (`packages/core/provenance.ts`, `db/provenance-ingest.ts`) | `session_chain`, `session_chain_leaves`, anchor events | tracker (resume, feed, flush), witness backfill, audits of anchors and lanes | rides the ingest read |
| Watcher and poll (`db/watcher.ts`, `apps/worker/src/main.ts`, `ingest-once.ts`) | in-flight flags, changed directories, timers | debounce, poll with stretching delay, watchdog, one pass in a child | starts passes |
| Alert delivery (`db/alert-delivery.ts`, `alert-delivery.ts`, `apps/worker/src/alert-tick.ts`) | `alert_delivery_rules`, `alert_deliveries`, secrets file | rules created, edited, deleted (web); tick: queue, send, retry, limit, prune (worker) | `alerts`, HTTP destinations |
| Usage alerts (`db/ingest-alerts.ts`) | `alerts`, `alert_thresholds` | threshold check after a pass, acknowledge, clear, calibrate | alert delivery |
| Router (`packages/router/src`) | cursor file; in memory cursors, queue, batch | scan, flush, retry, stop | journals (read), cloud endpoint |
| Action ledger and secret alerts (`db/action-ledger.ts`, `db/secret-alerts.ts`) | `action_ledger`, `secret_sightings`, two cursors, rules version | head scan, history backfill, rebuild | content blocks, `alerts` |
| Cold block text (`db/block-cold.ts`) | `content_blocks_cold`, `cold` flags, a walk cursor, retention setting | freeze a batch, thaw a batch, rewrite | worker maintenance (freeze), web (thaw) |
| Projects (`db/ingest-projects.ts`) | `projects`, aliases, everything that points at a project | create or resolve, merge, auto-merge | ingest, web |
| Todos (`db/ingest-todos.ts`, `triage.ts`, `session-close.ts`) | `todos`, `todo_events`, triage file | upsert, TaskUpdate, close a session | ingest, web |
| Rate-limit events (`db/rate-limit-scan.ts`, `refusals.ts`) | `rate_limit_events`, cursor | incremental scan, rescan, harness report | ingest, worker |
| Rewrite watch (`db/rewrite-watch.ts`) | shadow leaves, rewrites | compare, prune | watcher |
| Mesh sampling (`apps/worker/src/mesh-rollup.ts`, `sampler.ts`, `sampler-supervisor.ts`) | hot and cold samples; child and backoff | sample, fold a bucket, respawn | other hosts |
| The rest | schema and migrations, pricing, energy, read models, pages and routes, adapters, UI, extension, scripts | | |

What is hard, and what each part must keep:

* **Ingest.** The file grows while it is read; passes overlap (the poll and the
  watcher of the worker have separate in-flight flags, `POST /api/ingest` has a
  process of its own); a process dies between its transactions. Yet every
  complete line is to be stored, each message once, its tokens once, and an
  honest journal never called corrupted.
* **Alert delivery.** The tick awaits one request after the other with rules and
  rows read before; rules are edited under it; answers get lost; the worker
  dies. Yet one alert goes to one rule once, within the hour's limit, never the
  backlog, and in the end every alert is settled.
* **Router.** Everything between two saves of the cursor file is in memory.
  Nothing is to fall out, nothing sent twice, everything queued is sent.
* **Action ledger.** Two cursors moved by two processes and a rebuild: what they
  declare done is done, each new secret is alerted once.
* **Cold text.** Text is in exactly one place and readers notice nothing; what is
  old enough is cold in the end.
* **Projects.** A pass holds a project id while another merges that project away:
  no reference dangles, no session strays, no usage is lost or doubled.
* **Todos.** A closed todo stays closed.
* **Rate limits.** One refusal is one event, from whichever of its two sources.
* **Worker.** Timers, guards and a watchdog start passes that may hang: what is
  written is read, within a bounded time.

`PROJECT.json` lists every component, and under `hazards` every such place at
its line, with the property that watches it or the reason why none does yet.

## 2. Plan

Written, in the order of importance:

1. `JournalIngest`, `AlertDelivery`, `Router`: what the system exists for.
2. `ActionLedger`: two cursors, two processes, a reset under way, and the alerts
   that come of it.
3. `BlockText`, what cold storage promises its readers, and `BlockCold`, which
   implements it (a refinement).
4. `RateLimitScan`: a cursor, a rescan, and two sources of one event.
5. `Projects`: ids held across a merge.
6. `Worker`: the timers behind the passes that `JournalIngest` and `Projects` take
   as begun. It sees of a pass only its beginning, the directory it is to read,
   and its end.

Each has an `MC` module where its constants are more than names, one or more
configurations, and a module `...Proofs`.

Left, and what it would take: todos (the upsert of a todo a person has closed,
with two readers of the same line); the thresholds of usage alerts (windows
over `usage_minutes`, read and insert in two processes); the audits of anchors
and lanes; the rewrite watch; the mesh rollup; a composition of `Worker` with
`Projects`, in which the pass that hangs holds a project id.

## 3. Modules

### JournalIngest

One journal, its writer, any number of passes in any number of processes.

| Variable | Code |
|---|---|
| `ends`, `size`, `tailWhole` | the file: ends of its complete lines, length, and whether the unterminated tail already parses |
| `offset` | `ingest_offsets.byte_offset` (0 when there is no row) |
| `rows`, `usage` | per line: rows in `messages` or `rate_limit_events`, additions to `usage_minutes` |
| `parent` | `sessions.delegated_from` is set |
| `chain` | `session_chain`: last line chained, broken or not |
| `snapshot` | `_offsetsSnapshot` of each process |
| `pc`, `stat`, `done`, `pos`, `tail`, `delegated`, `tracker` | locals of a pass: size by stat, bytes committed, bytes read, held tail, `detectedDelegatedFrom`, `SessionChainTracker` |
| `faults`, `raced`, `lost`, `uncounted` | the faults so far; history: a race, lines whose insert threw, lines that threw between their row and their usage |

Bytes are counted, never spelled. `Seen(lo, up)` are the lines of which a reader
of a byte range gets some text, `Whole(lo, up)` those it gets whole; JSON.parse
and the chain verifier succeed on exactly these. A pass is `Begin`, `Visit`
(stat, offset), `Open` or `OpenThrows`, `ReadChunk` and `CommitBatch` in any
order, `EndOfStream` (the held line), `LastBatch`, `FlushChain`, `LinkParent`
(Claude Code loop only), `CommitOffset`, `End`. Between the last batch and the
offset the code does not await, so passes of the same process stand still
(`MayStep`); passes of another process do not. The two loops of the code, native
and Claude Code, differ in the chain, in delegation and in one step; `reader`
says which one reads the journal.

Statements fail in two ways. Each line of a batch is in a `try` of its own
(`ingest-harness.ts:379`, `ingest.ts:424`): whatever throws there (SQLITE_BUSY
after the timeout, a foreign key, a malformed todo) is swallowed, the batch goes
on, and the offset moves past the line. `StoreLines` lets any new line of `Faulty`
fail before its row (`lost`) or behind it (`uncounted`). A statement outside
that loop is caught by nobody: its transaction is rolled back and the pass is over
(`Throw`). `Crash` takes all passes of a process.

### AlertDelivery

Rules, alerts and the queue of one row per (alert, rule), with `deliverDue` in
one action per statement: `StartTick`, `FailCleared`, `Enqueue`, `ReadDue`,
`DropOverLimit`, `Send`, `Delivered`, `Unavailable`, `Refused`, `EndRule`,
`Prune`. `Raise`, `Clear`, `CreateRule`, `UpdateRule`, `DeleteRule` come from
other processes at any time. An edit is two statements of the web server:
`CreateRule` and `UpdateRule` read MAX(id) and the rule into `edit`, `WriteRule` writes
it, or `EditFails`; the worker may raise alerts and run ticks in between, the web server
does nothing else (`WebIdle`). `Take` is the destination taking a request whose
answer is still on its way; `Elapse` is the clock. Time is kept as ages and
waits relative to now, and `lag` is how long ago the running tick started,
because the tick stamps everything with the time it started at. Which of the due
rows come first (`ORDER BY d.id LIMIT`) is left open: any `PerTick` of them. The
history variables `taken`, `unsure`, `forgotten`, `missed`, `overtaken` record
what the properties speak of and guard nothing.

### Router

The daemon of `packages/router`: files counted in halves of a line so that a scan
can meet half a line, cursors in memory and on disk, the queue as pieces of
files, one batch in flight with its attempts. `Start` is the first scan, before
`fs.watch` is on; `Stop` saves the cursors, `Kill` does not, `KillWhileSaving`
leaves a file that does not parse and is read as no cursors. `SaveFails` is a save that
throws after the post is over: the `catch` meant for the post puts the batch back,
answered or not. `taken`, `unsure`, `abandoned` are history.

### ActionLedger

The cursors of `action-ledger.ts`, with `secret-alerts.ts`, which rides its
windows.

| Variable | Code |
|---|---|
| `blocks` | `content_blocks` by id: a call or the result of one, its credentials, whether its line is new or from an old journal |
| `rules`, `head`, `below` | the three rows of `settings` |
| `ledger`, `flagged` | `action_ledger`, and its flag `secret-in-output` |
| `seen`, `announced`, `alertOf` | `secret_sightings`, with `backfilled` and `alert_id` |
| `alerts`, `since` | open and cleared alerts `secret_exposed`; `secret_alerts_since` |
| `op` | per process: the statement it has come to and the cursors and window it read |
| `resetAt`, `torn` | history: where the blocks stood at the last reset; a backfill wrote a cursor it had read before it |

`Begin` is the end of a pass or the timer (head scan, then a stretch of history
on the timer), `Request` a rebuild or a status from the web server. Then every
statement is a step: `Check`, `Reset`, `ReadCursors`, `ReadMax`, `Classify`,
`Record`, `SaveHead`, `SaveBelow`; `Record` is one transaction that inserts sightings,
sets flags and raises or joins alerts, in the order of the ids. `Abort` is a crash
or a busy database at any of them.

### BlockText and BlockCold

`BlockText` is a map from block to text that changes when a text is stored or
rewritten and never otherwise. `BlockCold` is `block-cold.ts`: `hot` and
`packed` are the two columns, `cold` the flag between them, `cursor` and `window`
rows of `settings`, `tick` the window and day a maintenance tick began with.
`FreezeBatch` is one transaction: what arrived late behind the cursor first, then
the walk ahead of it, each up to the batch; `Thaw`, `SetWindow` and `Rewrite` come
from the web server, and a rewrite may make a block large or small (`Resize`).

A recount of the total is two statements, `RecountRead` and `RecountWrite`, or ends in
`RecountFails`: by the worker with the size snapshot of the day (`db-health.ts:126`), by
the web server with a snapshot or where `coldStats` finds no total. `recount` is what a
process has counted, `Overtaken` marks it when a freeze or thaw comes in between, and
`drifted` (history) says that the last count written was such a one. `TextKept` is `Promise!Spec` with
`text` mapped to `Read(b)`, the expression `blockTextSql` builds.

### RateLimitScan

One journal whose items are error texts, throttle records and API-error
messages; `stored` is how far ingest has come. `OpenSession` makes the row of the
session, `StoreItem` stores an item and, for a record, writes its event in a
statement of its own that may fail. `Reread` is a throttle line read again, after a
crash before the offset or by an overlapping pass: nothing tells it from a new one
(`refusals.ts:35` is a plain INSERT), so it is an event once more.
`Tick` and `Post` begin a scan of the worker and of the web server; a scan is
`Wipe`, `Zero` (a rescan: delete, then set the cursor), `ReadCursor`, `Select` (a
batch above the cursor that was read), `WriteFound` (one transaction: events for what
no record of the same minute covers, then the cursor). `Backfill` rebuilds the events of
records from the disk, whatever ingest has read; as long as the session has no row they
are events of no session (`loose`), which cover no text. `late`, `ahead`, `again`,
`failed`, `torn` name the ways in which two sources may disagree.

### Projects

`projects`, `aliases`, `session` and `usage` are the tables; all others that
refer to a project are re-pointed by the same transaction as the sessions are and
are represented by them. A pass finds a row by name, by alias or by identity, or
makes one (`ByName`, `ByAlias`, `ByIdentity`, `ByNothing`, then `LinkAlias` or
`Create` in a statement of its own, which another process may come before; git is asked
ahead of the look-ups, without an await, `ingest-projects.ts:143`), and holds the id while
it reads the journals below the directory (`Open`, `Store`, `Leave`). A merge
(`MergeCheck`, `MergeCommit`) comes from a request or from `Housekeeping` at the
end of a pass. Foreign keys are on: `Open` with a dead id makes the pass
throw (`Throw`), and within a line what fails behind its row is
swallowed, so the line is stored and its usage is not: with a dead id always, and
for the journals of `Faulty` also where blocks or todos throw before the count
(`thrown`). A line whose own insert throws leaves nothing; that is `lost` of `JournalIngest`.

### Worker

Minutes instead of milliseconds. `unread` follows the bytes of one directory,
`Probe`; the others are there to fill `changed`. `Write` may go unseen by
`fs.watch` (`seen = FALSE`); `FileChange` is the debounce firing; `Poll` and
`Watchdog` start full passes behind `inFlight`, the watcher targeted ones behind
`ingesting`. `Read(s)` is the moment a pass comes to `Probe`; `Finish`, `Fail` and
`Stop` are the ways it ends, or never does. `wait` counts the minutes in which
bytes are unread and no pass that works is to read them.

## 4. Runs

| Run | Asks | Answer |
|---|---|---|
| `journal_safety` | poll and child process over one journal, partial writes, one fault (a crash, a pass that throws, a batch with a line that throws), two lines of up to two bytes, both loops | `NothingSkipped`, `CountedOnce` hold throughout, but for the line that threw; a false break (`BreakOnlyAfterRace`) or an offset inside a line (`OffsetAtLineEnd`) each needs a race |
| `journal_liveness` | poll and watcher of one worker, three lines of every kind, one crash or throw, fairness | reading comes to rest (`CaughtUp`) with nothing lost |
| `journal_wedge` | one pass, no fault | `EventuallyStored` fails: the offset can land inside a line or below zero |
| `delivery_tick` | one rule, two alerts, ticks that last, one crash, lost answers | `TypeOK` with its bound on attempts, `SentTwiceOnlyWhenUnsure`, `LimitKept` hold |
| `delivery_live` | an edit of two statements, a deletion and ticks, fairness | `MissedStaysMissed`, `NoOrphans`, `EventuallySettled` hold |
| `router_safety` | two files, retries, lost answers, a save that throws, two ends of the process, fairness | `TypeOK`, `NothingFallsOut`, `ResentOnlyInDoubt`, `QueueInOrder`, `EventuallyHandled` hold |
| `router_given_up` | an endpoint that stays down | `FailedIsRequeued` fails |
| `ledger` | worker and web server, resets, one operation cut short, clearing | `Coverage` (unless torn), `FlagMatchesSightings`, `OneOpenAlertPerKind`, `CountsSightings`, `HistoryOnlyByReset`, `EventuallyComplete` (unless torn) hold |
| `texts` | freeze, thaw, rewrite and recounts of two processes while windows change and old logs come late | readers see `BlockText` (`TextKept`); `OnePlace`, `TotalsExact` (unless overtaken), `NothingLeftBehind`, `ColdInTheEnd` hold |
| `rate_limits` | scans of two processes, rescans, records that come late, are lost, read again or read ahead | `PassedIsKnown`, `DoubleOnlyIfLate`, `RecordsKept`, `EventuallyKnown` hold, each with the race it names |
| `projects` | two passes that hold ids, lines that throw before their count, housekeeping, one request to merge | `TypeOK` with the foreign keys, `SessionsFollowNames`, `UsageFollowsSessions`, `MergedStaysMerged`, `Settles` hold |
| `worker` | watcher, poll and watchdog; a pass that throws, one that hangs, lost events | `SingleFlight` (until the watchdog acts), `NotedIsTimed`, `WaitBounded`, `EventuallyRead` hold |

The two failing runs state what a comment of the repository says; `PROJECT.json`
quotes it under `findings`. Deadlock is not checked: with lines, alerts, exits
and requests bounded, each system may come to rest.

**Bounds**

* *Journal.* Lines are of at most two bytes of text, enough for a stat or an
  offset to fall inside one, at its end, and on its newline. Two lines are one
  before and one after any point where the offset can be wrong; the liveness run
  has three so that a batch, the held line and a later pass are all there. Two
  passes suffice for every pairwise overlap, one fault for every point to die or throw
  at (`MaxFaults`), the first line to throw for one before and one behind it that
  does not (`Faulty`; the liveness run has none, since lines that throw are read past).
  The two full passes of `journal_safety`, each alone in its process, are alike, which the
  run uses as a symmetry (`MCAlike`).
* *Delivery.* Two alerts let one row be served while another waits, two attempts
  make a first and a last, an hour of one unit and a retention of two are less
  than any chain of retries. One rule is enough for what a rule's rows go
  through, since rules share no row; the proofs cover any number.
* *Router.* Two files and a batch of two make full, partial and mixed batches; one
  save that throws (`MaxSaveFailures`).
* *Ledger.* A worker with its timer and a web server; a feed is a call and its
  output that leaks, or two calls that leak one kind in common. Chunks of one
  block in windows of two, twice, let each walk stop in every place; one request
  and one operation cut short give a reset between any two statements.
* *Texts.* Two messages and batches of one: a walk ahead and a look behind are
  two batches. Windows of one and two days in a clock of three let text become
  old under either, and a change of window start the walk over. Two acts of the
  web server are a thaw and a change of mind; recounts are not counted.
* *Rate limits.* Three journals of four items: the text before its record and
  after it, a text far from any, two records of one time. Batches of one, three
  requests (a rescan, a rebuild and a scan), two failures, one line read again.
* *Projects.* Three directories, two of one repository of which one may be gone
  when git is asked, one that is no git tree; a journal with a line in each, so
  that the id is needed for a session and for a count. Two passes and one
  request: an id held, the housekeeping of the other, a merge from outside. The lines of
  one journal may throw (`Faulty`).
* *Worker.* Two directories against a maximum of one make a targeted and a full
  pass; the poll stretches from one minute to two; a stall of two, a hang of
  three, a watchdog every minute, with two passes of its own; one failure, one
  hang. `MaxAge` bounds how long a pass takes that does not hang: with no such
  bound nothing waits a bounded time.

**Fairness**

* `JournalIngest`: weak fairness of every pass, since the poll timer starts full
  passes again and again and the event loop runs whatever is ready; none for the
  writer or for crashes.
* `AlertDelivery`: weak fairness of the tick (a 30 s timer, requests that time
  out), strong fairness of `Elapse`, whose guard a running tick can switch off at
  its longest duration: time goes by however ticks are placed.
* `Router`: weak fairness of the watch report, the flush timer and the end of a
  post; nobody has to start it again, hence `phase = "down"` in
  `EventuallyHandled`.
* `ActionLedger`: weak fairness of the steps of a process; strong fairness of the
  worker's timer, which is off while the worker is in another operation and
  comes round again.
* `BlockCold`: a maintenance tick begins (strong fairness, since the recounts of the
  worker come in between: `maintenance.ts` makes one a day, the model any number), runs its
  batches, and a recount of the worker ends (weak fairness). None for the clock, the windows
  or the web server.
* `RateLimitScan`: the scan of every minute, and the steps of a scan.
* `Projects`: some process that has something to do does it, and the housekeeping
  of full passes comes round (`ingest.ts:183`). A process that never moves again
  is a crash and is allowed for.
* `Worker`: the timers that are due, the passes that do not hang, and the clock,
  strongly, since passes of the watcher may fill a minute but not for ever.
  Nothing of the watcher: its events may be lost and continuous changes put off
  its debounce for good.

## 5. Proofs

The modules `...Proofs` are checked by TLAPS, for every value of the constants that
`ConstantsAssumption` of the module admits. Each has an invariant `IInv`, a lemma
per action, and its theorems at the end.

**`JournalIngestProofs`.**

* `TypeCorrect`: types need one fact beside them: a tail is only ever begun below
  the bound on lines.
* `NoLineLost`: `NothingSkipped`. It is not inductive by itself, because a pass
  writes an offset it took from its locals, and another took its own from a
  snapshot. `IInv` therefore says of EVERY offset in use somewhere (stored, in a
  snapshot, in the locals of a pass at each of its steps) that the complete lines
  which start below it are stored or `lost` (`Covered`), or, between the end of the
  stream and the last batch, will be by that batch (`Pending`); and of the journal that
  its lines are disjoint and in order (`JournalOK`). The file, the rows and
  the history only grow (`KeptGrows`), so what is covered stays covered, whoever takes the
  next step.
* `StoredAndCountedOnce`: `CountedOnce`, which is inductive once one adds that the
  native loop never sets `delegated`: the unique index decides, in the
  transaction that stores the row, whether the tokens are added, and a line that threw
  in between is `uncounted`.
* `OffsetBetweenLines` (`OffsetAtLineEnd`) and `NoBreakWithoutRace`
  (`BreakOnlyAfterRace`): what holds only as long as nothing raced is an invariant of
  the form `~raced => Quiet`. `Quiet` says that at most one pass has a journal
  open, that the offset is the end of a line and the chain reaches exactly as
  far (`Chained`), and of a pass at each of its steps where its batches, its read
  position and the tail it holds stand between the lines (`QuietPass`). A step
  that could disturb it is one that sets `raced`.

**`AlertDeliveryProofs`.**

* `TypeCorrect`: the bound on `attempts` is the content: no row is ever pending
  with `MAX_ATTEMPTS` behind it.
* `NoFlood` and `NoRowOutlivesItsRule`: `MissedStaysMissed` and `NoOrphans`. A rule
  the tick has still to come to is as the tick read it unless it was changed
  under the tick (`TickFresh`); an alert a rule missed lies at or below the rule's
  starting point or is cleared (`MissedBehind`); rows are of alerts that were
  raised (`RowsOfAlerts`); and where the tick stands (`Position`). An
  edit under way is sound to write at any later moment (`EditSound`): what the rule missed
  lies at or below the starting point read, and what was raised since has no row for it.
  `Maxima` gives
  MAX(id) its meaning for a set of alerts of any size.
* `SentOnce`: `SentTwiceOnlyWhenUnsure`, with two more facts: what the tick has
  read of a rule is still pending or went with its rule (`TodoPending`), and what
  the destination took is marked as sent, in doubt, forgotten, or on its way
  (`TakenAccounted`). So a row that is sent again was in doubt or forgotten.
* `WithinHourlyLimit` (`LimitKept`, an action property): the number the tick read
  once and adds to is never below that of the rows sent in the hour before the
  tick began (`SentCounted`), and a request is on its way only with room left
  (`RoomLeft`). `Elapse` makes rows and tick older alike, an edit or a deletion takes
  rows away, and one step alone stamps a row as sent.

**`RouterProofs`.** `TypeCorrect`, `NothingLost`, `NothingResent`, `LinesInOrder`:
all of its safety properties. What is queued of a file is a chain of pieces, each
beginning where the one before ends, up to the cursor in memory (`Lined`); its
beginning is at or behind the cursor saved (`Unsaved`); and what was taken and may
still be sent again is in doubt (`Doubt`). The pieces of a scan are computed by a
recursive function over the lines between two cursors; `Smallest` (a set of
naturals has a least element, from the well-foundedness of `<`) replaces
induction, so that what the function yields for a file of any length is
proved too (`PiecesStretch`).

**`ActionLedgerProofs`.** `CursorsTellTheTruth` (`Coverage`), `FlagsRight`,
`SilentOnlyByReset`. The cursors alone say too little: a walk carries cursors it
read long ago. `Sound` says of each walk that what it has come past is done,
counting only blocks after the last reset for a head scan, and only while the
cursor it read is not `stale` for a backfill. A stale write is what sets `torn`,
and the only thing that excuses `Coverage`. `OneAlertPerKind` and `AlertsCount`
(`OneOpenAlertPerKind`, `CountsSightings`) are about one transaction that goes
through a window block by block: `Book` is what holds of the alerts after each
block. The count of an alert is the number of sightings linked to it; each kind
it names is that of a linked sighting of its session (`Backed`); two open alerts of a
session name nothing in common (`Apart`). A sighting that is linked is seen, so no
later window links it again.

**`BlockColdProofs`.** `OneOfTwoPlaces`, and `NobodyNotices`: every step of
`BlockCold` is a step of `BlockText` or leaves each text as it reads. `OnePlace`
is the invariant, with the types and that a block not stored yet has neither text
nor row. `RunningTotal` (`TotalsExact`) adds that the total is the cardinality of the
cold rows unless it `drifted`, so that its floor at zero never hides a drift of its own,
and that a count a process has taken and nothing overtook is that cardinality still.
`WalkComplete` (`NothingLeftBehind`) rests on two lemmas about a batch taken in
order with a limit: whatever precedes a row of the batch is in it (`FirstIsPrefix`),
and a batch that leaves a row out is full (`LeftOutMeansFull`), so a batch that is
not full has come to the end. `Reached` says of the cursor and of a running tick how
far they have come.

**`RateLimitScanProofs`.** `TypeCorrect`, `NothingPassedOver`,
`DoubleOnlyByLateRecord`, `RecordsSurvive`. The invariant speaks of scans under
way (`Writers`): what one holds is all that is unknown up to its last row, unless a
rescan came between its read and its write. `BatchIsPrefix` shows this of a batch,
defined by cardinality, and `Unread` that records read ahead of ingest are named, as
are those of lines read again.

**`ProjectsProofs`.** `TypeCorrect` (the foreign keys among the types),
`SessionsStay`, and `MergesLast`, an action property. A name stands for the row
of that name or for its alias. `OneRow`: no two rows have one name. `OwnAlias`: the
alias of a row's own name is that row. `Held`: what each process holds is what its
name stands for as long as the row is there. A merge sends what stood for the
loser to the winner and moves nothing else (`Kept`), so names that stood for one
project still do. `UsageStays` (`UsageFollowsSessions`): a line is counted for the
project of its session (`Settled`: a pass that reads lines has stored the session
of each), and a merge moves sessions and minutes together. The
property sums a minute over all rows with the fold of the library, which the
provers see as a recursive function over sets; `TotalChanges` and `TotalOfNothing`
say what a change of one row does to the sum and what it is when all are zero, and are shown
for the order in which the fold picks its elements.

**`WorkerProofs`.** `TypeCorrect`, `GuardHolds` (`SingleFlight`) and
`NothingNotedIsForgotten`. `OnePoll`: the startup pass and the poll exclude each
other. `OneGuarded` states single flight by pairs of passes instead of a
cardinality. `NobodyWaitsForever` (`WaitBounded`): either no guarded pass has ended
since the wait began, and the watchdog's count is at least the wait (`NoneEnded`), or
one has, and then the guard is free and the wait exceeds that count by less
than the age of a pass (`OneEnded`); the minutes to the next tick are counted in. A
guarded pass under way began before the wait did, since it would have ended it.
The bound, the greater of `Hang` and `MaxAge + Stall` and a tick on top, holds for
all intervals with `Stall < Hang`, as `INGEST_STALL_MS` and `INGEST_HANG_MS` are; the
model needs the inequality because it counts idle minutes up to `Hang` only.
`LeftAlone`: without hung passes, and with `PollMax + MaxAge < Hang`, the watchdog
never clears a guard (`~forced`), so that single flight holds for good. The poll
begins a pass within `PollMax` of the end of the last, so the time the watchdog goes
by is at most `PollMax` more than the age of the pass under way (`Calm`). TLC shows
the bound to be exact: at `Hang = PollMax + MaxAge` a healthy pass is forced.

**What the excuses cost.** Several properties allow for a case the history variables
name (`unsure`, `torn`, `stale`, `raced`). Six theorems say where such a case
comes from, by assuming its source away and proving the property without it, so
that an excuse is not wider than what it stands for:

* `OnceWhenAnswered` of the router and of the delivery: no lost answers, no ends
  of the process, and for the router no save that throws; then nothing is taken twice (the
  delivery: but for deleted rows).
* `CursorsTellTheTruthAlone`: one process; then `torn` is never set, whatever it
  rebuilds and wherever it dies.
* `NothingPassedOverUndisturbed`: no requests to `/api/rate-limits`; then the cursor
  passes nothing unknown at any moment, and a record is an event twice only when its
  line was read again.
* `NothingLostAlone`: one pass or request at a time; then what a process holds is
  up to date when it resolves, stores and counts (`UpToDate`), and every stored
  line that does not throw itself is counted for the project of its name, through all merges.
* `LeftAlone` of the worker, above: passes that do not hang and end soon enough.

**Only model-checked.** Liveness, which is out of the prover's reach:
`CaughtUp`, `EventuallySettled`, `EventuallyHandled`, `EventuallyComplete`,
`ColdInTheEnd`, `EventuallyKnown`, `Settles`, `EventuallyRead`. Every safety property
and action property of the passing runs is proved. The bounds of the models
(`MaxLines`, `MaxAlerts`, `MaxAge` and so on) are constants of the theorems, of any
value.

## 6. What the models found

Two disagreements are runs: the offset inside a line (`journal_wedge`) and the
batch given up (`router_given_up`). The others were met while modelling. Each
is in a module as the code does it, and where a property would be false because
of it, the property names the case.

* *Lines passed over.* `ingest-harness.ts:379` and `ingest.ts:424` are there to "skip
  malformed lines". They skip whatever throws: a sound line that meets a locked database
  is behind the offset and not in the database (`lost`), one that throws in its blocks or
  its todos is stored and, in the native loop, never counted (`uncounted`, `thrown`).
* *False break.* `packages/schema/docs/sessions.md:143`: a line still being written
  is "never counted as a break". When the file grows between stat and read, the
  offset (`ingest-harness.ts:416`) and the chain disagree on what has been read.
  Hence `BreakOnlyAfterRace`.
* *Delegated tokens.* `ingest.ts:411` skips the usage of delegated sessions, but
  only in the pass that reads the delegating line (`ingest.ts:356` is a local).
* *Delivered again.* `alert-delivery.ts:8`: "never sends one alert to one rule
  twice". A row that was pruned (`:532`) is queued again when its alert is still
  open. Hence `forgotten`.
* *Switched on in two statements.* MAX(id) is read (`alert-delivery.ts:308`, `:277`)
  before the rule is written. An alert raised in between fired while the rule was off
  and is queued; `MissedStaysMissed` counts a rule as off only until that read.
* *Sent again without doubt.* `router.ts:115` saves the cursors inside the `try` of the
  post. A save that throws puts a batch back that the endpoint answered. Hence the third case
  of `unsure`, beside lost answers and a process that dies.
* *Lost with the queue.* A scan moves the cursors of every file it queues
  (`router.ts:74`), and the next save writes them. What is then queued dies with the process
  and is not read again (`abandoned`). What is written between the first scan and
  `fs.watch` is read at the next change of any file, and not before.
* *Backlog.* `migrate.ts:1125`: a re-enabled rule never delivers the backlog. A row
  pending when the rule was switched off is still due afterwards
  (`alert-delivery.ts:483`).
* *Torn reset of the ledger.* `action-ledger.ts:272`: "Empty the ledger and start
  both cursors again". A backfill of the worker that read its cursor before a
  rebuild by the web server writes it afterwards, and the blocks between stay
  unclassified. Hence `torn`. A reset also turns new blocks not yet scanned into
  history, whose credentials raise no alert; and `secret_alerts_since` is set at
  the first sighting (`secret-alerts.ts:92`), so that one never alerts either.
* *Thawed for good.* Retention switched off, text thawed, and retention switched
  on with the same window: the cursor still stands at the end and what was
  thawed is not frozen again (`thawed` in `ColdInTheEnd`). Nor is a block that a
  rewrite takes above MIN_COLD_BYTES behind the cursor (`grown`). A tick under way when
  retention is switched off still freezes its batches.
* *An exact count that is not.* `block-cold.ts:143`: "`recountColdStats` is the exact
  answer". It counts and writes in two statements (`block-cold.ts:167-177`); a freeze or thaw
  of the other process in between is overwritten, and the total is off until the next
  recount (`drifted` in `TotalsExact`).
* *A refusal twice.* `refusals.ts:29`: the text "never double-counts". It does when
  the record is read after the text was scanned (`late`), and a record is
  counted twice when the disk is read ahead of ingest (`ahead`) or when a throttle line is
  read again (`again`): `refusals.ts:35` inserts without a key. A process that
  dies between the two statements of a rescan leaves the cursor past what was
  deleted (`torn`).
* *Usage of a merged project.* A pass that holds the id of a project merged away
  stores lines and loses their counts: the catch at `ingest-harness.ts:379`
  swallows the foreign key. `UsageFollowsSessions` allows it only then and
  where the line threw itself.
* *Watchdog.* `main.ts:170`: a run still in flight "is left alone until
  INGEST_HANG_MS". The time is counted from the end of the last pass, not from the
  beginning of this one, so a young pass may be taken for a hung one; a pass is safe
  only below INGEST_HANG_MS less POLL_QUIET_MAX_MS (`LeftAlone`). Passes of
  the watcher do not set this guard, so the timer of the ledger runs beside them.

## 7. Not modelled

Most of the repository is pages, routes, data tables and format translation
around one database: views that read it, adapters that write the same rows whole
files at a time, prices, energy, the schema. Where such code touches shared
state, the statement it runs is an action of the module of that state (rules,
clearing, rebuild, retention, merge, scan); the rest has no step that could come
in a wrong order, and the share of lines the models translate stays small for that
reason.

Left out within the parts modelled: subagent transcripts and foreign formats in
`JournalIngest` (the same offset and rows); several journals in one pass, so that
the effect of one that throws on those after it is not seen; tampering and
truncation of journals; Merkle roots and the audits of the chain; secrets, request
building and test sends of the delivery; which call is dangerous, which text a
credential and which a refusal (data in `ActionLedger` and `RateLimitScan`);
records without a time in `RateLimitScan`, which are stamped as they are read and
written again by every rebuild; compression and byte totals in `BlockCold`, and messages without a timestamp, which
are never frozen; in `Projects` the slots of other harnesses and a repository whose
identity changes; in `Worker` a startup pass that hangs, which leaves neither
watcher nor watchdog behind it.

Not modelled at all, with the reason in `PROJECT.json`: todos and triage, the
rewrite watch, mesh sampling, child supervision, the thresholds of usage alerts,
prices and energy, read models, pages and routes that drive tmux or ssh, schema,
extension and scripts.
