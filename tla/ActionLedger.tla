---------------------------- MODULE ActionLedger ----------------------------
(***************************************************************************)
(* The agent action ledger and its secret alerts.  Every tool call is      *)
(* classified once; every call or result that carries a credential is      *)
(* sighted once, and what the head scan sights raises an alert.            *)
(*                                                                         *)
(* Two cursors in `settings' split the blocks: `head' moves up at the end  *)
(* of an ingest pass and on a timer, `below' moves down through history.   *)
(* The worker, the ingest-once child and the web server move them, each    *)
(* with cursors it read before; a rules version that is missing or older   *)
(* makes whoever meets it empty the ledger and start both cursors again.   *)
(* Within a process the code is synchronous; other processes come in       *)
(* between its statements and transactions.                                *)
(*                                                                         *)
(* Ids of blocks and alerts (AUTOINCREMENT) count from the first one here; *)
(* blocks are never deleted.  A call whose secret kinds cannot be named    *)
(* has the one kind `credential', so a secret has at least one kind.       *)
(***************************************************************************)
EXTENDS Integers, Sequences, FiniteSets

CONSTANTS
  Procs,      \* operating-system processes that use the ledger
  Web,        \* those of them that serve /api/actions
  Timer,      \* those of them whose timer runs both walks: the worker
  Sessions,
  Feeds,      \* bound: the sequences of blocks that may arrive
  Chunk,      \* LEDGER_CHUNK
  Window,     \* LEDGER_WINDOW
  MaxPasses,  \* maxPasses
  MaxBlocks,  \* bound: blocks in a feed
  MaxRequests, \* bound: requests to /api/actions
  MaxAborts   \* bound: operations cut short by a crash or SQLITE_BUSY

Ids == 1..MaxBlocks

\* A call, or the result of an earlier call of its session, or of none (of =
\* 0); its line is written now or comes from an old journal.
BlockType == [call : BOOLEAN, secrets : SUBSET Nat, session : Sessions,
              live : BOOLEAN, of : 0..MaxBlocks]

ASSUME ConstantsAssumption ==
  /\ Web \subseteq Procs /\ Timer \subseteq Procs \ Web
  /\ \A f \in Feeds : f \in Seq(BlockType) /\ Len(f) <= MaxBlocks
  /\ Chunk \in Nat \ {0} /\ Window \in Nat \ {0} /\ MaxPasses \in Nat \ {0}
  /\ MaxBlocks \in Nat /\ MaxRequests \in Nat /\ MaxAborts \in Nat

VARIABLES
  blocks,     \* content_blocks, by id
  rules,      \* action_ledger_rules is the version of this code
  head,       \* action_ledger_head
  below,      \* action_ledger_below
  ledger,     \* action_ledger: ids of the calls in it
  flagged,    \* those of them with the flag secret-in-output
  seen,       \* secret_sightings: ids of the blocks in it
  announced,  \* those of them with backfilled = 0
  alertOf,    \* per block: alert_id of its sighting, 0 for NULL
  alerts,     \* alerts of type secret_exposed, by id
  since,      \* blocks there were when secret_alerts_since was set, -1 before
  op,         \* per process: the operation it is in
  resetAt,    \* history: blocks there were at the last reset
  torn,       \* history: below was written from before the last reset
  requests, aborts

settings == <<rules, head, below>>
secrets  == <<seen, announced, alertOf, alerts, since>>
history  == <<resetAt, torn>>
bounds   == <<requests, aborts>>
vars     == <<blocks, settings, ledger, flagged, secrets, op, history, bounds>>

maxBlockId == Len(blocks)
Idle == [pc |-> "idle", at |-> "head", then |-> "stop", lo |-> 0, hi |-> 0,
         end |-> 0, left |-> 0, stale |-> FALSE]

IsSecret(b) == blocks[b].secrets # {}
Calls       == {b \in 1..maxBlockId : blocks[b].call}
\* The result r answers the call c: same tool_use_id, same session.
Answers(r, c) == ~blocks[r].call /\ blocks[r].of = c
Between(lo, hi) == (lo + 1)..hi
Lesser(a, b)  == IF a < b THEN a ELSE b
Greater(a, b) == IF a > b THEN a ELSE b

\* Its line was written before secret_alerts_since.
Old(b, start) == ~blocks[b].live \/ b <= start

------------------------------------------------------------------------------
\* A new database, or one where alerting had begun before these blocks and the
\* rules have changed.
Init ==
  /\ blocks = <<>>
  /\ rules = FALSE /\ head = 0 /\ below = 1
  /\ ledger = {} /\ flagged = {}
  /\ seen = {} /\ announced = {} /\ alertOf = [b \in Ids |-> 0]
  /\ alerts = <<>> /\ since \in {-1, 0}
  /\ op = [p \in Procs |-> Idle]
  /\ resetAt = 0 /\ torn = FALSE
  /\ requests = 0 /\ aborts = 0

\* Ingest stores a block.
Arrive ==
  /\ \E f \in Feeds :
       /\ Len(f) > maxBlockId /\ SubSeq(f, 1, maxBlockId) = blocks
       /\ blocks' = Append(blocks, f[maxBlockId + 1])
  /\ UNCHANGED <<settings, ledger, flagged, secrets, op, history, bounds>>

\* The user clears an alert: its row is deleted.
Clear(a) ==
  /\ alerts[a].open
  /\ alerts' = [alerts EXCEPT ![a].open = FALSE]
  /\ UNCHANGED <<blocks, settings, ledger, flagged, seen, announced, alertOf, since,
                 op, history, bounds>>

------------------------------------------------------------------------------
(* An operation: the head scan, and where the caller asks for it a tick of *)
(* the backfill after it.                                                  *)

Start(p, o) == op' = [op EXCEPT ![p] = [o EXCEPT !.pc = "check"]]

\* The end of an ingest pass, or the worker's timer, which asks for both walks.
Begin(p) ==
  /\ p \notin Web /\ op[p] = Idle
  /\ \/ Start(p, Idle)
     \/ p \in Timer /\ Start(p, [Idle EXCEPT !.then = "fill"])
  /\ UNCHANGED <<blocks, settings, ledger, flagged, secrets, history, bounds>>

\* GET reads the cursors for its status.  POST runs both walks.  With
\* { rebuild: true } rebuildLedger deletes the version first; the check that
\* follows, its own or another process's, starts the cursors again.
Request(p, at) ==
  /\ p \in Web /\ op[p] = Idle /\ requests < MaxRequests
  /\ requests' = requests + 1
  /\ rules' = (rules /\ at # "rebuild")
  /\ Start(p, [Idle EXCEPT !.at = at, !.then = IF at = "status" THEN "stop" ELSE "fill"])
  /\ UNCHANGED <<blocks, head, below, ledger, flagged, secrets, history, aborts>>

\* ledgerCursors looks at the version ...
Check(p) ==
  /\ op[p].pc = "check"
  /\ op' = [op EXCEPT ![p].pc = IF rules THEN "cursors" ELSE "reset"]
  /\ UNCHANGED <<blocks, settings, ledger, flagged, secrets, history, bounds>>

\* It has read the cursors.
Walking(o) == o.pc \in {"max", "calls", "record", "save"}

\* Mutant: the cursor of history starts one block too low.
ResetShort(p) ==
  /\ op[p].pc = "reset"
  /\ ledger' = {} /\ flagged' = {}
  /\ head' = maxBlockId /\ below' = maxBlockId
  /\ rules' = TRUE
  /\ resetAt' = maxBlockId
  /\ torn' = FALSE
  /\ op' = [q \in Procs |-> IF q = p THEN [op[p] EXCEPT !.pc = "cursors"]
                            ELSE [op[q] EXCEPT !.stale = Walking(op[q])]]
  /\ UNCHANGED <<blocks, secrets, bounds>>

\* ... and if it was old empties the ledger and starts the cursors, in one
\* transaction that does not look again.
Reset(p) ==
  /\ op[p].pc = "reset"
  /\ ledger' = {} /\ flagged' = {}
  /\ head' = maxBlockId /\ below' = maxBlockId + 1
  /\ rules' = TRUE
  /\ resetAt' = maxBlockId
  /\ torn' = FALSE
  /\ op' = [q \in Procs |-> IF q = p THEN [op[p] EXCEPT !.pc = "cursors"]
                            ELSE [op[q] EXCEPT !.stale = Walking(op[q])]]
  /\ UNCHANGED <<blocks, secrets, bounds>>

\* The window that starts, or the end of this walk: the next one of the
\* operation begins with a check of its own.
AfterHead(o) ==
  IF o.lo < o.end /\ o.left > 0
  THEN [o EXCEPT !.pc = "calls", !.hi = Lesser(o.lo + Chunk, o.end)]
  ELSE IF o.then = "fill" THEN [Idle EXCEPT !.pc = "check", !.at = "fill"] ELSE Idle

Chunked(o) == [o EXCEPT !.pc = "calls", !.lo = Greater(o.end, o.hi - Chunk)]

\* Mutant: the walk down stops before the first block.
ReadCursorsEarly(p) ==
  /\ op[p].pc = "cursors"
  /\ op' = [op EXCEPT ![p] =
       IF @.at = "rebuild" THEN [Idle EXCEPT !.pc = "check", !.then = "fill"]
       ELSE IF @.at = "status" THEN Idle
       ELSE IF @.at = "head" THEN [@ EXCEPT !.pc = "max", !.lo = head]
       ELSE IF below <= 2 THEN Idle
       ELSE Chunked([@ EXCEPT !.hi = below - 1, !.end = Greater(0, below - 1 - Window)])]
  /\ UNCHANGED <<blocks, settings, ledger, flagged, secrets, history, bounds>>

\* A rebuild only wanted the check, a GET the numbers; the scan reads head, the fill below.
ReadCursors(p) ==
  /\ op[p].pc = "cursors"
  /\ op' = [op EXCEPT ![p] =
       IF @.at = "rebuild" THEN [Idle EXCEPT !.pc = "check", !.then = "fill"]
       ELSE IF @.at = "status" THEN Idle
       ELSE IF @.at = "head" THEN [@ EXCEPT !.pc = "max", !.lo = head]
       ELSE IF below <= 1 THEN Idle
       ELSE Chunked([@ EXCEPT !.hi = below - 1, !.end = Greater(0, below - 1 - Window)])]
  /\ UNCHANGED <<blocks, settings, ledger, flagged, secrets, history, bounds>>

ReadMax(p) ==
  /\ op[p].pc = "max"
  /\ op' = [op EXCEPT ![p] = AfterHead([@ EXCEPT !.end = maxBlockId, !.left = MaxPasses])]
  /\ UNCHANGED <<blocks, settings, ledger, flagged, secrets, history, bounds>>

------------------------------------------------------------------------------
(* classifyRange: the calls of the window in one transaction, the          *)
(* credentials of the window in another.                                   *)

\* Calls whose output was sighted.
SightedOutput(ids, sighted) == {c \in ids : \E r \in sighted : Answers(r, c)}

SecretsIn(lo, hi) == {b \in Between(lo, hi) : IsSecret(b)}

\* Mutant: a call is put in without a look at the sightings of its output.
ClassifyBlind(p) ==
  LET o == op[p]
      new == (Calls \cap Between(o.lo, o.hi)) \ ledger
  IN /\ o.pc = "calls"
     /\ ledger' = ledger \cup new
     /\ op' = [op EXCEPT ![p].pc = IF SecretsIn(o.lo, o.hi) = {} THEN "save" ELSE "record"]
     /\ UNCHANGED <<blocks, settings, flagged, secrets, history, bounds>>

Classify(p) ==
  LET o == op[p]
      new == (Calls \cap Between(o.lo, o.hi)) \ ledger
  IN /\ o.pc = "calls"
     /\ ledger' = ledger \cup new
     /\ flagged' = flagged \cup SightedOutput(new, seen)
     /\ op' = [op EXCEPT ![p].pc = IF SecretsIn(o.lo, o.hi) = {} THEN "save" ELSE "record"]
     /\ UNCHANGED <<blocks, settings, secrets, history, bounds>>

\* openFor: alerts on record that a sighting of this session and kind is
\* linked to, whatever kinds the alert itself names.
OpenFor(st, session, k) ==
  {a \in 1..Len(st.alerts) : st.alerts[a].open /\
     \E b \in 1..maxBlockId : st.alertOf[b] = a /\ blocks[b].session = session /\ k \in blocks[b].secrets}

Least(S) == CHOOSE x \in S : \A y \in S : x <= y

\* Mutant: the new alert is not linked to the sighting that raised it.
RaiseUnlinked(st, b) ==
  LET s     == blocks[b]
      fresh == {k \in s.secrets : OpenFor(st, s.session, k) = {}}
  IN [st EXCEPT !.alerts = Append(@, [session |-> s.session, named |-> fresh,
                                      count |-> 1, open |-> TRUE])]

\* One alert for what no open one covers, naming only that.
Raise(st, b) ==
  LET s     == blocks[b]
      fresh == {k \in s.secrets : OpenFor(st, s.session, k) = {}}
  IN [st EXCEPT !.alerts = Append(@, [session |-> s.session, named |-> fresh,
                                      count |-> 1, open |-> TRUE]),
                !.alertOf[b] = Len(st.alerts) + 1]

\* The first kind's oldest alert takes the sighting.
Join(st, b) ==
  LET s == blocks[b]
      a == Least(OpenFor(st, s.session, Least(s.secrets)))
  IN [st EXCEPT !.alerts[a].count = @ + 1, !.alertOf[b] = a]

Announce(st, b) ==
  IF \E k \in blocks[b].secrets : OpenFor(st, blocks[b].session, k) = {}
  THEN Raise(st, b) ELSE Join(st, b)

\* Sighting after sighting, in the order of the blocks.
AnnounceAll(st, ids) ==
  LET after[n \in 0..MaxBlocks] ==
        IF n = 0 THEN st
        ELSE IF n \in ids THEN Announce(after[n - 1], n) ELSE after[n - 1]
  IN after[MaxBlocks]

\* Mutant: a sighting that is known is announced all the same.
NewlyKnown(found) == found

\* ON CONFLICT(block_id) DO NOTHING, and a sighting that was there is left out.
New(found) == found \ seen

\* Mutant: the head scan's sightings are marked backfilled, the backfill's are not.
RecordSwapped(p) ==
  LET o      == op[p]
      start  == IF since = -1 THEN maxBlockId ELSE since
      new    == New(SecretsIn(o.lo, o.hi))
      loud   == IF o.at = "head" THEN {b \in new : ~Old(b, start)} ELSE {}
      onRecord == [alerts |-> alerts, alertOf |-> alertOf]
      result == AnnounceAll(AnnounceAll(onRecord, loud \cap Calls), loud \ Calls)
  IN /\ o.pc = "record"
     /\ since' = start
     /\ seen' = seen \cup new
     /\ announced' = IF o.at = "fill" THEN announced \cup new ELSE announced
     /\ flagged' = flagged \cup SightedOutput(ledger, new)
     /\ alerts' = result.alerts /\ alertOf' = result.alertOf
     /\ op' = [op EXCEPT ![p].pc = "save"]
     /\ UNCHANGED <<blocks, settings, ledger, history, bounds>>

\* recordSightings: the calls of the window, then the results.  The moment
\* alerting begins is set by the first window that has a credential.
Record(p) ==
  LET o      == op[p]
      start  == IF since = -1 THEN maxBlockId ELSE since
      new    == New(SecretsIn(o.lo, o.hi))
      loud   == IF o.at = "head" THEN {b \in new : ~Old(b, start)} ELSE {}
      onRecord == [alerts |-> alerts, alertOf |-> alertOf]
      result == AnnounceAll(AnnounceAll(onRecord, loud \cap Calls), loud \ Calls)
  IN /\ o.pc = "record"
     /\ since' = start
     /\ seen' = seen \cup new
     /\ announced' = IF o.at = "head" THEN announced \cup new ELSE announced
     /\ flagged' = flagged \cup SightedOutput(ledger, new)
     /\ alerts' = result.alerts /\ alertOf' = result.alertOf
     /\ op' = [op EXCEPT ![p].pc = "save"]
     /\ UNCHANGED <<blocks, settings, ledger, history, bounds>>

SaveHead(p) ==
  LET o == op[p]
  IN /\ o.pc = "save" /\ o.at = "head"
     /\ head' = o.hi
     /\ op' = [op EXCEPT ![p] = AfterHead([o EXCEPT !.lo = o.hi, !.left = o.left - 1])]
     /\ UNCHANGED <<blocks, rules, below, ledger, flagged, secrets, history, bounds>>

\* While the budget lasts another chunk follows.
SaveBelow(p) ==
  LET o == op[p]
  IN /\ o.pc = "save" /\ o.at = "fill"
     /\ below' = o.lo + 1
     /\ torn' = (torn \/ o.stale)
     /\ \/ op' = [op EXCEPT ![p] = Idle]
        \/ o.lo > o.end /\ op' = [op EXCEPT ![p] = Chunked([o EXCEPT !.hi = o.lo])]
     /\ UNCHANGED <<blocks, rules, head, ledger, flagged, secrets, resetAt, bounds>>

\* The process dies, or a statement finds the database locked and throws.
Abort(p) ==
  /\ op[p] # Idle /\ aborts < MaxAborts
  /\ aborts' = aborts + 1
  /\ op' = [op EXCEPT ![p] = Idle]
  /\ UNCHANGED <<blocks, settings, ledger, flagged, secrets, history, requests>>

Step(p) ==
  \/ Check(p) \/ Reset(p) \/ ReadCursors(p) \/ ReadMax(p)
  \/ Classify(p) \/ Record(p) \/ SaveHead(p) \/ SaveBelow(p)

Next ==
  \/ Arrive
  \/ \E a \in 1..Len(alerts) : Clear(a)
  \/ \E p \in Procs : Begin(p) \/ (\E at \in {"status", "head", "rebuild"} : Request(p, at)) \/ Step(p) \/ Abort(p)

Spec == Init /\ [][Next]_vars

\* A process that runs goes on.  The worker's timer fires again and again and
\* always asks for both walks.
BeginFull(p) == Begin(p) /\ op'[p].then = "fill"
FairSpec ==
  /\ Spec
  /\ \A p \in Procs : WF_vars(Step(p))
  /\ \A p \in Timer : SF_vars(BeginFull(p))

------------------------------------------------------------------------------
OpType == [pc : {"idle", "check", "reset", "cursors", "max", "calls", "record", "save"},
           at : {"head", "fill", "rebuild", "status"}, then : {"fill", "stop"},
           lo : 0..MaxBlocks, hi : 0..MaxBlocks, end : 0..MaxBlocks,
           left : 0..MaxPasses, stale : BOOLEAN]

AlertType == [session : Sessions, named : SUBSET Nat, count : 0..MaxBlocks, open : BOOLEAN]

TypeOK ==
  /\ blocks \in Seq(BlockType) /\ maxBlockId <= MaxBlocks
  /\ rules \in BOOLEAN /\ head \in 0..MaxBlocks /\ below \in 1..(MaxBlocks + 1)
  /\ ledger \subseteq Ids /\ flagged \subseteq Ids
  /\ seen \subseteq Ids /\ announced \subseteq seen
  /\ alertOf \in [Ids -> 0..Len(alerts)] /\ alerts \in Seq(AlertType)
  /\ since \in -1..MaxBlocks
  /\ op \in [Procs -> OpType]
  /\ resetAt \in 0..MaxBlocks /\ torn \in BOOLEAN
  /\ requests \in 0..MaxRequests /\ aborts \in 0..MaxAborts

\* The blocks the two cursors declare done: since the last reset up to head,
\* before it down to below.
Done == {b \in 1..maxBlockId : IF b > resetAt THEN b <= head ELSE b >= below}

\* Whoever moves the cursors, with whatever it read before: what they declare
\* done is classified, and its credentials are sighted, unless a backfill
\* wrote its cursor over a reset.
Coverage == torn \/ (Done \cap Calls \subseteq ledger /\ {b \in Done : IsSecret(b)} \subseteq seen)

\* A call in the ledger is flagged for a credential in its output exactly when
\* that output was sighted, whichever of the two was read first, by whom, and
\* however often the ledger was emptied.
FlagMatchesSightings == flagged = SightedOutput(ledger, seen)

\* "One alert per session and kind": no two open alerts of a session name the
\* same kind, with two processes scanning and the user clearing.
OneOpenAlertPerKind ==
  \A a, b \in 1..Len(alerts) :
    a # b /\ alerts[a].open /\ alerts[b].open /\ alerts[a].session = alerts[b].session
      => alerts[a].named \cap alerts[b].named = {}

\* An alert counts the sightings that are linked to it, each once, though
\* windows are scanned again after a crash, a rebuild or a lost race.
CountsSightings ==
  \A a \in 1..Len(alerts) : alerts[a].count = Cardinality({b \in Ids : alertOf[b] = a})

\* What arrived since the last reset is never taken for history: only a reset
\* can make a credential silent.
HistoryOnlyByReset == \A b \in seen \ announced : b <= resetAt

\* In the end every call is in the ledger, unless it was torn.
EventuallyComplete == <>[](torn \/ Calls \subseteq ledger)
=============================================================================
