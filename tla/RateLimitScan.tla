---------------------------- MODULE RateLimitScan ----------------------------
(***************************************************************************)
(* Rate-limit events.  A refused call is known from two sources: a record  *)
(* of the harness itself (a throttle line, or an API-error message of      *)
(* Claude Code), written as an event when ingest reads it, and the error   *)
(* text in some block, which a scanner finds later, from a cursor.  The    *)
(* record wins: the scanner leaves out what a record of the same session   *)
(* covers within a minute.  The web server may scan from scratch, and may  *)
(* rebuild the events of records from the journals on disk.                *)
(*                                                                         *)
(* The journal of one session is a sequence of items behind its header;    *)
(* ingest stores them in order, and the place of an item is the id of its  *)
(* block.  Prose of a model is no item: the scanner passes over it.        *)
(* Records are of one kind and carry a time.  One without a time is left   *)
(* out: it is stamped as it is read, and a rebuild writes it every time.   *)
(***************************************************************************)
EXTENDS Integers, Sequences, FiniteSets

CONSTANTS
  Journals,     \* bound: the journals there may be
  MaxItems,     \* bound: items in a journal
  Minute,       \* how far a record reaches
  BatchSize,    \* batch
  MaxPosts,     \* bound: POSTs to /api/rate-limits
  MaxRereads,   \* bound: throttle lines that are read again
  MaxFailures   \* bound: events ingest fails to write, processes that die

Ids == 1..MaxItems
Item == [kind : {"text", "throttle", "apierror"}, at : Nat]

ASSUME ConstantsAssumption ==
  /\ MaxItems \in Nat /\ MaxPosts \in Nat /\ MaxRereads \in Nat /\ MaxFailures \in Nat
  /\ Minute \in Nat /\ BatchSize \in Nat \ {0}
  /\ \A j \in Journals : j \in Seq(Item) /\ Len(j) <= MaxItems

Procs == {"worker", "web"}

VARIABLES
  journal,   \* the file on disk
  session,   \* whether ingest has made the row of its session
  stored,    \* items of it that ingest has stored
  scanned,   \* rate_limit_events of the scanner: their block_id
  reported,  \* events of rule harness-reported and this session: how many, per item
  loose,     \* records with an event of no session
  linked,    \* items with such an event that carries their message_id
  cursor,    \* rate_limit_scan_cursor
  op,        \* per process: the scan it is in
  late,      \* history: records written when their text had been scanned
  ahead,     \* history: records rebuilt from disk before ingest read them
  again,     \* history: throttle lines that ingest read again
  failed,    \* history: records whose event ingest could not write
  torn,      \* history: the cursor passed blocks that a rescan had cleared
  posts, rereads, failures

events  == <<scanned, reported, loose, linked>>
history == <<late, ahead, again, failed, torn>>
bounds  == <<posts, rereads, failures>>
vars    == <<journal, session, stored, events, cursor, op, history, bounds>>

Idle     == [pc |-> "idle", drain |-> FALSE, from |-> 0, rows |-> {}, stale |-> FALSE]
IsText(b)   == journal[b].kind = "text"
IsRecord(r) == journal[r].kind # "text"
Near(a, b)  == LET d == journal[a].at - journal[b].at IN -Minute <= d /\ d <= Minute
Texts       == {b \in 1..stored : IsText(b)}
Reported    == {r \in 1..Len(journal) : reported[r] > 0}

------------------------------------------------------------------------------
Init ==
  /\ journal \in Journals
  /\ session = FALSE /\ stored = 0
  /\ scanned = {} /\ reported = [r \in Ids |-> 0] /\ loose = {} /\ linked = {}
  /\ cursor = 0 /\ op = [p \in Procs |-> Idle]
  /\ late = {} /\ ahead = {} /\ again = {} /\ failed = {} /\ torn = FALSE
  /\ posts = 0 /\ rereads = 0 /\ failures = 0

\* recordHarnessRefusal, for the records in `new': one more event each.
Write(new, messages) ==
  /\ reported' = [r \in Ids |-> IF r \in new THEN reported[r] + 1 ELSE reported[r]]
  /\ linked' = linked \cup messages
  /\ late' = late \cup {r \in new : \E b \in scanned : Near(b, r)}

\* getOrCreateSession, before the lines are read.
OpenSession ==
  /\ ~session /\ session' = TRUE
  /\ UNCHANGED <<journal, stored, events, cursor, op, history, bounds>>

\* Ingest stores the next item; a record has its event at once, or never: an
\* insert that fails is swallowed, the line is behind the offset.
StoreItem ==
  /\ session /\ stored < Len(journal)
  /\ stored' = stored + 1
  /\ LET r == stored + 1
     IN IF IsText(r) THEN UNCHANGED <<reported, linked, late, failed, failures>>
        ELSE \/ /\ Write({r}, IF journal[r].kind = "apierror" THEN {r} ELSE {})
                /\ UNCHANGED <<failed, failures>>
             \/ /\ failures < MaxFailures /\ failures' = failures + 1
                /\ failed' = failed \cup {r}
                /\ UNCHANGED <<reported, linked, late>>
  /\ UNCHANGED <<journal, session, scanned, loose, cursor, op, ahead, again, torn, posts, rereads>>

\* A batch is read again whose offset was not saved, or was put back, or that
\* another pass has too.  A message that is there is passed over, with its API
\* error; nothing tells a throttle line from one that is new.
Reread(r) ==
  /\ r <= stored /\ journal[r].kind = "throttle"
  /\ rereads < MaxRereads /\ rereads' = rereads + 1
  /\ Write({r}, {}) /\ again' = again \cup {r}
  /\ UNCHANGED <<journal, session, stored, scanned, loose, cursor, op, ahead, failed, torn,
                posts, failures>>

------------------------------------------------------------------------------
(* A scan: the cursor is read, then a batch of blocks with text behind it; *)
(* then what is found is written with the cursor in one transaction.       *)

\* The worker, every minute.
Tick ==
  /\ op["worker"] = Idle
  /\ op' = [op EXCEPT !["worker"].pc = "read"]
  /\ UNCHANGED <<journal, session, stored, events, cursor, history, bounds>>

\* POST, with or without { fromScratch } and { drain }.
Post ==
  /\ op["web"] = Idle /\ posts < MaxPosts /\ posts' = posts + 1
  /\ \E pc \in {"read", "wipe"}, drain \in BOOLEAN :
       op' = [op EXCEPT !["web"] = [Idle EXCEPT !.pc = pc, !.drain = drain]]
  /\ UNCHANGED <<journal, session, stored, events, cursor, history, rereads, failures>>

\* Mutant: all events, the harness's own too.
WipeAll(p) ==
  /\ op[p].pc = "wipe"
  /\ scanned' = {} /\ reported' = [r \in Ids |-> 0] /\ linked' = {} /\ late' = {}
  /\ op' = [op EXCEPT ![p].pc = "zero"]
  /\ UNCHANGED <<journal, session, stored, loose, cursor, ahead, again, failed, torn, bounds>>

\* From scratch: the scanner's events go, ...
Wipe(p) ==
  /\ op[p].pc = "wipe"
  /\ scanned' = {} /\ late' = {}
  /\ op' = [op EXCEPT ![p].pc = "zero"]
  /\ UNCHANGED <<journal, session, stored, reported, loose, linked, cursor,
                ahead, again, failed, torn, bounds>>

\* ... and then, in a statement of its own, the cursor.
Zero(p) ==
  /\ op[p].pc = "zero"
  /\ cursor' = 0 /\ torn' = FALSE
  /\ op' = [q \in Procs |-> IF q = p THEN [op[p] EXCEPT !.pc = "read"]
                            ELSE [op[q] EXCEPT !.stale = op[q].pc \in {"select", "write"}]]
  /\ UNCHANGED <<journal, session, stored, events, late, ahead, again, failed, bounds>>

\* getCursor.
ReadCursor(p) ==
  /\ op[p].pc = "read"
  /\ op' = [op EXCEPT ![p].pc = "select", ![p].from = cursor]
  /\ UNCHANGED <<journal, session, stored, events, cursor, history, bounds>>

\* Mutant: the newest of them.
BatchNewest(from) ==
  LET behind == {b \in Texts : b > from}
  IN {b \in behind : Cardinality({x \in behind : x >= b}) <= BatchSize}

\* The first BatchSize blocks with text behind the cursor that was read.
Batch(from) ==
  LET behind == {b \in Texts : b > from}
  IN {b \in behind : Cardinality({x \in behind : x <= b}) <= BatchSize}

Select(p) ==
  LET rows == Batch(op[p].from)
  IN /\ op[p].pc = "select"
     /\ op' = [op EXCEPT ![p] = IF rows = {} THEN Idle
                                ELSE [@ EXCEPT !.pc = "write", !.rows = rows]]
     /\ UNCHANGED <<journal, session, stored, events, cursor, history, bounds>>

Covered(b) == \E r \in Reported : Near(b, r)
Last(rows) == CHOOSE b \in rows : \A x \in rows : x <= b

\* Mutant: no look at what the harness reported.
WriteAll(p) ==
  LET o == op[p]
  IN /\ o.pc = "write"
     /\ scanned' = scanned \cup o.rows
     /\ cursor' = Last(o.rows)
     /\ torn' = (torn \/ o.stale)
     /\ op' = [op EXCEPT ![p] = IF o.drain THEN [Idle EXCEPT !.pc = "read", !.drain = TRUE] ELSE Idle]
     /\ UNCHANGED <<journal, session, stored, reported, loose, linked, late, ahead, again, failed, bounds>>

\* Mutant: the cursor one block too far.
WritePast(p) ==
  LET o == op[p]
  IN /\ o.pc = "write"
     /\ scanned' = scanned \cup {b \in o.rows : ~Covered(b)}
     /\ cursor' = Last(o.rows) + 1
     /\ torn' = (torn \/ o.stale)
     /\ op' = [op EXCEPT ![p] = IF o.drain THEN [Idle EXCEPT !.pc = "read", !.drain = TRUE] ELSE Idle]
     /\ UNCHANGED <<journal, session, stored, reported, loose, linked, late, ahead, again, failed, bounds>>

\* ON CONFLICT(block_id) DO NOTHING.  A scan that drains goes on to the next
\* batch, until there is none.
WriteFound(p) ==
  LET o == op[p]
  IN /\ o.pc = "write"
     /\ scanned' = scanned \cup {b \in o.rows : ~Covered(b)}
     /\ cursor' = Last(o.rows)
     /\ torn' = (torn \/ o.stale)
     /\ op' = [op EXCEPT ![p] = IF o.drain THEN [Idle EXCEPT !.pc = "read", !.drain = TRUE] ELSE Idle]
     /\ UNCHANGED <<journal, session, stored, reported, loose, linked, late, ahead, again, failed, bounds>>

\* A process dies in a scan, or the database is locked and the scan throws:
\* between the two statements of a rescan the cursor stays where it was.
Abort(p) ==
  /\ op[p] # Idle /\ failures < MaxFailures /\ failures' = failures + 1
  /\ op' = [op EXCEPT ![p] = Idle]
  /\ torn' = (torn \/ op[p].pc = "zero")
  /\ UNCHANGED <<journal, session, stored, events, cursor, late, ahead, again, failed, posts, rereads>>

------------------------------------------------------------------------------
\* backfillReportedRefusals: an API error that is stored is looked up by its
\* message, everything else by session and time.  As long as the session has no
\* row, what is looked for, and written, has no session.
Exists(r) ==
  IF journal[r].kind = "apierror" /\ r <= stored THEN r \in linked
  ELSE \E q \in IF session THEN Reported ELSE loose : journal[q].at = journal[r].at

\* POST { backfillReported }: all of the disk in one transaction.  Of records
\* of the same time the first is written and found by the others.
Backfill ==
  /\ op["web"] = Idle /\ posts < MaxPosts /\ posts' = posts + 1
  /\ LET missing == {r \in 1..Len(journal) : IsRecord(r) /\ ~Exists(r)}
         byTime(r) == ~(journal[r].kind = "apierror" /\ r <= stored)
         new == {r \in missing : ~byTime(r) \/ \A q \in missing : q < r => journal[q].at # journal[r].at}
     IN \/ /\ session /\ Write(new, {r \in new : ~byTime(r)})
           /\ ahead' = ahead \cup {r \in new : r > stored}
           /\ UNCHANGED loose
        \/ /\ ~session /\ loose' = loose \cup new
           /\ UNCHANGED <<reported, linked, late, ahead>>
  /\ UNCHANGED <<journal, session, stored, scanned, cursor, op, again, failed, torn,
                rereads, failures>>

Step(p) == Wipe(p) \/ Zero(p) \/ ReadCursor(p) \/ Select(p) \/ WriteFound(p)

Next ==
  \/ OpenSession \/ StoreItem \/ Tick \/ Post \/ Backfill
  \/ \E r \in Ids : Reread(r)
  \/ \E p \in Procs : Step(p) \/ Abort(p)

Spec == Init /\ [][Next]_vars

\* The worker scans every minute, and a process that runs goes on.
FairSpec == Spec /\ WF_vars(Tick) /\ \A p \in Procs : WF_vars(Step(p))

------------------------------------------------------------------------------
TypeOK ==
  /\ journal \in Journals /\ session \in BOOLEAN /\ stored \in 0..Len(journal)
  /\ scanned \subseteq Texts /\ linked \subseteq Reported /\ loose \subseteq Ids
  /\ reported \in [Ids -> Nat] /\ cursor \in 0..stored
  /\ op \in [Procs -> [pc : {"idle", "wipe", "zero", "read", "select", "write"}, drain : BOOLEAN,
                       from : 0..stored, rows : SUBSET Texts, stale : BOOLEAN]]
  /\ late \subseteq Reported /\ ahead \subseteq Ids /\ again \subseteq Ids
  /\ failed \subseteq Ids /\ torn \in BOOLEAN
  /\ posts \in 0..MaxPosts /\ rereads \in 0..MaxRereads /\ failures \in 0..MaxFailures

\* What the cursor has passed is known as an event, from the text or from a
\* record near it, with two processes scanning and one of them starting over;
\* unless a rescan is between its two statements, or was torn.
PassedIsKnown ==
  \/ torn \/ \E p \in Procs : op[p].pc = "zero"
  \/ \A b \in Texts : b <= cursor => b \in scanned \/ Covered(b)

\* "So the error text printed alongside never double-counts": text and record
\* are both events only where the record came after the text was scanned; and a
\* rescan clears that.  (An event of no session, from a rebuild that came before
\* the session, covers nothing and is left out here and below.)
DoubleOnlyIfLate == \A b \in scanned, r \in Reported : Near(b, r) => r \in late

\* The events of records survive every rescan, and are there once for each,
\* unless ingest failed to write one, read its line again, or a rebuild read the
\* disk ahead of ingest.
RecordsKept ==
  \A r \in 1..stored : IsRecord(r) =>
    /\ reported[r] = 0 => r \in failed
    /\ reported[r] > 1 => r \in ahead \cup again

\* In the end every refusal that is stored is an event.
EventuallyKnown == <>[](torn \/ \A b \in Texts : b \in scanned \/ Covered(b))
=============================================================================
