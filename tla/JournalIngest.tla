---------------------------- MODULE JournalIngest ----------------------------
(***************************************************************************)
(* One JSONL journal, its writer, and the ingest passes that read it.      *)
(*                                                                         *)
(* The writer appends lines, possibly a part of a line at a time.  A pass  *)
(* stats the file, resumes at the byte offset stored for it, streams it to *)
(* the end the file has WHEN IT IS READ, commits the lines in batches of   *)
(* one transaction each, persists the chain verifier, and last of all      *)
(* writes the offset: the end it saw in stat minus the length of a partial *)
(* last line.  Several passes exist (the worker's poll, its file watcher,  *)
(* the child process of POST /api/ingest); passes of one process           *)
(* interleave at awaits, passes of two processes at every statement, and a *)
(* process may die at any point.                                           *)
(*                                                                         *)
(* Bytes are counted, never spelled: `ends' holds the position just after  *)
(* the newline of each complete line, `size' the length of the file.       *)
(*                                                                         *)
(* A statement may throw (SQLITE_BUSY after the timeout, a foreign key, a  *)
(* malformed field).  In the loop over the lines of a batch that is caught *)
(* line by line, and the pass goes on, with the offset past the line.      *)
(* Elsewhere nothing catches it and the pass ends.  The journal is         *)
(* append-only, as its format requires.                                    *)
(***************************************************************************)
EXTENDS Integers, Sequences

CONSTANTS
  Passes,         \* the passes that may run
  FullPasses,     \* those that visit every directory, from an offsets snapshot
  Processes,      \* operating system processes
  ProcessOf,      \* the process each pass runs in
  Readers,        \* the reader loops considered: a subset of AllReaders
  Kind,           \* what the i-th line of the journal is
  MaxLines,       \* bound: lines the writer appends
  MaxText,        \* bound: bytes of text in one line
  PartialWrites,  \* may the writer append less than a line at once?
  Faulty,         \* bound: the lines of which a statement may throw
  MaxFaults       \* bound: process deaths, passes that throw, and batches in
                  \* which lines throw

Lines     == 1..MaxLines
LineKinds == {"message", "delegation", "anonymous", "throttle"}
AllReaders == {"native", "claude-code"}
NoSnapshot == [taken |-> FALSE, at |-> 0]

ASSUME ConstantsAssumption ==
  /\ MaxLines \in Nat /\ MaxText \in Nat \ {0} /\ MaxFaults \in Nat
  /\ PartialWrites \in BOOLEAN /\ Faulty \subseteq Lines
  /\ FullPasses \subseteq Passes
  /\ ProcessOf \in [Passes -> Processes]
  /\ Readers \subseteq AllReaders
  /\ Kind \in [Lines -> LineKinds]

VARIABLES
  reader,     \* which loop reads the journal: fixed by its directory
  ends,       \* the journal: end of every complete line, in order
  size,       \* the journal: its length
  tailWhole,  \* the unterminated tail already is a whole record
  offset,     \* ingest_offsets.byte_offset, 0 without a row
  rows,       \* database rows stored per line: messages, or rate-limit events
  usage,      \* times a line's tokens were added to usage_minutes
  parent,     \* sessions.delegated_from is set
  chain,      \* session_chain: last line chained, and whether a break is on record
  snapshot,   \* per process: the offsets snapshot of ingest-cache.ts
  pc,         \* per pass: the step it is at
  stat, done, pos, tail,  \* per pass: size seen by stat, bytes committed, bytes
              \* read, length of the partial tail held back
  delegated,  \* per pass: a parent was named by a line of this pass
  tracker,    \* per pass: SessionChainTracker
  faults,     \* deaths, passes and batches that threw, so far
  raced,      \* history: the file grew between stat and read, two passes
              \* overlapped, or a pass broke off between flush and offset
  lost,       \* history: lines whose insert has thrown
  uncounted   \* history: lines that were stored, and threw before their usage

journal  == <<reader, ends, size, tailWhole>>
database == <<offset, rows, usage, parent, chain>>
cursor   == <<stat, done, pos, tail, delegated, tracker>>
losses   == <<lost, uncounted>>
vars     == <<journal, database, snapshot, pc, cursor, faults, raced, losses>>

------------------------------------------------------------------------------
(* The journal as a sequence of lines.                                     *)

LastEnd      == IF ends = <<>> THEN 0 ELSE ends[Len(ends)]
LineStart(i) == IF i = 1 THEN 0 ELSE ends[i - 1]
TextEnd(i)   == IF i <= Len(ends) THEN ends[i] - 1 ELSE size
Finished(i)  == i <= Len(ends) \/ tailWhole

\* Lines of which a reader of the bytes (lo, up] gets some text.
Seen(lo, up) ==
  {i \in Lines : /\ i <= Len(ends) + 1
                 /\ lo < up /\ LineStart(i) < up
                 /\ lo < TextEnd(i) /\ LineStart(i) < TextEnd(i)}

\* Those it gets whole: JSON.parse and splitChainedLine succeed on no other.
Whole(lo, up) ==
  {i \in Seen(lo, up) : lo <= LineStart(i) /\ TextEnd(i) <= up /\ Finished(i)}

\* A message with an id is stored through the unique index on message_uuid;
\* messages without one and throttle records are stored each time.
Identified(i) == Kind[i] \in {"message", "delegation"}
HasUsage(i)   == Kind[i] \in {"message", "anonymous"}
NamesParent(i) == reader = "claude-code" /\ Kind[i] = "delegation"

------------------------------------------------------------------------------
(* SessionChainTracker.  Every line of a native journal carries a hash     *)
(* over the previous one; a tracker that starts mid-file with no row on    *)
(* record is deferred and records nothing.  A Claude Code transcript has   *)
(* no hash, so its tracker (hashed = 0) never reaches session_chain.       *)

NoChain == [last |-> 0, broken |-> FALSE]
Idle    == [live |-> FALSE, last |-> 0, broken |-> FALSE]

\* Mutant: the row on record is not read back.
ResumeAfresh(reset) ==
  IF reader # "native" THEN Idle ELSE [live |-> TRUE, last |-> 0, broken |-> FALSE]

Resume(reset) ==
  IF reader # "native" THEN Idle
  ELSE IF reset THEN [live |-> TRUE, last |-> 0, broken |-> FALSE]
  ELSE [live |-> chain.last > 0, last |-> chain.last, broken |-> chain.broken]

\* Pass p feeds the lines of (lo, up] one by one.  A fragment is a break
\* (unchained_line or hash_mismatch), and so is a first line that does not
\* follow the last one (prev_mismatch).
Feed(p, lo, up) ==
  LET t    == tracker[p]
      seen == Seen(lo, up)
  IN IF ~t.live \/ seen = {} THEN UNCHANGED tracker
     ELSE \E first, last \in seen :
            /\ \A i \in seen : first <= i /\ i <= last
            /\ tracker' = [tracker EXCEPT ![p] =
                 [live |-> TRUE, last |-> last,
                  broken |-> t.broken \/ seen # Whole(lo, up) \/ first # t.last + 1]]

------------------------------------------------------------------------------
Init ==
  /\ reader \in Readers
  /\ ends = <<>> /\ size = 0 /\ tailWhole = FALSE
  /\ offset = 0 /\ parent = FALSE /\ chain = NoChain
  /\ rows = [i \in Lines |-> 0] /\ usage = [i \in Lines |-> 0]
  /\ snapshot = [r \in Processes |-> NoSnapshot]
  /\ pc = [p \in Passes |-> "idle"]
  /\ stat = [p \in Passes |-> 0] /\ done = [p \in Passes |-> 0]
  /\ pos = [p \in Passes |-> 0] /\ tail = [p \in Passes |-> 0]
  /\ delegated = [p \in Passes |-> FALSE]
  /\ tracker = [p \in Passes |-> Idle]
  /\ faults = 0 /\ raced = FALSE /\ lost = {} /\ uncounted = {}

(* The writer: a line is one write of text and newline, or it reaches the  *)
(* file in several parts.                                                  *)
WriteLine ==
  /\ ~PartialWrites /\ Len(ends) < MaxLines
  /\ \E n \in 1..MaxText :
       /\ size' = size + n + 1
       /\ ends' = Append(ends, size + n + 1)
  /\ UNCHANGED <<reader, tailWhole, database, snapshot, pc, cursor, faults, raced, losses>>

\* Part of a line reaches the file; with `whole' only its newline is missing.
WriteText ==
  /\ PartialWrites /\ Len(ends) < MaxLines /\ ~tailWhole
  /\ \E n \in 1..MaxText, whole \in BOOLEAN :
       /\ size + n - LastEnd <= MaxText
       /\ size' = size + n
       /\ tailWhole' = whole
  /\ UNCHANGED <<reader, ends, database, snapshot, pc, cursor, faults, raced, losses>>

WriteNewline ==
  /\ tailWhole
  /\ size' = size + 1
  /\ ends' = Append(ends, size + 1)
  /\ tailWhole' = FALSE
  /\ UNCHANGED <<reader, database, snapshot, pc, cursor, faults, raced, losses>>

------------------------------------------------------------------------------
(* A pass.  From its last batch to its offset it does not await, so no     *)
(* other pass of its process takes a step.                                 *)

InSync == {"last", "flush", "link", "offset"}
MayStep(p) == \A q \in Passes \ {p} : ProcessOf[q] = ProcessOf[p] => pc[q] \notin InSync
Goto(p, l) == pc' = [pc EXCEPT ![p] = l]

\* ingestAll: a full pass installs a snapshot of the offsets in a module
\* variable of its process, a targeted one clears it.
Begin(p) ==
  /\ pc[p] = "idle" /\ MayStep(p)
  /\ snapshot' = [snapshot EXCEPT ![ProcessOf[p]] =
                    IF p \in FullPasses THEN [taken |-> TRUE, at |-> offset] ELSE NoSnapshot]
  /\ raced' = (raced \/ \E q \in Passes : pc[q] # "idle")
  /\ Goto(p, "visit")
  /\ UNCHANGED <<journal, database, cursor, faults, losses>>

\* The stat and the offset; a file with no new bytes is left alone.
Visit(p) ==
  LET snap  == snapshot[ProcessOf[p]]
      known == IF snap.taken THEN snap.at ELSE offset
  IN /\ pc[p] = "visit" /\ MayStep(p)
     /\ stat' = [stat EXCEPT ![p] = size]
     /\ done' = [done EXCEPT ![p] = known]
     /\ Goto(p, IF size <= known THEN "end" ELSE "open")
     /\ UNCHANGED <<journal, database, snapshot, pos, tail, delegated, tracker,
                    faults, raced, losses>>

\* After the await on lastByteIsNewline: the tracker, which drops what is on
\* record when the file is read from its first byte, and the stream.
Open(p) ==
  /\ pc[p] = "open" /\ MayStep(p) /\ done[p] >= 0
  /\ tracker' = [tracker EXCEPT ![p] = Resume(done[p] = 0)]
  /\ chain' = IF done[p] = 0 THEN NoChain ELSE chain
  /\ pos' = [pos EXCEPT ![p] = done[p]]
  /\ delegated' = [delegated EXCEPT ![p] = FALSE]
  /\ Goto(p, "stream")
  /\ UNCHANGED <<journal, offset, rows, usage, parent, snapshot, stat, done, tail,
                 faults, raced, losses>>

\* createReadStream refuses a negative start; nothing on the way catches it,
\* so the whole pass ends here.
OpenThrows(p) ==
  /\ pc[p] = "open" /\ MayStep(p) /\ done[p] < 0
  /\ Goto(p, "end")
  /\ UNCHANGED <<journal, database, snapshot, cursor, faults, raced, losses>>

\* The stream has no end option: it reads what the file holds now.
ReadChunk(p) ==
  /\ pc[p] = "stream" /\ MayStep(p) /\ pos[p] < size
  /\ pos' = [pos EXCEPT ![p] = size]
  /\ UNCHANGED <<journal, database, snapshot, pc, stat, done, tail, delegated,
                 tracker, faults, raced, losses>>

\* The whole lines of (lo, up] that have no row yet, or may have another; and
\* those of them whose tokens belong to a session no line has named a parent of.
New(lo, up) == {i \in Whole(lo, up) : Identified(i) => rows[i] = 0}
Named(p, lo, up, i) == delegated[p] \/ \E j \in Whole(lo, up) : j <= i /\ NamesParent(j)

\* Mutant: tokens are counted before the unique index has had its say.
StoreLinesCountFirst(p, lo, up) ==
  /\ rows' = [i \in Lines |-> rows[i] + (IF i \in New(lo, up) THEN 1 ELSE 0)]
  /\ usage' = [i \in Lines |-> usage[i] +
       (IF i \in Whole(lo, up) /\ HasUsage(i) /\ ~Named(p, lo, up, i) THEN 1 ELSE 0)]
  /\ delegated' = [delegated EXCEPT ![p] = @ \/ \E j \in Whole(lo, up) : NamesParent(j)]
  /\ UNCHANGED <<faults, losses>>
  /\ Feed(p, lo, up)

\* One transaction over the lines of (lo, up], each in a try of its own, behind
\* the verifier.  Of a new line the insert may throw, and then there is no row
\* of it; or what lies between its row and its usage (blocks, todos, the rollup
\* itself), and then there is a row and no usage.
StoreLines(p, lo, up) ==
  /\ \E failing \in SUBSET (New(lo, up) \cap Faulty) :
     \E cut \in SUBSET ((New(lo, up) \cap Faulty) \ failing) :
       /\ rows' = [i \in Lines |-> rows[i] + (IF i \in New(lo, up) \ failing THEN 1 ELSE 0)]
       /\ usage' = [i \in Lines |-> usage[i] +
            (IF i \in New(lo, up) \ (failing \cup cut) /\ HasUsage(i) /\ ~Named(p, lo, up, i)
             THEN 1 ELSE 0)]
       /\ lost' = lost \cup failing /\ uncounted' = uncounted \cup cut
       /\ \/ failing = {} /\ cut = {} /\ UNCHANGED faults
          \/ failing \cup cut # {} /\ faults < MaxFaults /\ faults' = faults + 1
  /\ delegated' = [delegated EXCEPT ![p] = @ \/ \E j \in Whole(lo, up) : NamesParent(j)]
  /\ Feed(p, lo, up)

\* A batch closes at 500 lines or 2 MiB, so after any number of them; the
\* last line the stream gave is held, never in it.
CommitBatch(p) ==
  /\ pc[p] = "stream" /\ MayStep(p)
  /\ \E k \in 1..Len(ends) :
       /\ done[p] < ends[k] /\ k < Len(ends) /\ ends[k + 1] <= pos[p]
       /\ StoreLines(p, done[p], ends[k])
       /\ done' = [done EXCEPT ![p] = ends[k]]
  /\ UNCHANGED <<journal, offset, parent, chain, snapshot, pc, stat, pos, tail, raced>>

\* End of file.  When stat ended with a newline the held line joins the last
\* batch, else it is the partial tail and its length is taken off the offset.
EndOfStream(p) ==
  LET endsWithNewline == \E k \in 1..Len(ends) : ends[k] = stat[p]
      terminated == ends # <<>> /\ pos[p] = LastEnd
      heldLine   == IF terminated THEN Len(ends) ELSE Len(ends) + 1
      heldFrom   == IF LineStart(heldLine) < done[p] THEN done[p] ELSE LineStart(heldLine)
      heldTo     == IF terminated THEN pos[p] - 1 ELSE pos[p]
  IN /\ pc[p] = "stream" /\ MayStep(p) /\ pos[p] = size
     /\ pos' = [pos EXCEPT ![p] = IF endsWithNewline THEN pos[p] ELSE heldFrom]
     /\ tail' = [tail EXCEPT ![p] = IF endsWithNewline THEN 0 ELSE heldTo - heldFrom]
     /\ raced' = (raced \/ pos[p] # stat[p])
     /\ Goto(p, "last")
     /\ UNCHANGED <<journal, database, snapshot, stat, done, delegated, tracker,
                    faults, losses>>

LastBatch(p) ==
  /\ pc[p] = "last" /\ MayStep(p)
  /\ StoreLines(p, done[p], pos[p])
  /\ done' = [done EXCEPT ![p] = pos[p]]
  /\ Goto(p, "flush")
  /\ UNCHANGED <<journal, offset, parent, chain, snapshot, stat, pos, tail, raced>>

\* chain.flush(): nothing fed, or deferred, writes nothing.
FlushChain(p) ==
  /\ pc[p] = "flush" /\ MayStep(p)
  /\ chain' = IF tracker[p].live /\ tracker[p].last > 0
              THEN [last |-> tracker[p].last, broken |-> tracker[p].broken]
              ELSE chain
  /\ Goto(p, IF reader = "native" THEN "offset" ELSE "link")
  /\ UNCHANGED <<journal, offset, rows, usage, parent, snapshot, cursor, faults, raced, losses>>

LinkParent(p) ==
  /\ pc[p] = "link" /\ MayStep(p)
  /\ parent' = (parent \/ delegated[p])
  /\ Goto(p, "offset")
  /\ UNCHANGED <<journal, offset, rows, usage, chain, snapshot, cursor, faults, raced, losses>>

\* Mutant: the size the file has by now.
CommitOffsetOfNow(p) ==
  /\ pc[p] = "offset" /\ MayStep(p)
  /\ offset' = size
  /\ Goto(p, "end")
  /\ UNCHANGED <<journal, rows, usage, parent, chain, snapshot, cursor, faults, raced, losses>>

\* Mutant: the partial tail is not taken off.
CommitOffsetOfStat(p) ==
  /\ pc[p] = "offset" /\ MayStep(p)
  /\ offset' = stat[p]
  /\ Goto(p, "end")
  /\ UNCHANGED <<journal, rows, usage, parent, chain, snapshot, cursor, faults, raced, losses>>

\* Mutant: INSERT OR IGNORE in place of the upsert.
CommitOffsetOnce(p) ==
  /\ pc[p] = "offset" /\ MayStep(p)
  /\ offset' = IF offset = 0 THEN stat[p] - tail[p] ELSE offset
  /\ Goto(p, "end")
  /\ UNCHANGED <<journal, rows, usage, parent, chain, snapshot, cursor, faults, raced, losses>>

CommitOffset(p) ==
  /\ pc[p] = "offset" /\ MayStep(p)
  /\ offset' = stat[p] - tail[p]
  /\ Goto(p, "end")
  /\ UNCHANGED <<journal, rows, usage, parent, chain, snapshot, cursor, faults, raced, losses>>

\* The locals of passes that are over.
Forget(over) ==
  LET Zero(f) == [p \in Passes |-> IF p \in over THEN 0 ELSE f[p]]
  IN /\ stat' = Zero(stat) /\ done' = Zero(done)
     /\ pos' = Zero(pos) /\ tail' = Zero(tail)
     /\ delegated' = [p \in Passes |-> p \notin over /\ delegated[p]]
     /\ tracker' = [p \in Passes |-> IF p \in over THEN Idle ELSE tracker[p]]

\* The finally of ingestAll clears the snapshot, whoever installed it.
End(p) ==
  /\ pc[p] = "end" /\ MayStep(p)
  /\ snapshot' = [snapshot EXCEPT ![ProcessOf[p]] = NoSnapshot]
  /\ Goto(p, "idle")
  /\ Forget({p})
  /\ UNCHANGED <<journal, database, faults, raced, losses>>

\* A process dies with its passes; committed transactions stay.
Crash(r) ==
  LET own(labels) == \E p \in Passes : ProcessOf[p] = r /\ pc[p] \in labels
  IN /\ faults < MaxFaults /\ own({"open", "stream"} \cup InSync)
     /\ faults' = faults + 1
     /\ pc' = [p \in Passes |-> IF ProcessOf[p] = r THEN "idle" ELSE pc[p]]
     /\ snapshot' = [snapshot EXCEPT ![r] = NoSnapshot]
     /\ raced' = (raced \/ own({"link", "offset"}))
     /\ Forget({p \in Passes : ProcessOf[p] = r})
     /\ UNCHANGED <<journal, database, losses>>

\* A statement outside the loop over the lines throws: the transaction it is
\* in is rolled back, and the pass ends.
Throw(p) ==
  /\ pc[p] \in {"open", "stream"} \cup InSync /\ MayStep(p)
  /\ faults < MaxFaults /\ faults' = faults + 1
  /\ raced' = (raced \/ pc[p] \in {"link", "offset"})
  /\ Goto(p, "end") /\ Forget({p})
  /\ UNCHANGED <<journal, database, snapshot, losses>>

PassStep(p) ==
  \/ Begin(p) \/ Visit(p) \/ Open(p) \/ OpenThrows(p) \/ ReadChunk(p)
  \/ CommitBatch(p) \/ EndOfStream(p) \/ LastBatch(p) \/ FlushChain(p)
  \/ LinkParent(p) \/ CommitOffset(p) \/ End(p)

Next ==
  \/ WriteLine \/ WriteText \/ WriteNewline
  \/ \E p \in Passes : PassStep(p) \/ Throw(p)
  \/ \E r \in Processes : Crash(r)

Spec == Init /\ [][Next]_vars

\* The worker's timer starts a full pass again and again and the event loop
\* runs whatever is ready; the writer and the crashes owe nothing.
FairSpec == Spec /\ \A p \in Passes : WF_vars(PassStep(p))

------------------------------------------------------------------------------
Labels == {"idle", "visit", "open", "stream", "end"} \cup InSync

TypeOK ==
  /\ reader \in AllReaders
  /\ ends \in Seq(Nat) /\ Len(ends) <= MaxLines
  /\ size \in Nat /\ tailWhole \in BOOLEAN
  /\ offset \in Int /\ parent \in BOOLEAN
  /\ rows \in [Lines -> Nat] /\ usage \in [Lines -> Nat]
  /\ chain \in [last : Nat, broken : BOOLEAN]
  /\ snapshot \in [Processes -> [taken : BOOLEAN, at : Int]]
  /\ pc \in [Passes -> Labels]
  /\ stat \in [Passes -> Nat] /\ tail \in [Passes -> Int]
  /\ done \in [Passes -> Int] /\ pos \in [Passes -> Int]
  /\ delegated \in [Passes -> BOOLEAN]
  /\ tracker \in [Passes -> [live : BOOLEAN, last : Nat, broken : BOOLEAN]]
  /\ faults \in 0..MaxFaults
  /\ raced \in BOOLEAN /\ lost \subseteq Faulty /\ uncounted \subseteq Faulty

\* No line is passed over: whatever the interleaving of writer, passes, crashes
\* and passes that throw, a complete line that starts below the stored offset is
\* in the database, unless its own insert threw.  (A pass starts at the offset,
\* so it never gets the whole of such a line again.)
NothingSkipped ==
  \A i \in 1..Len(ends) : LineStart(i) < offset => rows[i] > 0 \/ i \in lost

\* "UUID dedup + byte offsets = safe re-run": a message with an id is stored
\* once and its tokens counted at most once, in its own transaction, however
\* often the bytes are read; the native reader counts them exactly once, unless
\* the line threw when it had its row.
CountedOnce ==
  \A i \in Lines : Identified(i) =>
    /\ rows[i] <= 1 /\ usage[i] <= rows[i]
    /\ reader = "native" /\ HasUsage(i) => usage[i] = rows[i] \/ i \in uncounted

\* The verifier never blames an honest writer on its own: a break on record
\* for this untampered journal means that the file grew between stat and
\* read, two passes overlapped, or a pass broke off after the verifier was
\* persisted and before the offset was.
BreakOnlyAfterRace ==
  chain.broken => raced

\* Between races the offset only ever moves to the end of a complete line.
OffsetAtLineEnd ==
  ~raced => offset = 0 \/ \E k \in 1..Len(ends) : ends[k] = offset

\* Every complete line is stored, sooner or later.
EventuallyStored ==
  \A i \in Lines : i <= Len(ends) ~> rows[i] > 0

\* Once the writer is done nothing stays to be read: passes do not go on
\* re-reading a file forever.
CaughtUp == <>[](offset = size)
=============================================================================
