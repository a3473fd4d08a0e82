-------------------------------- MODULE Router --------------------------------
(***************************************************************************)
(* unfirehose-router: a daemon that forwards the lines of JSONL files to a *)
(* cloud endpoint.  A scan reads every file from its cursor to the size it *)
(* has, queues the lines and moves the cursor; a flush takes a batch off   *)
(* the queue and posts it, up to MAX_RETRIES times; when the posting is    *)
(* over, however it went, the cursors of ALL files are written to disk.    *)
(*                                                                         *)
(* A file is counted in halves of a line, the newline part of the second,  *)
(* so that a scan may meet a line that is half written.  Files only grow.  *)
(* The queue, the batch in flight and the cursors are memory: they go with *)
(* the process, and a new one starts from the cursors on disk.             *)
(***************************************************************************)
EXTENDS Integers, Sequences

CONSTANTS
  NumFiles,     \* bound: files found under watch_paths
  MaxLines,     \* bound: lines written to a file
  BatchSize,    \* batch_size
  MaxRetries,   \* MAX_RETRIES
  LostAnswers,  \* may a post time out after the endpoint took it?
  MaxSaveFailures, \* bound: times the cursors cannot be written
  MaxExits      \* bound: ends of the process

Files  == 1..NumFiles
Halves == 1..(2 * MaxLines)
Units  == Files \X Halves

ASSUME ConstantsAssumption ==
  /\ NumFiles \in Nat /\ MaxLines \in Nat
  /\ MaxSaveFailures \in Nat /\ MaxExits \in Nat
  /\ BatchSize \in Nat \ {0} /\ MaxRetries \in Nat \ {0}
  /\ LostAnswers \in BOOLEAN

VARIABLES
  size,       \* per file: halves of lines it holds
  event,      \* fs.watch has something to report
  saved,      \* ~/.unfirehose-cursors.json, per file
  phase,      \* the process: down, past its first scan, or up
  cursors,    \* per file: halves read
  pending,    \* pendingLines, as pieces of a file
  batch,      \* the batch in flight: empty unless `sending'
  attempt,    \* attempts of it so far, the running one included
  took,       \* the endpoint took the running attempt, the answer is on its way
  taken,      \* history: times the endpoint took a half line (2 stands for more)
  unsure,     \* history: halves taken, or forgotten, without the disk knowing
  abandoned,  \* history: halves given up, or lost with a process that saved
              \* a cursor past them
  saveFailures, exits

Up      == phase = "up"
memory  == <<cursors, pending, batch, attempt, took>>
history == <<taken, unsure, abandoned>>
faults  == <<saveFailures, exits>>
vars    == <<size, event, saved, phase, memory, history, faults>>

UnitsOf(pieces) ==
  UNION {{<<pieces[k].file, h>> : h \in (pieces[k].from + 1)..pieces[k].to} : k \in DOMAIN pieces}
Queued == UnitsOf(batch) \cup UnitsOf(pending)

\* What split('\n') makes of (from, to]: whole lines, and at either end what
\* there is of one; nothing where the file has not grown.
Pieces(f, from, to) ==
  LET skipped == from \div 2
      count   == IF to > from THEN (to + 1) \div 2 - skipped ELSE 0
  IN [k \in 1..count |->
        LET start == 2 * (skipped + k - 1)
        IN [file |-> f, from |-> IF from > start THEN from ELSE start,
            to |-> IF to < start + 2 THEN to ELSE start + 2]]

\* The pieces of all files, file by file.
NewPieces(from) ==
  LET upTo[f \in 0..NumFiles] ==
        IF f = 0 THEN <<>> ELSE upTo[f - 1] \o Pieces(f, from[f], size[f])
  IN upTo[NumFiles]

Least(a, b) == IF a < b THEN a ELSE b

\* flush: the next batch comes off `queue' and its first post starts.
Drain(queue) ==
  LET n == Least(Len(queue), BatchSize)
  IN /\ batch' = SubSeq(queue, 1, n)
     /\ pending' = SubSeq(queue, n + 1, Len(queue))
     /\ attempt' = IF n = 0 THEN 0 ELSE 1
     /\ took' = FALSE

\* flush, called where a full batch waits.
DrainIfFull(queue) ==
  IF Len(queue) >= BatchSize THEN Drain(queue)
  ELSE batch' = <<>> /\ pending' = queue /\ attempt' = 0 /\ took' = FALSE

------------------------------------------------------------------------------
Init ==
  /\ size = [f \in Files |-> 0] /\ event = FALSE
  /\ saved = [f \in Files |-> 0]
  /\ phase = "down"
  /\ cursors = [f \in Files |-> 0]
  /\ pending = <<>> /\ batch = <<>> /\ attempt = 0 /\ took = FALSE
  /\ taken = [x \in Units |-> 0] /\ unsure = {} /\ abandoned = {}
  /\ saveFailures = 0 /\ exits = 0

\* A harness writes half a line, or the other half of it.
Write(f) ==
  /\ size[f] < 2 * MaxLines
  /\ size' = [size EXCEPT ![f] = @ + 1]
  /\ event' = Up
  /\ UNCHANGED <<saved, phase, memory, history, faults>>

\* A new process: the cursors on disk and a first scan.
Start ==
  /\ phase = "down"
  /\ phase' = "scanned" /\ event' = FALSE
  /\ cursors' = size
  /\ DrainIfFull(NewPieces(saved))
  /\ UNCHANGED <<size, saved, history, faults>>

\* Only then fs.watch: what was written since the scan is not reported.
Watch ==
  /\ phase = "scanned"
  /\ phase' = "up"
  /\ UNCHANGED <<size, event, saved, memory, history, faults>>

\* Mutant: the cursors move, the lines wait for the post that is running.
ScanWhileSending ==
  /\ Up /\ event
  /\ event' = FALSE
  /\ cursors' = size
  /\ IF batch = <<>> THEN DrainIfFull(pending \o NewPieces(cursors))
     ELSE UNCHANGED <<pending, batch, attempt, took>>
  /\ UNCHANGED <<size, saved, phase, history, faults>>

\* Mutant: unshift in place of push.
ScanToFront ==
  /\ Up /\ event
  /\ event' = FALSE
  /\ cursors' = size
  /\ IF batch = <<>> THEN DrainIfFull(NewPieces(cursors) \o pending)
     ELSE pending' = NewPieces(cursors) \o pending /\ UNCHANGED <<batch, attempt, took>>
  /\ UNCHANGED <<size, saved, phase, history, faults>>

\* A change is reported: every file is read to its end.
Scan ==
  /\ Up /\ event
  /\ event' = FALSE
  /\ cursors' = size
  /\ IF batch = <<>> THEN DrainIfFull(pending \o NewPieces(cursors))
     ELSE pending' = pending \o NewPieces(cursors) /\ UNCHANGED <<batch, attempt, took>>
  /\ UNCHANGED <<size, saved, phase, history, faults>>

\* Mutant: a batch that is not full waits for more.
FlushFull ==
  /\ Up /\ batch = <<>> /\ Len(pending) >= BatchSize
  /\ Drain(pending)
  /\ UNCHANGED <<size, event, saved, phase, cursors, history, faults>>

\* The interval timer.
Flush ==
  /\ Up /\ batch = <<>> /\ pending # <<>>
  /\ Drain(pending)
  /\ UNCHANGED <<size, event, saved, phase, cursors, history, faults>>

------------------------------------------------------------------------------
(* One post after the other, until one is answered by 2xx or 401 or        *)
(* MaxRetries have failed.                                                 *)

Sending == Up /\ batch # <<>>

\* The endpoint takes the batch; its answer is still on the way.
Take ==
  /\ Sending /\ ~took
  /\ took' = TRUE
  /\ taken' = [x \in Units |->
                 IF x \in UnitsOf(batch) THEN Least(taken[x] + 1, 2) ELSE taken[x]]
  /\ UNCHANGED <<size, event, saved, phase, cursors, pending, batch, attempt,
                 unsure, abandoned, faults>>

\* Mutant: the cursors stay in memory.
SentUnsaved ==
  /\ Sending /\ took
  /\ DrainIfFull(pending)
  /\ UNCHANGED <<size, event, saved, phase, cursors, history, faults>>

\* 2xx: the cursors are saved, those of lines still queued included.
Sent ==
  /\ Sending /\ took
  /\ saved' = cursors
  /\ DrainIfFull(pending)
  /\ UNCHANGED <<size, event, phase, cursors, history, faults>>

\* The disk does not know what the endpoint took of the batch.
InDoubt == IF took THEN UnitsOf(batch) ELSE {}

\* Mutant: one attempt too many.
RetryOnceMore ==
  /\ Sending /\ (took => LostAnswers)
  /\ attempt' = attempt + 1 /\ took' = FALSE
  /\ unsure' = unsure \cup InDoubt
  /\ UNCHANGED <<size, event, saved, phase, cursors, pending, batch, taken, abandoned, faults>>

\* An error, a timeout, any other status.
Retry ==
  /\ Sending /\ (took => LostAnswers) /\ attempt < MaxRetries
  /\ attempt' = attempt + 1 /\ took' = FALSE
  /\ unsure' = unsure \cup InDoubt
  /\ UNCHANGED <<size, event, saved, phase, cursors, pending, batch, taken, abandoned, faults>>

\* The last attempt failed.  sendBatch reports it and does not throw, so the
\* batch is not put back and the cursors are saved as if it had been sent.
GiveUp ==
  /\ Sending /\ (took => LostAnswers) /\ attempt = MaxRetries
  /\ saved' = cursors
  /\ abandoned' = abandoned \cup UnitsOf(batch)
  /\ unsure' = unsure \cup InDoubt
  /\ DrainIfFull(pending)
  /\ UNCHANGED <<size, event, phase, cursors, taken, faults>>

\* The halves the endpoint took at least once.
Delivered == {x \in Units : taken[x] > 0}

\* The posting is over, sent or given up, and writing the cursors throws (no
\* room, no permission): the file is as it was, or was emptied first and says
\* nothing.  The error lands in the catch that is meant for a failed post, so
\* the batch goes back to the front of the queue, answered or not.
SaveFails ==
  /\ Sending /\ saveFailures < MaxSaveFailures
  /\ took \/ attempt = MaxRetries
  /\ saveFailures' = saveFailures + 1
  /\ \/ saved' = saved /\ unsure' = unsure \cup InDoubt
     \/ saved' = [f \in Files |-> 0] /\ unsure' = unsure \cup Delivered
  /\ DrainIfFull(batch \o pending)
  /\ UNCHANGED <<size, event, phase, cursors, taken, abandoned, exits>>

------------------------------------------------------------------------------
\* The process is gone, with its memory.
Gone ==
  /\ exits < MaxExits /\ exits' = exits + 1 /\ saveFailures' = saveFailures
  /\ phase' = "down" /\ event' = FALSE
  /\ cursors' = [f \in Files |-> 0]
  /\ pending' = <<>> /\ batch' = <<>> /\ attempt' = 0 /\ took' = FALSE

\* SIGINT, SIGTERM, or a 401: the cursors are saved, the queue is not.
Stop ==
  /\ Up /\ Gone
  /\ saved' = cursors
  /\ abandoned' = abandoned \cup Queued
  /\ unsure' = unsure \cup InDoubt
  /\ UNCHANGED <<size, taken>>

\* Killed; or a Stop whose save throws: on a signal the process dies of it, on
\* a 401 the batch is put back, but watchers and timer are gone and the process
\* ends for want of work.  Queued lines below a cursor saved earlier are lost, the others
\* are read again.
Kill ==
  /\ phase # "down" /\ Gone
  /\ abandoned' = abandoned \cup {x \in Queued : x[2] <= saved[x[1]]}
  /\ unsure' = unsure \cup InDoubt
  /\ UNCHANGED <<size, saved, taken>>

\* The same in writeFileSync, which empties the file first: a file that does
\* not parse is no cursors at all, so everything is read again.
KillWhileSaving ==
  /\ Up /\ Gone
  /\ saved' = [f \in Files |-> 0]
  /\ unsure' = unsure \cup Delivered
  /\ UNCHANGED <<size, taken, abandoned>>

Next ==
  \/ \E f \in Files : Write(f)
  \/ Start \/ Watch \/ Scan \/ Flush
  \/ Take \/ Sent \/ Retry \/ GiveUp \/ SaveFails
  \/ Stop \/ Kill \/ KillWhileSaving

Spec == Init /\ [][Next]_vars

\* fs.watch reports a change, the timer fires, and a post is answered or
\* times out.  Nobody has to start the process again.
FairSpec ==
  /\ Spec
  /\ WF_vars(Watch) /\ WF_vars(Scan) /\ WF_vars(Flush) /\ WF_vars(Sent \/ Retry \/ GiveUp)

------------------------------------------------------------------------------
PieceType == [file : Files, from : 0..(2 * MaxLines), to : Halves]

TypeOK ==
  /\ size \in [Files -> 0..(2 * MaxLines)] /\ event \in BOOLEAN
  /\ saved \in [Files -> 0..(2 * MaxLines)]
  /\ phase \in {"down", "scanned", "up"}
  /\ cursors \in [Files -> 0..(2 * MaxLines)]
  /\ pending \in Seq(PieceType) /\ batch \in Seq(PieceType)
  /\ attempt \in 0..MaxRetries /\ took \in BOOLEAN
  /\ taken \in [Units -> 0..2]
  /\ unsure \subseteq Units /\ abandoned \subseteq Units
  /\ saveFailures \in 0..MaxSaveFailures /\ exits \in 0..MaxExits

\* Between the endpoint and the queue nothing falls out: what is below a
\* cursor, in memory or on disk, was taken, is queued, or is one of the
\* losses known by name (a batch given up, a queue that died with a process
\* that had saved a cursor past it).
NothingFallsOut ==
  \A x \in Units :
    x[2] <= saved[x[1]] \/ x[2] <= cursors[x[1]]
      => taken[x] > 0 \/ x \in Queued \cup abandoned

\* "never re-sends data, even after restarts", as far as it can be kept: a
\* half line taken twice was in flight when an answer was lost, the process died
\* or the cursors could not be written, or the cursors themselves were lost.
ResentOnlyInDoubt ==
  \A x \in Units : taken[x] > 1 => x \in unsure

\* What is queued of a file is one stretch, in order, that ends at its cursor:
\* the endpoint gets the lines of a file in the order they were written.
QueueInOrder ==
  LET queue   == batch \o pending
      Of(f)   == {k \in 1..Len(queue) : queue[k].file = f}
  IN \A f \in Files : \A k \in Of(f) :
       LET later == {j \in Of(f) : j > k}
       IN IF later = {} THEN queue[k].to = cursors[f]
          ELSE \E j \in later : (\A i \in later : j <= i) /\ queue[k].to = queue[j].from

\* Everything read, or written since fs.watch is on, is sent or given up,
\* sooner or later, unless the process ends.
EventuallyHandled ==
  \A f \in Files, h \in Halves :
    h <= size[f] /\ (event \/ h <= cursors[f])
      ~> taken[f, h] > 0 \/ <<f, h>> \in abandoned \/ phase = "down"

\* "Put lines back for retry": a batch that failed stays in the queue.
FailedIsRequeued ==
  [][\A x \in UnitsOf(batch) : Up' => taken[x] > 0 \/ x \in Queued']_vars
=============================================================================
