--------------------------- MODULE MCJournalIngest ---------------------------
(* Small instances of JournalIngest for TLC.                               *)
EXTENDS JournalIngest, TLC

CONSTANTS poll, watch, once,  \* passes
          worker, child       \* processes

\* The worker's poll and its watcher share a process; ingest-once has its own.
MCProcessOf == [p \in Passes |-> IF p = once THEN child ELSE worker]

\* Two full passes, each alone in its process, are alike.
MCAlike == {f \in Permutations({poll, once, worker, child}) :
              {f[poll], f[once]} = {poll, once} /\ (f[poll] = poll <=> f[worker] = worker)}

\* A line of every sort that is read in its own way.
MCKind == <<"delegation", "throttle", "message">>

\* Two lines: one the unique index protects, one it does not.
MCPair == <<"message", "throttle">>
=============================================================================
