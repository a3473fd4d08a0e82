------------------------------- MODULE Projects -------------------------------
(***************************************************************************)
(* Projects: rows that the passes make for the encoded directory names     *)
(* they meet, and merges of rows that turn out to be one repository.  A    *)
(* pass resolves a name to an id and holds the id while it reads the       *)
(* sessions below that directory; a merge, at the end of another pass or   *)
(* from the web server, may delete the row in the meantime.  Foreign keys  *)
(* are on: a write that refers to a deleted row fails, and within a line   *)
(* the failure is swallowed, as is anything else that throws there between *)
(* the row of the line and its count.  (A line whose own insert throws     *)
(* leaves nothing: see JournalIngest.)                                     *)
(*                                                                         *)
(* The rows of other tables that refer to a project are represented by     *)
(* its sessions, aliases and usage minutes.  All names are of one harness  *)
(* slot, and a repository stands for root commit and origin.               *)
(***************************************************************************)
EXTENDS Integers, Sequences, FiniteSets, FiniteSetsExt

CONSTANTS
  Names,        \* encoded directory names
  Repos,        \* git identities
  NoRepo,       \* no identity: not a git tree, or a path that is gone
  Repo,         \* the identity a directory has
  Gone,         \* directories that may not be there to be asked
  Sessions,     \* journals
  Home,         \* the directory a journal lies in
  Passes,       \* ingest passes, of any process
  Web,          \* requests to /api/projects/merge
  Minutes,      \* the minutes lines are logged in
  MaxIds,       \* bound: project rows ever made
  MaxLines,     \* bound: lines per journal
  MaxRequests,  \* bound: merge requests
  Faulty        \* bound: journals with lines that may throw when they have a row

ASSUME ConstantsAssumption ==
  /\ MaxIds \in Nat /\ MaxLines \in Nat /\ MaxRequests \in Nat
  /\ Faulty \subseteq Sessions
  /\ NoRepo \notin Repos
  /\ Repo \in [Names -> Repos \cup {NoRepo}]
  /\ Gone \subseteq Names
  /\ Home \in [Sessions -> Names]
  /\ Passes \cap Web = {}

Ids   == 1..MaxIds
Procs == Passes \cup Web

VARIABLES
  projects,  \* projects: id |-> name and identity
  nextId,    \* AUTOINCREMENT: ids are not used again
  aliases,   \* project_aliases: encoded name |-> project_id
  session,   \* sessions: project_id, or 0 before the row exists
  usage,     \* usage_minutes: message_count, 0 for no row
  written,   \* the journals: the minute of each line
  stored,    \* lines of each journal that are in messages
  op,        \* per process: where it stands, and what it holds
  counted,   \* history: lines that entered usage_minutes
  thrown,    \* history: lines that threw when they had their row
  raced,     \* history: names resolved from a look-up that was stale by then
  requests   \* merge requests so far

tables == <<projects, nextId, aliases, session, usage>>
vars   == <<tables, written, stored, op, counted, thrown, raced, requests>>

NoName == "none"
Idle == [pc |-> "idle", name |-> NoName, seen |-> NoRepo, pid |-> 0,
         sessions |-> {}, at |-> {}, losers |-> {}, loser |-> 0]

Live       == DOMAIN projects
Unread(s)  == stored[s] < Len(written[s])
Pending(n) == {s \in Sessions : Home[s] = n /\ Unread(s)}
Named(n)   == {i \in Live : projects[i].name = n}

\* The project a name stands for, 0 for none.
Resolved(n) == CASE Named(n) # {} -> CHOOSE i \in Named(n) : TRUE
                 [] Named(n) = {} /\ n \in DOMAIN aliases -> aliases[n]
                 [] OTHER -> 0

------------------------------------------------------------------------------
Init ==
  /\ projects = <<>> /\ nextId = 1 /\ aliases = <<>>
  /\ session = [s \in Sessions |-> 0]
  /\ usage = [i \in Ids |-> [m \in Minutes |-> 0]]
  /\ written = [s \in Sessions |-> <<>>] /\ stored = [s \in Sessions |-> 0]
  /\ op = [p \in Procs |-> Idle]
  /\ counted = {} /\ thrown = {} /\ raced = {} /\ requests = 0

\* A harness appends a line.
Log(s, m) ==
  /\ Len(written[s]) < MaxLines
  /\ written' = [written EXCEPT ![s] = @ \o <<m>>]
  /\ UNCHANGED <<tables, stored, op, counted, thrown, raced, requests>>

Become(p, new) == op' = [op EXCEPT ![p] = new]
Throw(p)       == Become(p, Idle) /\ UNCHANGED tables
Reading(n, i)  == [Idle EXCEPT !.pc = "read", !.name = n, !.pid = i, !.sessions = Pending(n)]
Unresolved(pc, n, id, i) ==
  [Reading(n, i) EXCEPT !.pc = pc, !.seen = id]

\* getOrCreateProject: the name has a row; what it lacks is filled in.
ByName(p, n, id) ==
  \E i \in Named(n) :
    /\ projects' = [projects EXCEPT ![i].repo = IF @ = NoRepo THEN id ELSE @]
    /\ Become(p, Reading(n, i))
    /\ UNCHANGED <<nextId, aliases, session, usage>>

\* The name is an alias.
ByAlias(p, n) ==
  /\ Named(n) = {} /\ n \in DOMAIN aliases
  /\ Become(p, Reading(n, aliases[n]))
  /\ UNCHANGED tables

\* The repository has a row under another name; the alias is yet to be made.
ByIdentity(p, n, id) ==
  /\ Named(n) = {} /\ n \notin DOMAIN aliases /\ id # NoRepo
  /\ \E i \in Live : projects[i].repo = id /\ Become(p, Unresolved("alias", n, id, i))
  /\ UNCHANGED tables

\* Nothing matches; the row is yet to be made.
ByNothing(p, n, id) ==
  /\ Named(n) = {} /\ n \notin DOMAIN aliases
  /\ \A i \in Live : projects[i].repo = id => id = NoRepo
  /\ nextId \in Ids
  /\ Become(p, Unresolved("create", n, id, 0))
  /\ UNCHANGED tables

\* A pass comes to a directory with unread lines.  The identity is not known
\* when the path is gone.
Resolve(p, n) ==
  /\ op[p].pc = "idle" /\ Pending(n) # {}
  /\ \E id \in {Repo[n]} \cup {NoRepo : g \in Gone \cap {n}} :
       ByName(p, n, id) \/ ByAlias(p, n) \/ ByIdentity(p, n, id) \/ ByNothing(p, n, id)
  /\ UNCHANGED <<written, stored, counted, thrown, raced, requests>>

\* INSERT OR IGNORE of the alias: another process may have made one, the row
\* may be gone.
LinkAlias(p) ==
  LET n == op[p].name  i == op[p].pid IN
  /\ op[p].pc = "alias"
  /\ IF n \notin DOMAIN aliases /\ i \notin Live
       THEN Throw(p) /\ UNCHANGED raced
       ELSE /\ aliases' = [m \in DOMAIN aliases \cup {n} |->
                             IF m \in DOMAIN aliases THEN aliases[m] ELSE i]
            /\ raced' = IF Resolved(n) \in {0, i} THEN raced ELSE raced \cup {n}
            /\ Become(p, [op[p] EXCEPT !.pc = "read", !.seen = NoRepo])
            /\ UNCHANGED <<projects, nextId, session, usage>>
  /\ UNCHANGED <<written, stored, counted, thrown, requests>>

\* INSERT of the row, and of its own name as an alias.  Names are unique.
Create(p) ==
  LET n == op[p].name IN
  /\ op[p].pc = "create" /\ nextId \in Ids
  /\ IF Named(n) # {}
       THEN Throw(p) /\ UNCHANGED raced
       ELSE /\ projects' = [i \in Live \cup {nextId} |->
                              IF i = nextId THEN [name |-> n, repo |-> op[p].seen] ELSE projects[i]]
            /\ nextId' = nextId + 1
            /\ aliases' = [m \in DOMAIN aliases \cup {n} |->
                             IF m \in DOMAIN aliases THEN aliases[m] ELSE nextId]
            /\ raced' = IF n \in DOMAIN aliases THEN raced \cup {n} ELSE raced
            /\ Become(p, [op[p] EXCEPT !.pc = "read", !.seen = NoRepo, !.pid = nextId])
            /\ UNCHANGED <<session, usage>>
  /\ UNCHANGED <<written, stored, counted, thrown, requests>>

\* getOrCreateSession: a new session needs the project to be there.
Open(p, s) ==
  /\ op[p].pc = "read" /\ s \in op[p].sessions
  /\ IF session[s] = 0 /\ op[p].pid \notin Live
       THEN Throw(p)
       ELSE /\ session' = [session EXCEPT ![s] = IF @ = 0 THEN op[p].pid ELSE @]
            /\ Become(p, [op[p] EXCEPT !.pc = "lines", !.at = {s}])
            /\ UNCHANGED <<projects, nextId, aliases, usage>>
  /\ UNCHANGED <<written, stored, counted, thrown, raced, requests>>

\* Mutant: foreign keys are off, the count goes to a row that is gone.
StoreUnchecked(p) ==
  /\ op[p].pc = "lines"
  /\ \E s \in op[p].at :
       /\ Unread(s)
       /\ stored' = [stored EXCEPT ![s] = @ + 1]
       /\ LET k == stored[s] + 1 IN
          /\ usage' = [usage EXCEPT ![op[p].pid][written[s][k]] = @ + 1]
          /\ counted' = counted \cup {<<s, k>>}
  /\ UNCHANGED <<projects, nextId, aliases, session, written, op, thrown, raced, requests>>

\* A line is stored and counted; when the project is gone the count fails
\* and the line stays stored, and so it does when its blocks or its todos
\* throw before the count.  Two passes in one journal share the lines.
Store(p) ==
  /\ op[p].pc = "lines"
  /\ \E s \in op[p].at :
       /\ Unread(s)
       /\ stored' = [stored EXCEPT ![s] = @ + 1]
       /\ LET k == stored[s] + 1  i == op[p].pid IN
          IF i \in Live
            THEN \/ /\ usage' = [usage EXCEPT ![i][written[s][k]] = @ + 1]
                    /\ counted' = counted \cup {<<s, k>>}
                    /\ UNCHANGED thrown
                 \/ /\ s \in Faulty
                    /\ thrown' = thrown \cup {<<s, k>>}
                    /\ UNCHANGED <<usage, counted>>
            ELSE UNCHANGED <<usage, counted, thrown>>
  /\ UNCHANGED <<projects, nextId, aliases, session, written, op, raced, requests>>

\* The end of the journal.
Leave(p) ==
  /\ op[p].pc = "lines" /\ \A s \in op[p].at : ~Unread(s)
  /\ Become(p, LET left == op[p].sessions \ op[p].at IN
               IF left = {} THEN Idle
                 ELSE [op[p] EXCEPT !.pc = "read", !.sessions = left, !.at = {}])
  /\ UNCHANGED <<tables, written, stored, counted, thrown, raced, requests>>

Merging(w, losers) == [Idle EXCEPT !.pc = "merge", !.pid = w, !.losers = losers]

\* The members of the group that are not the winner.
\* Mutant: the rank of the first loser is skipped too.
LosersButOne(w) ==
  LET others == {i \in Live : projects[i].repo = projects[w].repo} \ {w} IN
  others \ {i \in others : \A k \in others : i <= k}
Losers(w) == {i \in Live : projects[i].repo = projects[w].repo} \ {w}

\* autoMergeIdenticalProjects: rows of one repository; the most recently
\* active one, here any, absorbs the others.
AutoMerge(p) ==
  /\ op[p].pc = "idle"
  /\ \E w \in Live : projects[w].repo # NoRepo /\ Losers(w) # {} /\ Become(p, Merging(w, Losers(w)))
  /\ UNCHANGED <<tables, written, stored, counted, thrown, raced>>

Housekeeping(p) == p \in Passes /\ AutoMerge(p) /\ UNCHANGED requests

\* POST /api/projects/merge, of two rows or of every group.
MergeRequest(p) ==
  /\ p \in Web /\ requests < MaxRequests
  /\ requests' = requests + 1
  /\ \/ AutoMerge(p)
     \/ /\ op[p].pc = "idle"
        /\ \E w, l \in Live : w # l /\ Become(p, Merging(w, {l}))
        /\ UNCHANGED <<tables, written, stored, counted, thrown, raced>>

\* mergeProjects: both rows are looked up before the transaction.
MergeCheck(p) ==
  /\ op[p].pc = "merge"
  /\ \/ /\ op[p].losers = {} /\ Become(p, Idle)
     \/ \E l \in op[p].losers :
          IF {l, op[p].pid} \subseteq Live
            THEN Become(p, [op[p] EXCEPT !.pc = "commit", !.name = projects[l].name,
                                         !.loser = l])
            ELSE Become(p, [op[p] EXCEPT !.losers = @ \ {l}])
  /\ UNCHANGED <<tables, written, stored, counted, thrown, raced, requests>>

\* Mutant: a minute both have keeps the count of the winner.
SummedUnlessTaken(w, l) ==
  [i \in Ids |-> [m \in Minutes |->
     CASE i = w -> IF usage[w][m] = 0 THEN usage[l][m] ELSE usage[w][m]
       [] i = l -> 0
       [] OTHER -> usage[i][m]]]

\* The minutes of the loser are added to those of the winner.
Summed(w, l) ==
  [i \in Ids |-> [m \in Minutes |->
     CASE i = w -> usage[w][m] + usage[l][m]
       [] i = l -> 0
       [] OTHER -> usage[i][m]]]

Refers(l) == \/ \E s \in Sessions : session[s] = l
             \/ \E m \in Minutes : usage[l][m] > 0
             \/ \E n \in DOMAIN aliases : aliases[n] = l

\* The aliases after the merge, the name of the loser among them.
\* Mutant: the loser's aliases are dropped with its row.
RepointedOwnOnly(w, l, n) ==
  [m \in {o \in DOMAIN aliases : aliases[o] # l} \cup {n} |->
     IF m \in DOMAIN aliases /\ aliases[m] # l THEN aliases[m] ELSE w]
Repointed(w, l, n) ==
  [m \in DOMAIN aliases \cup {n} |->
     IF m \in DOMAIN aliases /\ aliases[m] # l THEN aliases[m] ELSE w]

\* The transaction of mergeProjects: everything that refers to the loser is
\* pointed at the winner, the loser's name becomes an alias, its row goes.
\* When the winner is gone the transaction fails.
MergeCommit(p) ==
  LET w == op[p].pid  l == op[p].loser  n == op[p].name IN
  /\ op[p].pc = "commit"
  /\ IF w \notin Live /\ (Refers(l) \/ n \notin DOMAIN aliases)
       THEN Throw(p)
       ELSE /\ session' = [s \in Sessions |-> IF session[s] = l THEN w ELSE session[s]]
            /\ usage' = Summed(w, l)
            /\ aliases' = Repointed(w, l, n)
            /\ projects' = [i \in Live \ {l} |-> projects[i]]
            /\ Become(p, Merging(w, op[p].losers \ {l}))
            /\ UNCHANGED nextId
  /\ UNCHANGED <<written, stored, counted, thrown, raced, requests>>

PassStep(p) == \/ \E n \in Names : Resolve(p, n)
               \/ LinkAlias(p) \/ Create(p)
               \/ \E s \in Sessions : Open(p, s)
               \/ Store(p) \/ Leave(p)
MergeStep(p) == MergeCheck(p) \/ MergeCommit(p)

Next == \/ \E s \in Sessions, m \in Minutes : Log(s, m)
        \/ \E p \in Passes : PassStep(p) \/ Housekeeping(p)
        \/ \E p \in Web : MergeRequest(p)
        \/ \E p \in Procs : MergeStep(p)

Spec == Init /\ [][Next]_vars

\* Every process that has something to do does it, and the poll starts a full
\* pass again and again, whose housekeeping is due again and again
\* (ingest.ts:183).  Journals are finite here, so it is enough that some
\* process goes on.
FairSpec == /\ Spec
            /\ WF_vars(\E p \in Procs : MergeStep(p) \/ (p \in Passes /\ PassStep(p)))
            /\ WF_vars(\E p \in Passes : Housekeeping(p))

------------------------------------------------------------------------------
Row == [name : Names, repo : Repos \cup {NoRepo}]
Op  == [pc : {"idle", "alias", "create", "read", "lines", "merge", "commit"},
        name : Names \cup {NoName}, seen : Repos \cup {NoRepo}, pid : Ids \cup {0},
        sessions : SUBSET Sessions, at : SUBSET Sessions, losers : SUBSET Ids,
        loser : Ids \cup {0}]

\* Types, and the foreign keys: every session, alias and minute of a project
\* has its row (migrate.ts:34, 86, 622).
TypeOK ==
  /\ nextId \in 1..(MaxIds + 1) /\ Live \subseteq 1..(nextId - 1)
  /\ projects \in [Live -> Row]
  /\ DOMAIN aliases \subseteq Names /\ \A n \in DOMAIN aliases : aliases[n] \in Live
  /\ session \in [Sessions -> Live \cup {0}]
  /\ usage \in [Ids -> [Minutes -> Nat]]
  /\ \A i \in Ids \ Live, m \in Minutes : usage[i][m] = 0
  /\ written \in [Sessions -> Seq(Minutes)] /\ stored \in [Sessions -> Nat]
  /\ \A s \in Sessions : Len(written[s]) <= MaxLines /\ stored[s] <= Len(written[s])
  /\ op \in [Procs -> Op]
  /\ counted \cup thrown \subseteq {c \in Sessions \X (1..MaxLines) : c[2] <= stored[c[1]]}
  /\ raced \subseteq Names /\ requests \in 0..MaxRequests

\* A session belongs to the project its directory stands for, across every
\* merge and every pass that held an id while rows were merged away; so does
\* what a pass holds, as long as the row is there.  ingest-projects.ts:307:
\* "future ingest of the same encoded dir routes to the winner, not a
\* recreated loser".
SessionsFollowNames ==
  /\ \A s \in Sessions :
       session[s] # 0 /\ Home[s] \notin raced => session[s] = Resolved(Home[s])
  /\ \A p \in Procs :
       op[p].pc \in {"read", "lines"} /\ op[p].pid \in Live /\ op[p].name \notin raced
         => op[p].pid = Resolved(op[p].name)

CountedOf(i, m) == Cardinality({c \in counted : session[c[1]] = i /\ written[c[1]][c[2]] = m})

\* Merges lose and double no usage: the minutes of a project are those of
\* its sessions' counted lines (ingest-projects.ts:244 "usage_minutes summed
\* on overlapping minutes, otherwise re-pointed").  A stored line is missing
\* from the count only when it threw between its row and its count, or a row
\* has been merged away.
UsageFollowsSessions ==
  \A m \in Minutes :
    /\ MapThenSumSet(LAMBDA i : usage[i][m], Ids)
         = Cardinality({c \in counted : written[c[1]][c[2]] = m})
    /\ raced = {} => \A i \in Live : usage[i][m] = CountedOf(i, m)
    /\ Live = 1..(nextId - 1)
         => \A s \in Sessions : \A k \in 1..stored[s] : <<s, k>> \in counted \cup thrown

\* Names that stand for one project do so for good: a merged project is not
\* made again under its old name.
MergedStaysMerged ==
  [][\A n, o \in Names \ raced' :
       n # o /\ Resolved(n) # 0 /\ Resolved(n) = Resolved(o)
         => Resolved(n)' = Resolved(o)']_<<projects, aliases>>

\* In the end every line is stored, whatever merges failed or made a pass
\* throw, and a repository has one row.
Settles ==
  <>[](\/ nextId > MaxIds
       \/ /\ \A s \in Sessions : ~Unread(s)
          /\ \A i, j \in Live :
               projects[i].repo = projects[j].repo => i = j \/ projects[i].repo = NoRepo)
=============================================================================
