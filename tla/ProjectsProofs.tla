---------------------------- MODULE ProjectsProofs ----------------------------
(***************************************************************************)
(* Theorems about Projects, for all sets of directories, repositories,     *)
(* journals and processes: types and foreign keys, sessions stay with the  *)
(* project their directory stands for, and what is merged stays merged.    *)
(***************************************************************************)
EXTENDS Projects, SequenceTheorems, FiniteSetTheorems, NaturalsInduction,
        WellFoundedInduction, TLAPS

(* The project a name stands for, of the tables pr and al.                 *)
Stand(n, pr, al) ==
  LET named == {i \in DOMAIN pr : pr[i].name = n} IN
  CASE named # {} -> CHOOSE i \in named : TRUE
    [] named = {} /\ n \in DOMAIN al -> al[n]
    [] OTHER -> 0

OneRow(pr) == \A i, j \in DOMAIN pr : pr[i].name = pr[j].name => i = j

(* What a process holds stays true while others work: the sessions it goes *)
(* through lie below its directory, a row that is still there is the one   *)
(* its name stands for, and the row about to be merged has the name that   *)
(* will become an alias.                                                   *)
Held(o, pr, al, nx, rc) ==
  /\ o \in Op
  /\ o.pid < nx /\ o.loser < nx /\ \A l \in o.losers : l < nx
  /\ o.pc \in {"alias", "create", "read", "lines"} =>
       o.name \in Names /\ \A s \in o.sessions : Home[s] = o.name
  /\ o.pc \in {"alias", "read", "lines"} => o.pid \in Ids
  /\ o.pc = "lines" => \A s \in o.at : Home[s] = o.name
  /\ o.pc \in {"read", "lines"} /\ o.pid \in DOMAIN pr /\ o.name \notin rc =>
       o.pid = Stand(o.name, pr, al)
  /\ o.pc \in {"merge", "commit"} => o.pid \in Ids /\ o.pid \notin o.losers
  /\ o.pc = "commit" => /\ o.name \in Names /\ o.loser \in Ids /\ o.loser # o.pid
                        /\ o.loser \in DOMAIN pr => pr[o.loser].name = o.name
                        /\ o.name \in DOMAIN al \/ o.name \in rc

Tables ==
  /\ nextId \in 1..(MaxIds + 1) /\ Live \subseteq 1..(nextId - 1)
  /\ projects \in [Live -> Row]
  /\ DOMAIN aliases \subseteq Names /\ \A n \in DOMAIN aliases : aliases[n] \in Live
  /\ session \in [Sessions -> Live \cup {0}]
  /\ usage \in [Ids -> [Minutes -> Nat]]
  /\ \A i \in Ids \ Live, m \in Minutes : usage[i][m] = 0

Lines ==
  /\ written \in [Sessions -> Seq(Minutes)] /\ stored \in [Sessions -> Nat]
  /\ \A s \in Sessions : Len(written[s]) <= MaxLines /\ stored[s] <= Len(written[s])
  /\ counted \cup thrown \subseteq {c \in Sessions \X (1..MaxLines) : c[2] <= stored[c[1]]}

Others == raced \subseteq Names /\ requests \in 0..MaxRequests

(* A row has its own name as an alias, the one its merge will point at the *)
(* winner.                                                                 *)
OwnAlias(pr, al, rc) ==
  \A i \in DOMAIN pr : pr[i].name \notin rc =>
    pr[i].name \in DOMAIN al /\ al[pr[i].name] = i

InPlace(se, pr, al, rc) ==
  \A s \in Sessions : se[s] # 0 /\ Home[s] \notin rc => se[s] = Stand(Home[s], pr, al)

Holders == op \in [Procs -> Op] /\ \A p \in Procs : Held(op[p], projects, aliases, nextId, raced)

IInv == /\ Tables /\ Lines /\ Others /\ OneRow(projects) /\ OwnAlias(projects, aliases, raced)
        /\ InPlace(session, projects, aliases, raced) /\ Holders

(* The step of MergedStaysMerged.                                          *)
Together ==
  \A n, o \in Names \ raced' :
    n # o /\ Resolved(n) # 0 /\ Resolved(n) = Resolved(o)
      => Resolved(n)' = Resolved(o)'

(* A row that is still there is what a name stands for, if it was.         *)
Kept(pr, al, nx, pr2, al2, rc2) ==
  \A n \in Names, i \in DOMAIN pr2 :
    i < nx /\ n \notin rc2 /\ Stand(n, pr, al) = i => Stand(n, pr2, al2) = i

------------------------------------------------------------------------------
LEMMA StandIs ==
  ASSUME NEW pr, NEW al, OneRow(pr), NEW n
  PROVE  /\ \A i \in DOMAIN pr : pr[i].name = n => Stand(n, pr, al) = i
         /\ (\A i \in DOMAIN pr : pr[i].name # n) =>
              Stand(n, pr, al) = IF n \in DOMAIN al THEN al[n] ELSE 0
<1> DEFINE named == {i \in DOMAIN pr : pr[i].name = n}
<1>1. ASSUME NEW i \in named  PROVE Stand(n, pr, al) = i
  <2>1. named = {i}
    BY <1>1 DEF OneRow
  <2>2. (CHOOSE j \in named : TRUE) = i
    BY <2>1
  <2> QED
    BY <2>1, <2>2 DEF Stand
<1>2. ASSUME named = {}  PROVE Stand(n, pr, al) = IF n \in DOMAIN al THEN al[n] ELSE 0
  BY <1>2 DEF Stand
<1> QED
  BY <1>1, <1>2

LEMMA ResolvedIs == \A n : Resolved(n) = Stand(n, projects, aliases)
BY DEF Resolved, Stand, Named, Live

LEMMA ResolvedIsNext == \A n : Resolved(n)' = Stand(n, projects', aliases')
BY DEF Resolved, Stand, Named, Live

(* A name stands for a row, or for none.                                   *)
LEMMA StandsForRow ==
  ASSUME IInv, NEW n
  PROVE  Stand(n, projects, aliases) \in Live \cup {0}
<1>1. CASE \E i \in Live : projects[i].name = n
  BY <1>1, StandIs DEF IInv, Live
<1>2. CASE \A i \in Live : projects[i].name # n
  <2>1. Stand(n, projects, aliases) = IF n \in DOMAIN aliases THEN aliases[n] ELSE 0
    BY <1>2, StandIs DEF IInv, Live
  <2> QED
    BY <2>1 DEF IInv, Tables
<1> QED
  BY <1>1, <1>2

(* What a process holds survives a change of the tables.                   *)
LEMMA HeldKept ==
  ASSUME NEW o, NEW pr, NEW al, NEW nx \in Int, NEW rc, NEW pr2, NEW al2, NEW nx2 \in Int, NEW rc2,
         Held(o, pr, al, nx, rc), nx <= nx2, rc \subseteq rc2, DOMAIN al \subseteq DOMAIN al2,
         \A i \in DOMAIN pr2 : i < nx => i \in DOMAIN pr /\ pr2[i].name = pr[i].name,
         Kept(pr, al, nx, pr2, al2, rc2)
  PROVE  Held(o, pr2, al2, nx2, rc2)
<1>1. o \in Op /\ o.pid \in Int /\ o.loser \in Int /\ \A l \in o.losers : l \in Int
  BY DEF Held, Op, Ids
<1>2. o.pid < nx2 /\ o.loser < nx2 /\ \A l \in o.losers : l < nx2
  BY <1>1 DEF Held
<1>3. ASSUME o.pc \in {"read", "lines"}, o.pid \in DOMAIN pr2, o.name \notin rc2
      PROVE  o.pid = Stand(o.name, pr2, al2)
  <2>1. o.pid < nx /\ o.pid \in DOMAIN pr /\ o.name \notin rc /\ o.name \in Names
    BY <1>3 DEF Held
  <2>2. o.pid = Stand(o.name, pr, al)
    BY <1>3, <2>1 DEF Held
  <2> QED
    BY <1>3, <2>1, <2>2 DEF Kept
<1> QED
  BY <1>1, <1>2, <1>3 DEF Held

LEMMA IdleHeld ==
  ASSUME NEW pr, NEW al, NEW nx \in Nat \ {0}, NEW rc
  PROVE  Idle \in Op /\ Held(Idle, pr, al, nx, rc) /\ Idle.pc = "idle"
<1>1. Idle \in Op
  BY DEF Idle, Op
<1> QED
  BY <1>1 DEF Idle, Held

LEMMA Numbers ==
  ASSUME IInv
  PROVE  /\ MaxIds \in Nat /\ nextId \in Nat \ {0} /\ nextId <= MaxIds + 1
         /\ \A i \in Live : i \in Nat /\ 1 <= i /\ i < nextId /\ i \in Ids /\ i # 0
<1>1. MaxIds \in Nat /\ nextId \in Nat \ {0} /\ nextId <= MaxIds + 1
  BY ConstantsAssumption DEF IInv, Tables
<1> QED
  BY <1>1 DEF IInv, Tables, Ids

(* A step that changes no table but what one process holds.                *)
LEMMA MoveStep ==
  ASSUME IInv, NEW p \in Procs, NEW o, op' = [op EXCEPT ![p] = o],
         Held(o, projects, aliases, nextId, raced), requests' \in 0..MaxRequests,
         UNCHANGED <<tables, written, stored, counted, thrown, raced>>
  PROVE  IInv' /\ Together
<1>1. o \in Op
  BY DEF Held
<1>2. op' \in [Procs -> Op] /\ \A q \in Procs : op'[q] = IF q = p THEN o ELSE op[q]
  BY <1>1 DEF IInv, Holders
<1>3. Holders'
  BY <1>2 DEF IInv, Holders, tables
<1>4. Tables' /\ Lines' /\ Others' /\ OneRow(projects') /\ OwnAlias(projects', aliases', raced')
      /\ InPlace(session', projects', aliases', raced')
  BY DEF IInv, Tables, Lines, Others, tables, Live
<1>5. Together
  BY ResolvedIs, ResolvedIsNext DEF Together, tables
<1> QED
  BY <1>3, <1>4, <1>5 DEF IInv

(* A step that changes the rows or the aliases and takes no row away.      *)
LEMMA TableStep ==
  ASSUME IInv, NEW p \in Procs, NEW o, op' = [op EXCEPT ![p] = o],
         Held(o, projects', aliases', nextId', raced'),
         Tables', OneRow(projects'), OwnAlias(projects', aliases', raced'), raced' \subseteq Names,
         nextId <= nextId', raced \subseteq raced', DOMAIN aliases \subseteq DOMAIN aliases',
         Live \subseteq Live',
         \A i \in Live' : i < nextId => i \in Live /\ projects'[i].name = projects[i].name,
         Kept(projects, aliases, nextId, projects', aliases', raced'),
         UNCHANGED <<session, written, stored, counted, thrown, requests>>
  PROVE  IInv' /\ Together
<1>0. nextId \in Int /\ nextId' \in Int
  BY Numbers, ConstantsAssumption DEF Tables
<1>1. o \in Op
  BY DEF Held
<1>2. op' \in [Procs -> Op] /\ \A q \in Procs : op'[q] = IF q = p THEN o ELSE op[q]
  BY <1>1 DEF IInv, Holders
<1>3. ASSUME NEW q \in Procs  PROVE Held(op[q], projects', aliases', nextId', raced')
  <2>1. Held(op[q], projects, aliases, nextId, raced)
    BY DEF IInv, Holders
  <2>2. \A i \in DOMAIN projects' : i < nextId =>
          i \in DOMAIN projects /\ projects'[i].name = projects[i].name
    BY DEF Live
  <2> QED
    BY <1>0, <2>1, <2>2, HeldKept
<1>4. Holders'
  BY <1>2, <1>3 DEF Holders
<1>5. InPlace(session', projects', aliases', raced')
  <2> SUFFICES ASSUME NEW s \in Sessions, session[s] # 0, Home[s] \notin raced'
               PROVE  session[s] = Stand(Home[s], projects', aliases')
    BY DEF InPlace
  <2>1. session[s] \in Live /\ session[s] < nextId /\ session[s] \in DOMAIN projects' /\ Home[s] \in Names
    BY Numbers, ConstantsAssumption DEF IInv, Tables, Live
  <2>2. session[s] = Stand(Home[s], projects, aliases)
    BY DEF IInv, InPlace
  <2> QED
    BY <2>1, <2>2 DEF Kept
<1>6. Together
  <2> SUFFICES ASSUME NEW n \in Names, NEW m \in Names, Resolved(n) # 0, Resolved(n) = Resolved(m),
                      n \notin raced', m \notin raced'
               PROVE  Resolved(n)' = Resolved(m)'
    BY DEF Together
  <2>1. Resolved(n) \in Live /\ Resolved(n) < nextId /\ Resolved(n) \in DOMAIN projects'
    BY ResolvedIs, StandsForRow, Numbers DEF Live
  <2> QED
    BY <2>1, ResolvedIs, ResolvedIsNext DEF Kept
<1>7. Lines' /\ Others'
  BY DEF IInv, Lines, Others
<1> QED
  BY <1>4, <1>5, <1>6, <1>7 DEF IInv

(* A step that changes lines and usage only.                               *)
LEMMA LineStep ==
  ASSUME IInv, Tables', Lines',
         UNCHANGED <<projects, nextId, aliases, session, op, raced, requests>>
  PROVE  IInv' /\ Together
<1>1. Holders' /\ Others' /\ OneRow(projects') /\ OwnAlias(projects', aliases', raced')
      /\ InPlace(session', projects', aliases', raced')
  BY DEF IInv, Holders, Others
<1>2. Together
  BY ResolvedIs, ResolvedIsNext DEF Together
<1> QED
  BY <1>1, <1>2 DEF IInv

LEMMA LogStep ==
  ASSUME IInv, NEW s \in Sessions, NEW m \in Minutes, Log(s, m)
  PROVE  IInv' /\ Together
<1>1. /\ Len(written[s]) < MaxLines /\ written' = [written EXCEPT ![s] = @ \o <<m>>]
      /\ UNCHANGED <<projects, nextId, aliases, session, usage, stored, op, counted, thrown, raced, requests>>
  BY DEF Log, tables
<1>2. /\ written \in [Sessions -> Seq(Minutes)] /\ stored \in [Sessions -> Nat]
      /\ \A t \in Sessions : Len(written[t]) <= MaxLines /\ stored[t] <= Len(written[t])
  BY DEF IInv, Lines
<1>3. written[s] \o <<m>> \in Seq(Minutes) /\ Len(written[s] \o <<m>>) = Len(written[s]) + 1
      /\ Len(written[s]) \in Nat
  BY <1>2
<1>4. written' \in [Sessions -> Seq(Minutes)]
  BY <1>1, <1>2, <1>3
<1>5. \A t \in Sessions : Len(written'[t]) <= MaxLines /\ stored'[t] <= Len(written'[t])
  <2> SUFFICES ASSUME NEW t \in Sessions
               PROVE  Len(written'[t]) <= MaxLines /\ stored[t] <= Len(written'[t])
    BY <1>1
  <2>1. CASE t = s
    <3>1. written'[t] = written[s] \o <<m>>
      BY <1>1, <1>2, <2>1
    <3>2. stored[t] \in Nat /\ stored[t] <= Len(written[s]) /\ MaxLines \in Nat
      BY <1>2, <2>1, ConstantsAssumption
    <3> QED
      BY <1>1, <1>3, <3>1, <3>2
  <2>2. CASE t # s
    BY <1>1, <1>2, <2>2
  <2> QED
    BY <2>1, <2>2
<1>6. Lines' /\ Tables'
  BY <1>1, <1>4, <1>5 DEF IInv, Lines, Tables, Live
<1> QED
  BY <1>1, <1>6, LineStep

LEMMA StoreStep ==
  ASSUME IInv, NEW p \in Procs, Store(p)
  PROVE  IInv' /\ Together
<1>1. PICK s \in op[p].at :
        /\ Unread(s) /\ stored' = [stored EXCEPT ![s] = @ + 1]
        /\ LET k == stored[s] + 1  i == op[p].pid IN
           \/ /\ i \in Live /\ usage' = [usage EXCEPT ![i][written[s][k]] = @ + 1]
              /\ counted' = counted \cup {<<s, k>>} /\ UNCHANGED thrown
           \/ UNCHANGED <<usage, counted>> /\ thrown' \subseteq thrown \cup {<<s, k>>}
  BY DEF Store
<1>2. UNCHANGED <<projects, nextId, aliases, session, written, op, raced, requests>>
  BY DEF Store
<1>3. s \in Sessions
  BY DEF IInv, Holders, Op
<1>4. /\ written \in [Sessions -> Seq(Minutes)] /\ stored \in [Sessions -> Nat]
      /\ \A t \in Sessions : Len(written[t]) <= MaxLines /\ stored[t] <= Len(written[t])
      /\ counted \cup thrown \subseteq {c \in Sessions \X (1..MaxLines) : c[2] <= stored[c[1]]}
  BY DEF IInv, Lines
<1> DEFINE k == stored[s] + 1
<1>5. /\ stored[s] \in Nat /\ Len(written[s]) \in Nat /\ k <= Len(written[s]) /\ k \in 1..MaxLines
      /\ written[s][k] \in Minutes
  <2>1. stored[s] \in Nat /\ written[s] \in Seq(Minutes) /\ stored[s] < Len(written[s])
        /\ Len(written[s]) <= MaxLines /\ MaxLines \in Nat
    BY <1>1, <1>3, <1>4, ConstantsAssumption DEF Unread
  <2>2. Len(written[s]) \in Nat /\ k \in 1..Len(written[s])
    BY <2>1
  <2> QED
    BY <2>1, <2>2, ElementOfSeq
<1>6. /\ stored' \in [Sessions -> Nat]
      /\ \A t \in Sessions : stored[t] <= stored'[t] /\ stored'[t] <= Len(written[t])
  BY <1>1, <1>3, <1>4, <1>5
<1>7. counted' \cup thrown' \subseteq {c \in Sessions \X (1..MaxLines) : c[2] <= stored'[c[1]]}
  <2> SUFFICES ASSUME NEW c \in counted' \cup thrown'
               PROVE  c \in Sessions \X (1..MaxLines) /\ c[2] <= stored'[c[1]]
    OBVIOUS
  <2>1. CASE c \in counted \cup thrown
    <3>1. c \in Sessions \X (1..MaxLines) /\ c[2] <= stored[c[1]]
      BY <1>4, <2>1
    <3>2. c[1] \in Sessions /\ c[2] \in Int /\ stored[c[1]] \in Int /\ stored'[c[1]] \in Int
          /\ stored[c[1]] <= stored'[c[1]]
      BY <1>4, <1>6, <3>1
    <3> QED
      BY <3>1, <3>2
  <2>2. CASE c = <<s, k>>
    BY <1>1, <1>3, <1>4, <1>5, <2>2
  <2> QED
    BY <1>1, <2>1, <2>2
<1>8. Lines'
  BY <1>2, <1>4, <1>6, <1>7 DEF Lines
<1>9. Tables'
  <2>1. CASE op[p].pid \in Live /\ ~UNCHANGED <<usage, counted>>
    <3> DEFINE i == op[p].pid
               t == written[s][k]
    <3>1. i \in Ids /\ t \in Minutes /\ usage \in [Ids -> [Minutes -> Nat]]
      BY <1>5, <2>1, Numbers DEF IInv, Tables
    <3>2. usage' = [usage EXCEPT ![i][t] = @ + 1]
      BY <1>1, <2>1
    <3> HIDE DEF i, t
    <3>3. usage[i] \in [Minutes -> Nat] /\ usage[i][t] + 1 \in Nat
      BY <3>1
    <3>4. [usage[i] EXCEPT ![t] = @ + 1] \in [Minutes -> Nat]
      BY <3>1, <3>3
    <3>5. usage' \in [Ids -> [Minutes -> Nat]] /\ \A j \in Ids : j # i => usage'[j] = usage[j]
      BY <3>1, <3>2, <3>4
    <3>6. \A j \in Ids \ Live' : j # i
      BY <1>2, <2>1 DEF i, Live
    <3> QED
      BY <1>2, <3>5, <3>6 DEF IInv, Tables, Live
  <2>2. CASE UNCHANGED <<usage, counted>>
    BY <1>2, <2>2 DEF IInv, Tables, Live
  <2> QED
    BY <1>1, <2>1, <2>2
<1> QED
  BY <1>2, <1>8, <1>9, LineStep

------------------------------------------------------------------------------
LEMMA ReadingShape ==
  ASSUME NEW n \in Names, NEW i \in Ids \cup {0}
  PROVE  LET o == Reading(n, i)
         IN /\ o \in Op /\ o.pc = "read" /\ o.name = n /\ o.pid = i /\ o.sessions = Pending(n)
            /\ o.loser = 0 /\ o.losers = {}
<1>1. Pending(n) \subseteq Sessions
  BY DEF Pending
<1> QED
  BY <1>1 DEF Reading, Idle, Op

LEMMA ReadingHeld ==
  ASSUME NEW n \in Names, NEW i \in Ids, NEW pr, NEW al, NEW nx \in Nat \ {0}, NEW rc,
         i < nx, i \in DOMAIN pr /\ n \notin rc => i = Stand(n, pr, al)
  PROVE  Held(Reading(n, i), pr, al, nx, rc)
<1> DEFINE o == Reading(n, i)
<1>1. /\ o \in Op /\ o.pc = "read" /\ o.name = n /\ o.pid = i /\ o.sessions = Pending(n)
      /\ o.loser = 0 /\ o.losers = {}
  BY ReadingShape
<1> HIDE DEF o
<1>2. \A s \in o.sessions : Home[s] = n
  BY <1>1 DEF Pending
<1>3. Held(o, pr, al, nx, rc)
  BY <1>1, <1>2 DEF Held
<1> QED
  BY <1>3 DEF o

LEMMA UnresolvedHeld ==
  ASSUME NEW pc \in {"alias", "create"}, NEW n \in Names, NEW id \in Repos \cup {NoRepo},
         NEW i \in Ids \cup {0}, pc = "alias" => i \in Ids,
         NEW pr, NEW al, NEW nx \in Nat \ {0}, NEW rc, i < nx
  PROVE  Held(Unresolved(pc, n, id, i), pr, al, nx, rc)
<1> DEFINE r == Reading(n, i)
           o == [r EXCEPT !.pc = pc, !.seen = id]
<1>1. /\ r \in Op /\ r.name = n /\ r.pid = i /\ r.sessions = Pending(n)
      /\ r.loser = 0 /\ r.losers = {}
  BY ReadingShape
<1> HIDE DEF r
<1>2. /\ o \in Op /\ o.pc = pc /\ o.name = n /\ o.pid = i /\ o.sessions = Pending(n)
      /\ o.loser = 0 /\ o.losers = {}
  BY <1>1 DEF Op
<1>3. Unresolved(pc, n, id, i) = o
  BY DEF Unresolved, r
<1> HIDE DEF o
<1>4. \A s \in o.sessions : Home[s] = n
  BY <1>2 DEF Pending
<1>5. Held(o, pr, al, nx, rc)
  BY <1>2, <1>4 DEF Held
<1> QED
  BY <1>3, <1>5

(* An identity filled in: names and aliases stand for what they stood for. *)
LEMMA ByNameStep ==
  ASSUME IInv, NEW p \in Procs, NEW n \in Names, NEW id \in Repos \cup {NoRepo}, ByName(p, n, id),
         UNCHANGED <<written, stored, counted, thrown, raced, requests>>
  PROVE  IInv' /\ Together
<1>1. PICK i \in Named(n) :
        /\ projects' = [projects EXCEPT ![i].repo = IF @ = NoRepo THEN id ELSE @]
        /\ op' = [op EXCEPT ![p] = Reading(n, i)]
        /\ UNCHANGED <<nextId, aliases, session, usage>>
  BY DEF ByName, Become
<1>2. i \in Live /\ projects[i].name = n /\ projects \in [Live -> Row]
  BY DEF Named, IInv, Tables
<1> DEFINE repo == IF projects[i].repo = NoRepo THEN id ELSE projects[i].repo
           row  == [projects[i] EXCEPT !.repo = repo]
<1>3. row \in Row /\ row.name = n
  BY <1>2 DEF Row
<1>4. projects' = [projects EXCEPT ![i] = row]
  BY <1>1, <1>2
<1> HIDE DEF row
<1>5. /\ DOMAIN projects' = DOMAIN projects /\ Live' = Live /\ projects' \in [Live -> Row]
      /\ \A j \in DOMAIN projects : projects'[j].name = projects[j].name
  BY <1>2, <1>3, <1>4 DEF Live
<1>6. \A m : Stand(m, projects', aliases') = Stand(m, projects, aliases)
  <2> TAKE m
  <2>1. {j \in DOMAIN projects' : projects'[j].name = m} = {j \in DOMAIN projects : projects[j].name = m}
    BY <1>5
  <2> QED
    BY <1>1, <2>1 DEF Stand
<1>7. Tables'
  BY <1>1, <1>5 DEF IInv, Tables
<1>8. OneRow(projects') /\ OwnAlias(projects', aliases', raced')
  BY <1>1, <1>5 DEF IInv, OneRow, OwnAlias
<1>9. Held(Reading(n, i), projects', aliases', nextId', raced')
  <2>1. i \in Ids /\ i < nextId /\ nextId \in Nat \ {0}
    BY <1>2, Numbers
  <2>2. i = Stand(n, projects', aliases')
    BY <1>2, <1>6, StandIs DEF IInv, Live
  <2> QED
    BY <1>1, <2>1, <2>2, ReadingHeld
<1>10. nextId <= nextId'
  BY <1>1, Numbers
<1>11. Kept(projects, aliases, nextId, projects', aliases', raced')
  BY <1>6 DEF Kept
<1>12. raced' \subseteq Names
  BY DEF IInv, Others
<1> QED
  BY <1>1, <1>5, <1>7, <1>8, <1>9, <1>10, <1>11, <1>12, TableStep

LEMMA ResolveStep ==
  ASSUME IInv, NEW p \in Procs, NEW n \in Names, Resolve(p, n)
  PROVE  IInv' /\ Together
<1>1. PICK id \in Repos \cup {NoRepo} :
        ByName(p, n, id) \/ ByAlias(p, n) \/ ByIdentity(p, n, id) \/ ByNothing(p, n, id)
  BY ConstantsAssumption DEF Resolve
<1>2. UNCHANGED <<written, stored, counted, thrown, raced, requests>> /\ requests' \in 0..MaxRequests
  BY DEF Resolve, IInv, Others
<1>3. CASE ByAlias(p, n)
  <2>1. n \in DOMAIN aliases /\ Named(n) = {} /\ op' = [op EXCEPT ![p] = Reading(n, aliases[n])]
        /\ UNCHANGED tables
    BY <1>3 DEF ByAlias, Become
  <2>2. aliases[n] \in Live
    BY <2>1 DEF IInv, Tables
  <2>3. aliases[n] \in Ids /\ aliases[n] < nextId /\ nextId \in Nat \ {0}
    BY <2>2, Numbers
  <2>4. Stand(n, projects, aliases) = aliases[n]
    BY <2>1, StandIs DEF Named, Live, IInv
  <2>5. Held(Reading(n, aliases[n]), projects, aliases, nextId, raced)
    BY <2>3, <2>4, ReadingHeld
  <2> QED
    BY <1>2, <2>1, <2>5, MoveStep
<1>4. CASE ByIdentity(p, n, id)
  <2>1. PICK i \in Live : op' = [op EXCEPT ![p] = Unresolved("alias", n, id, i)]
    BY <1>4 DEF ByIdentity, Become
  <2>2. Held(Unresolved("alias", n, id, i), projects, aliases, nextId, raced)
    BY Numbers, UnresolvedHeld
  <2> QED
    BY <1>2, <1>4, <2>1, <2>2, MoveStep DEF ByIdentity
<1>5. CASE ByNothing(p, n, id)
  <2>1. op' = [op EXCEPT ![p] = Unresolved("create", n, id, 0)]
    BY <1>5 DEF ByNothing, Become
  <2>2. Held(Unresolved("create", n, id, 0), projects, aliases, nextId, raced)
    BY Numbers, UnresolvedHeld
  <2> QED
    BY <1>2, <1>5, <2>1, <2>2, MoveStep DEF ByNothing
<1> QED
  BY <1>1, <1>2, <1>3, <1>4, <1>5, ByNameStep

(* A failed write: the process starts over.                                *)
LEMMA ThrowStep ==
  ASSUME IInv, NEW p \in Procs, Throw(p), UNCHANGED <<written, stored, counted, thrown, raced, requests>>
  PROVE  IInv' /\ Together
<1>1. requests \in 0..MaxRequests
  BY DEF IInv, Others
<1> QED
  BY <1>1, Numbers, IdleHeld, MoveStep DEF Throw, Become

------------------------------------------------------------------------------
(* The alias is made, unless another process was first.                    *)
LEMMA LinkAliasStep ==
  ASSUME IInv, NEW p \in Procs, LinkAlias(p)
  PROVE  IInv' /\ Together
<1> DEFINE n == op[p].name
           i == op[p].pid
           o == [op[p] EXCEPT !.pc = "read", !.seen = NoRepo]
           al2 == [m \in DOMAIN aliases \cup {n} |-> IF m \in DOMAIN aliases THEN aliases[m] ELSE i]
<1>1. CASE n \notin DOMAIN aliases /\ i \notin Live
  BY <1>1, ThrowStep DEF LinkAlias
<1>2. CASE n \in DOMAIN aliases \/ i \in Live
  <2>1. /\ aliases' = al2 /\ op' = [op EXCEPT ![p] = o] /\ op[p].pc = "alias"
        /\ raced' = IF Resolved(n) \in {0, i} THEN raced ELSE raced \cup {n}
        /\ UNCHANGED <<projects, nextId, session, usage, written, stored, counted, thrown, requests>>
    BY <1>2 DEF LinkAlias, Become
  <2>2. Held(op[p], projects, aliases, nextId, raced) /\ op[p] \in Op
    BY DEF IInv, Holders
  <2>3. n \in Names /\ i \in Ids /\ i < nextId /\ i # 0
    BY <2>1, <2>2, ConstantsAssumption DEF Held, Ids
  <2>4. /\ o \in Op /\ o.pc = "read" /\ o.name = n /\ o.pid = i /\ o.sessions = op[p].sessions
        /\ o.loser = op[p].loser /\ o.losers = op[p].losers
    BY <2>2 DEF Op
  <2>5. /\ DOMAIN al2 = DOMAIN aliases \cup {n}
        /\ \A m \in DOMAIN aliases : al2[m] = aliases[m]
        /\ n \notin DOMAIN aliases => al2[n] = i /\ i \in Live
    BY <1>2
  <2> HIDE DEF al2, o
  <2>6. raced \subseteq raced' /\ raced' \subseteq Names
    BY <2>1, <2>3 DEF IInv, Others
  <2>7. ASSUME n \notin raced', Stand(n, projects, aliases) # 0 \/ i \in Live
        PROVE  Stand(n, projects, aliases) \in {0, i} /\ Stand(n, projects, al2) = i
    <3>1. Stand(n, projects, aliases) \in {0, i}
      BY <2>1, <2>7, ResolvedIs
    <3>2. CASE \E j \in Live : projects[j].name = n
      <4>1. PICK j \in Live : projects[j].name = n
        BY <3>2
      <4>2. Stand(n, projects, aliases) = j /\ Stand(n, projects, al2) = j /\ j # 0
        BY <4>1, StandIs, Numbers DEF IInv, Live
      <4> QED
        BY <3>1, <4>2
    <3>3. CASE \A j \in Live : projects[j].name # n
      <4>1. /\ Stand(n, projects, aliases) = IF n \in DOMAIN aliases THEN aliases[n] ELSE 0
            /\ Stand(n, projects, al2) = IF n \in DOMAIN al2 THEN al2[n] ELSE 0
        BY <3>3, StandIs DEF IInv, Live
      <4>2. n \in DOMAIN aliases => aliases[n] # 0
        BY Numbers DEF IInv, Tables
      <4> QED
        BY <2>5, <3>1, <4>1, <4>2
    <3> QED
      BY <3>1, <3>2, <3>3
  <2>8. \A m : m # n => Stand(m, projects, al2) = Stand(m, projects, aliases)
    <3> SUFFICES ASSUME NEW m, m # n PROVE Stand(m, projects, al2) = Stand(m, projects, aliases)
      OBVIOUS
    <3>1. (m \in DOMAIN al2 <=> m \in DOMAIN aliases) /\ (m \in DOMAIN aliases => al2[m] = aliases[m])
      BY <2>5
    <3> QED
      BY <3>1 DEF Stand
  <2>9. Kept(projects, aliases, nextId, projects', aliases', raced')
    <3> SUFFICES ASSUME NEW m \in Names, NEW j \in Live, m \notin raced', Stand(m, projects, aliases) = j
                 PROVE  Stand(m, projects, al2) = j
      BY <2>1 DEF Kept, Live
    <3>1. j # 0
      BY Numbers
    <3> QED
      BY <2>7, <2>8, <3>1
  <2>10. Tables'
    <3>1. \A m \in DOMAIN al2 : al2[m] \in Live
      BY <2>5 DEF IInv, Tables
    <3> QED
      BY <2>1, <2>3, <2>5, <3>1 DEF IInv, Tables, Live
  <2>11. OneRow(projects') /\ OwnAlias(projects', aliases', raced')
    BY <2>1, <2>5, <2>6 DEF IInv, OneRow, OwnAlias
  <2>12. Held(o, projects', aliases', nextId', raced')
    <3>1. i \in Live /\ n \notin raced' => i = Stand(n, projects, al2)
      BY <2>7
    <3>2. \A s \in op[p].sessions : Home[s] = n
      BY <2>1, <2>2 DEF Held
    <3> QED
      BY <2>1, <2>2, <2>3, <2>4, <3>1, <3>2 DEF Held, Live
  <2>13. nextId <= nextId' /\ Live' = Live
    BY <2>1, Numbers DEF Live
  <2> QED
    BY <2>1, <2>5, <2>6, <2>9, <2>10, <2>11, <2>12, <2>13, TableStep
<1> QED
  BY <1>1, <1>2

(* The row is made, with its own name as an alias.                         *)
LEMMA CreateStep ==
  ASSUME IInv, NEW p \in Procs, Create(p)
  PROVE  IInv' /\ Together
<1> DEFINE n == op[p].name
           row == [name |-> n, repo |-> op[p].seen]
           o == [op[p] EXCEPT !.pc = "read", !.seen = NoRepo, !.pid = nextId]
           pr2 == [i \in Live \cup {nextId} |-> IF i = nextId THEN row ELSE projects[i]]
           al2 == [m \in DOMAIN aliases \cup {n} |-> IF m \in DOMAIN aliases THEN aliases[m] ELSE nextId]
<1>1. CASE Named(n) # {}
  BY <1>1, ThrowStep DEF Create
<1>2. CASE Named(n) = {}
  <2>1. /\ projects' = pr2 /\ nextId' = nextId + 1 /\ aliases' = al2
        /\ raced' = IF n \in DOMAIN aliases THEN raced \cup {n} ELSE raced
        /\ op' = [op EXCEPT ![p] = o] /\ op[p].pc = "create" /\ nextId \in Ids
        /\ UNCHANGED <<session, usage, written, stored, counted, thrown, requests>>
    BY <1>2 DEF Create, Become
  <2>2. Held(op[p], projects, aliases, nextId, raced) /\ op[p] \in Op
    BY DEF IInv, Holders
  <2>3. n \in Names /\ row \in Row /\ row.name = n /\ nextId \in Ids /\ nextId \in Nat
    BY <2>1, <2>2, ConstantsAssumption DEF Held, Row, Op, Ids
  <2>4. /\ o \in Op /\ o.pc = "read" /\ o.name = n /\ o.pid = nextId /\ o.sessions = op[p].sessions
        /\ o.loser = op[p].loser /\ o.losers = op[p].losers
    BY <2>2, <2>3 DEF Op
  <2>5. \A i \in Live : i # nextId /\ i < nextId /\ projects[i].name # n
    BY <1>2, Numbers DEF Named
  <2>6. /\ DOMAIN pr2 = Live \cup {nextId} /\ pr2[nextId] = row
        /\ \A i \in Live : pr2[i] = projects[i]
    BY <2>5
  <2>7. /\ DOMAIN al2 = DOMAIN aliases \cup {n}
        /\ \A m \in DOMAIN aliases : al2[m] = aliases[m]
        /\ n \notin DOMAIN aliases => al2[n] = nextId
    OBVIOUS
  <2> HIDE DEF al2, pr2, o, row
  <2>8. raced \subseteq raced' /\ raced' \subseteq Names
    BY <2>1, <2>3 DEF IInv, Others
  <2>9. OneRow(pr2)
    BY <2>3, <2>5, <2>6 DEF IInv, OneRow, Live
  <2>10. OwnAlias(pr2, al2, raced')
    BY <2>1, <2>3, <2>5, <2>6, <2>7, <2>8 DEF IInv, OwnAlias, Live
  <2>11. Stand(n, pr2, al2) = nextId
    <3>1. nextId \in DOMAIN pr2 /\ pr2[nextId].name = n
      BY <2>3, <2>6
    <3>2. \A i \in DOMAIN pr2 : pr2[i].name = n => Stand(n, pr2, al2) = i
      BY <2>9, StandIs
    <3> QED
      BY <3>1, <3>2
  <2>12. Kept(projects, aliases, nextId, pr2, al2, raced')
    <3> SUFFICES ASSUME NEW m \in Names, NEW j \in DOMAIN pr2, j < nextId, m \notin raced',
                        Stand(m, projects, aliases) = j
                 PROVE  Stand(m, pr2, al2) = j
      BY DEF Kept
    <3>1. j \in Live /\ j # 0
      BY <2>3, <2>6, Numbers
    <3>2. CASE m = n
      <4>1. n \notin DOMAIN aliases
        BY <2>1, <3>2
      <4>2. Stand(n, projects, aliases) = 0
        BY <2>5, <4>1, StandIs DEF IInv, Live
      <4> QED
        BY <3>1, <3>2, <4>2
    <3>3. CASE m # n
      <4>1. {i \in DOMAIN pr2 : pr2[i].name = m} = {i \in DOMAIN projects : projects[i].name = m}
        BY <2>3, <2>6, <3>3 DEF Live
      <4>2. (m \in DOMAIN al2 <=> m \in DOMAIN aliases) /\ (m \in DOMAIN aliases => al2[m] = aliases[m])
        BY <2>7, <3>3
      <4> QED
        BY <4>1, <4>2 DEF Stand
    <3> QED
      BY <3>2, <3>3
  <2>13. Tables'
    <3>1. Live' = Live \cup {nextId} /\ nextId' \in 1..(MaxIds + 1) /\ Live' \subseteq 1..(nextId' - 1)
      BY <2>1, <2>3, <2>6, Numbers DEF Live, Ids
    <3>2. projects' \in [Live' -> Row]
      <4>1. pr2 \in [Live \cup {nextId} -> Row]
        BY <2>3 DEF pr2, IInv, Tables
      <4> QED
        BY <2>1, <3>1, <4>1
    <3>3. DOMAIN al2 \subseteq Names /\ \A m \in DOMAIN al2 : al2[m] \in Live'
      BY <2>3, <2>7, <3>1 DEF IInv, Tables
    <3>4. session' \in [Sessions -> Live' \cup {0}]
      BY <2>1, <3>1 DEF IInv, Tables
    <3> QED
      BY <2>1, <3>1, <3>2, <3>3, <3>4 DEF IInv, Tables
  <2>14. Held(o, pr2, al2, nextId', raced')
    <3>1. \A s \in op[p].sessions : Home[s] = n
      BY <2>1, <2>2 DEF Held
    <3>2. op[p].loser \in Int /\ \A l \in op[p].losers : l \in Int
      BY <2>2 DEF Op, Ids
    <3>3. o.pid < nextId' /\ o.loser < nextId' /\ \A l \in o.losers : l < nextId'
      BY <2>1, <2>2, <2>3, <2>4, <3>2 DEF Held
    <3> QED
      BY <2>3, <2>4, <2>11, <3>1, <3>3 DEF Held
  <2>15. \A i \in Live' : i < nextId => i \in Live /\ projects'[i].name = projects[i].name
    BY <2>1, <2>3, <2>6 DEF Live
  <2>16. Live \subseteq Live' /\ nextId <= nextId'
    BY <2>1, <2>3, <2>6 DEF Live
  <2>17. DOMAIN aliases \subseteq DOMAIN aliases'
    BY <2>1, <2>7
  <2> QED
    BY <2>1, <2>8, <2>9, <2>10, <2>12, <2>13, <2>14, <2>15, <2>16, <2>17, TableStep
<1> QED
  BY <1>1, <1>2

(* A session is made for the row its directory stands for.                 *)
LEMMA OpenStep ==
  ASSUME IInv, NEW p \in Procs, NEW s \in Sessions, Open(p, s)
  PROVE  IInv' /\ Together
<1> DEFINE i == op[p].pid
           o == [op[p] EXCEPT !.pc = "lines", !.at = {s}]
<1>1. CASE session[s] = 0 /\ i \notin Live
  BY <1>1, ThrowStep DEF Open
<1>2. CASE ~(session[s] = 0 /\ i \notin Live)
  <2>1. /\ session' = [session EXCEPT ![s] = IF @ = 0 THEN i ELSE @]
        /\ op' = [op EXCEPT ![p] = o] /\ op[p].pc = "read" /\ s \in op[p].sessions
        /\ UNCHANGED <<projects, nextId, aliases, usage, written, stored, counted, thrown, raced, requests>>
    BY <1>2 DEF Open, Become
  <2>2. Held(op[p], projects, aliases, nextId, raced) /\ op[p] \in Op
    BY DEF IInv, Holders
  <2>3. /\ o \in Op /\ o.pc = "lines" /\ o.name = op[p].name /\ o.pid = i /\ o.at = {s}
        /\ o.sessions = op[p].sessions /\ o.loser = op[p].loser /\ o.losers = op[p].losers
    BY <2>2 DEF Op
  <2> HIDE DEF o
  <2>4. Held(o, projects, aliases, nextId, raced)
    BY <2>1, <2>2, <2>3 DEF Held
  <2>5. Holders'
    <3>1. op' \in [Procs -> Op] /\ \A q \in Procs : op'[q] = IF q = p THEN o ELSE op[q]
      BY <2>1, <2>3 DEF IInv, Holders
    <3> QED
      BY <2>1, <2>4, <3>1 DEF IInv, Holders
  <2>6. session \in [Sessions -> Live \cup {0}]
    BY DEF IInv, Tables
  <2>7. \A t \in Sessions : session'[t] = IF t = s /\ session[s] = 0 THEN i ELSE session[t]
    BY <2>1, <2>6
  <2>8. Tables'
    <3>1. session' \in [Sessions -> Live \cup {0}]
      BY <1>2, <2>1, <2>6, <2>7
    <3> QED
      BY <2>1, <3>1 DEF IInv, Tables, Live
  <2>9. InPlace(session', projects', aliases', raced')
    <3> SUFFICES ASSUME NEW t \in Sessions, session'[t] # 0, Home[t] \notin raced
                 PROVE  session'[t] = Stand(Home[t], projects, aliases)
      BY <2>1 DEF InPlace
    <3>1. CASE t = s /\ session[s] = 0
      <4>1. Home[s] = op[p].name /\ i \in Live
        BY <1>2, <2>1, <2>2, <3>1 DEF Held
      <4> QED
        BY <2>1, <2>2, <2>7, <3>1, <4>1 DEF Held, Live
    <3>2. CASE ~(t = s /\ session[s] = 0)
      BY <2>7, <3>2 DEF IInv, InPlace
    <3> QED
      BY <3>1, <3>2
  <2>10. Lines' /\ Others' /\ OneRow(projects') /\ OwnAlias(projects', aliases', raced')
    BY <2>1 DEF IInv, Lines, Others
  <2>11. Together
    BY <2>1, ResolvedIs, ResolvedIsNext DEF Together
  <2> QED
    BY <2>5, <2>8, <2>9, <2>10, <2>11 DEF IInv
<1> QED
  BY <1>1, <1>2

LEMMA LeaveStep ==
  ASSUME IInv, NEW p \in Procs, Leave(p)
  PROVE  IInv' /\ Together
<1> DEFINE left == op[p].sessions \ op[p].at
           o == [op[p] EXCEPT !.pc = "read", !.sessions = left, !.at = {}]
<1>1. /\ op' = [op EXCEPT ![p] = IF left = {} THEN Idle ELSE o] /\ op[p].pc = "lines"
      /\ UNCHANGED <<tables, written, stored, counted, thrown, raced, requests>>
  BY DEF Leave, Become
<1>2. Held(op[p], projects, aliases, nextId, raced) /\ op[p] \in Op
  BY DEF IInv, Holders
<1>3. left \in SUBSET Sessions /\ left \subseteq op[p].sessions
  BY <1>2 DEF Op
<1> HIDE DEF left
<1>4. /\ o \in Op /\ o.pc = "read" /\ o.name = op[p].name /\ o.pid = op[p].pid
      /\ o.sessions = left /\ o.loser = op[p].loser /\ o.losers = op[p].losers
  BY <1>2, <1>3 DEF Op
<1> HIDE DEF o
<1>5. Held(o, projects, aliases, nextId, raced)
  BY <1>1, <1>2, <1>3, <1>4 DEF Held
<1>6. Held(Idle, projects, aliases, nextId, raced) /\ requests \in 0..MaxRequests
  BY IdleHeld, Numbers DEF IInv, Others
<1>7. CASE left = {}
  BY <1>1, <1>6, <1>7, MoveStep
<1>8. CASE left # {}
  BY <1>1, <1>5, <1>6, <1>8, MoveStep
<1> QED
  BY <1>7, <1>8

------------------------------------------------------------------------------
LEMMA MergingHeld ==
  ASSUME IInv, NEW w \in Ids, w < nextId, NEW losers \in SUBSET Ids, w \notin losers,
         \A l \in losers : l < nextId, NEW pr, NEW al, NEW rc
  PROVE  Held(Merging(w, losers), pr, al, nextId, rc)
<1> DEFINE o == [Idle EXCEPT !.pc = "merge", !.pid = w, !.losers = losers]
<1>1. /\ o \in Op /\ o.pc = "merge" /\ o.pid = w /\ o.losers = losers /\ o.loser = 0
  BY DEF Idle, Op
<1> HIDE DEF o
<1>2. Held(o, pr, al, nextId, rc)
  BY <1>1, Numbers DEF Held
<1> QED
  BY <1>2 DEF Merging, o

LEMMA AutoMergeStep ==
  ASSUME IInv, NEW p \in Procs, AutoMerge(p), requests' \in 0..MaxRequests
  PROVE  IInv' /\ Together
<1>1. PICK w \in Live : op' = [op EXCEPT ![p] = Merging(w, Losers(w))]
  BY DEF AutoMerge, Become
<1>2. Losers(w) \subseteq Live /\ w \notin Losers(w)
  BY DEF Losers
<1>3. w \in Ids /\ w < nextId /\ Losers(w) \in SUBSET Ids /\ \A l \in Losers(w) : l < nextId
  BY <1>2, Numbers
<1>4. Held(Merging(w, Losers(w)), projects, aliases, nextId, raced)
  BY <1>2, <1>3, MergingHeld
<1> QED
  BY <1>1, <1>4, MoveStep DEF AutoMerge

LEMMA MergeRequestStep ==
  ASSUME IInv, NEW p \in Web, MergeRequest(p)
  PROVE  IInv' /\ Together
<1>1. p \in Procs /\ requests' \in 0..MaxRequests
  BY ConstantsAssumption DEF MergeRequest, Procs, IInv, Others
<1>2. CASE AutoMerge(p)
  BY <1>1, <1>2, AutoMergeStep
<1>3. CASE ~AutoMerge(p)
  <2>1. PICK w \in Live, l \in Live : w # l /\ op' = [op EXCEPT ![p] = Merging(w, {l})]
    BY <1>3 DEF MergeRequest, Become
  <2>2. UNCHANGED <<tables, written, stored, counted, thrown, raced>>
    BY <1>3 DEF MergeRequest
  <2>3. w \in Ids /\ w < nextId /\ {l} \in SUBSET Ids /\ w \notin {l} /\ \A x \in {l} : x < nextId
    BY <2>1, Numbers
  <2>4. Held(Merging(w, {l}), projects, aliases, nextId, raced)
    BY <2>3, MergingHeld
  <2> QED
    BY <1>1, <2>1, <2>2, <2>4, MoveStep
<1> QED
  BY <1>2, <1>3

LEMMA MergeCheckStep ==
  ASSUME IInv, NEW p \in Procs, MergeCheck(p)
  PROVE  IInv' /\ Together
<1>1. /\ op[p].pc = "merge" /\ UNCHANGED <<tables, written, stored, counted, thrown, raced, requests>>
      /\ requests' \in 0..MaxRequests
  BY DEF MergeCheck, IInv, Others
<1>2. Held(op[p], projects, aliases, nextId, raced) /\ op[p] \in Op
  BY DEF IInv, Holders
<1>3. CASE op' = [op EXCEPT ![p] = Idle]
  BY <1>1, <1>3, IdleHeld, Numbers, MoveStep
<1>4. ASSUME NEW l \in op[p].losers, {l, op[p].pid} \subseteq Live,
             op' = [op EXCEPT ![p] = [op[p] EXCEPT !.pc = "commit", !.name = projects[l].name,
                                                   !.loser = l]]
      PROVE  IInv' /\ Together
  <2> DEFINE n == projects[l].name
             o == [op[p] EXCEPT !.pc = "commit", !.name = n, !.loser = l]
  <2>1. n \in Names /\ l \in Ids /\ l \in Live
    BY <1>4, Numbers DEF IInv, Tables, Row
  <2>2. n \in DOMAIN aliases \/ n \in raced
    BY <2>1 DEF IInv, OwnAlias, Live
  <2>3. /\ o \in Op /\ o.pc = "commit" /\ o.name = n /\ o.pid = op[p].pid
        /\ o.loser = l /\ o.losers = op[p].losers
    BY <1>2, <2>1 DEF Op
  <2>4. op' = [op EXCEPT ![p] = o]
    BY <1>4
  <2>5. n = projects[l].name
    OBVIOUS
  <2> HIDE DEF o, n
  <2>6. Held(o, projects, aliases, nextId, raced)
    BY <1>1, <1>2, <1>4, <2>1, <2>2, <2>3, <2>5 DEF Held
  <2> QED
    BY <1>1, <2>4, <2>6, MoveStep
<1>5. ASSUME NEW l \in op[p].losers,
             op' = [op EXCEPT ![p] = [op[p] EXCEPT !.losers = op[p].losers \ {l}]]
      PROVE  IInv' /\ Together
  <2> DEFINE rest == op[p].losers \ {l}
             o == [op[p] EXCEPT !.losers = rest]
  <2>1. rest \in SUBSET Ids /\ rest \subseteq op[p].losers
    BY <1>2 DEF Op
  <2>2. op' = [op EXCEPT ![p] = o]
    BY <1>5
  <2> HIDE DEF rest
  <2>3. /\ o \in Op /\ o.pc = "merge" /\ o.pid = op[p].pid
        /\ o.loser = op[p].loser /\ o.losers = rest
    BY <1>1, <1>2, <2>1 DEF Op
  <2> HIDE DEF o
  <2>4. Held(o, projects, aliases, nextId, raced)
    BY <1>1, <1>2, <2>1, <2>3 DEF Held
  <2> QED
    BY <1>1, <2>2, <2>4, MoveStep
<1>6. CASE \E l \in op[p].losers :
             IF {l, op[p].pid} \subseteq Live
               THEN op' = [op EXCEPT ![p] = [op[p] EXCEPT !.pc = "commit", !.name = projects[l].name,
                                                          !.loser = l]]
               ELSE op' = [op EXCEPT ![p] = [op[p] EXCEPT !.losers = op[p].losers \ {l}]]
  <2>1. PICK l \in op[p].losers :
             IF {l, op[p].pid} \subseteq Live
               THEN op' = [op EXCEPT ![p] = [op[p] EXCEPT !.pc = "commit", !.name = projects[l].name,
                                                          !.loser = l]]
               ELSE op' = [op EXCEPT ![p] = [op[p] EXCEPT !.losers = op[p].losers \ {l}]]
    BY <1>6
  <2> QED
    BY <2>1, <1>4, <1>5
<1> QED
  BY <1>3, <1>6 DEF MergeCheck, Become

(* The transaction of a merge: what stood for the loser stands for the     *)
(* winner, everything else for what it stood for.                          *)
LEMMA MergeCommitStep ==
  ASSUME IInv, NEW p \in Procs, MergeCommit(p)
  PROVE  IInv' /\ Together
<1> DEFINE w == op[p].pid
           l == op[p].loser
           n == op[p].name
           losers == op[p].losers \ {l}
           pr2 == [i \in Live \ {l} |-> projects[i]]
           al2 == Repointed(w, l, n)
<1>1. CASE w \notin Live /\ (Refers(l) \/ n \notin DOMAIN aliases)
  BY <1>1, ThrowStep DEF MergeCommit
<1>2. CASE ~(w \notin Live /\ (Refers(l) \/ n \notin DOMAIN aliases))
  <2>1. /\ session' = [s \in Sessions |-> IF session[s] = l THEN w ELSE session[s]]
        /\ usage' = Summed(w, l) /\ aliases' = al2 /\ projects' = pr2
        /\ op' = [op EXCEPT ![p] = Merging(w, losers)] /\ op[p].pc = "commit"
        /\ UNCHANGED <<nextId, written, stored, counted, thrown, raced, requests>>
    BY <1>2 DEF MergeCommit, Become
  <2>2. Held(op[p], projects, aliases, nextId, raced) /\ op[p] \in Op
    BY DEF IInv, Holders
  <2>3. /\ n \in Names /\ w \in Ids /\ l \in Ids /\ l # w /\ l # 0 /\ w # 0
        /\ l \in Live => projects[l].name = n
        /\ n \in DOMAIN aliases \/ n \in raced
        /\ w < nextId /\ losers \in SUBSET Ids /\ w \notin losers /\ \A x \in losers : x < nextId
    <3>1. /\ n \in Names /\ w \in Ids /\ l \in Ids /\ l # w
          /\ l \in Live => projects[l].name = n
          /\ n \in DOMAIN aliases \/ n \in raced
      BY <2>1, <2>2 DEF Held, Live
    <3>2. w < nextId /\ losers \in SUBSET Ids /\ w \notin losers /\ \A x \in losers : x < nextId
      BY <2>1, <2>2 DEF Held, Op
    <3> QED
      BY <3>1, <3>2, ConstantsAssumption DEF Ids
  <2>4. /\ DOMAIN pr2 = Live \ {l} /\ \A i \in Live \ {l} : pr2[i] = projects[i]
        /\ DOMAIN al2 = DOMAIN aliases \cup {n}
        /\ \A m \in DOMAIN al2 : al2[m] = IF m \in DOMAIN aliases /\ aliases[m] # l THEN aliases[m] ELSE w
    BY DEF Repointed
  <2> HIDE DEF pr2, al2, losers
  <2>5. OneRow(projects) /\ OwnAlias(projects, aliases, raced) /\ OneRow(pr2)
    BY <2>4 DEF IInv, OneRow, Live
  <2>6. OwnAlias(pr2, al2, raced)
    BY <2>4, <2>5 DEF OwnAlias, Live
  <2>7. ASSUME NEW m, m \notin raced
        PROVE  Stand(m, pr2, al2) = IF Stand(m, projects, aliases) = l THEN w
                                    ELSE Stand(m, projects, aliases)
    <3>1. ASSUME NEW i \in Live, i # l, projects[i].name = m
          PROVE  Stand(m, projects, aliases) = i /\ Stand(m, pr2, al2) = i
      <4>1. i \in DOMAIN projects /\ i \in DOMAIN pr2 /\ pr2[i].name = m
        BY <2>4, <3>1 DEF Live
      <4>2. Stand(m, projects, aliases) = i
        <5>1. \A j \in DOMAIN projects : projects[j].name = m => Stand(m, projects, aliases) = j
          BY <2>5, StandIs
        <5> QED
          BY <3>1, <4>1, <5>1
      <4>3. \A j \in DOMAIN pr2 : pr2[j].name = m => Stand(m, pr2, al2) = j
        BY <2>5, StandIs
      <4> QED
        BY <4>1, <4>2, <4>3
    <3>2. CASE l \in Live /\ projects[l].name = m
      <4>1. Stand(m, projects, aliases) = l
        BY <2>5, <3>2, StandIs DEF Live
      <4>2. \A i \in DOMAIN pr2 : pr2[i].name # m
        BY <2>4, <2>5, <3>2 DEF OneRow, Live
      <4>3. m \in DOMAIN aliases /\ aliases[m] = l
        BY <2>5, <2>7, <3>2 DEF OwnAlias, Live
      <4>4. Stand(m, pr2, al2) = w
        BY <2>4, <2>5, <4>2, <4>3, StandIs
      <4> QED
        BY <4>1, <4>4
    <3>3. CASE \A i \in Live : projects[i].name # m
      <4>1. Stand(m, projects, aliases) = IF m \in DOMAIN aliases THEN aliases[m] ELSE 0
        BY <2>5, <3>3, StandIs DEF Live
      <4>2. \A i \in DOMAIN pr2 : pr2[i].name # m
        BY <2>4, <3>3
      <4>3. Stand(m, pr2, al2) = IF m \in DOMAIN al2 THEN al2[m] ELSE 0
        BY <2>5, <4>2, StandIs
      <4>4. m \in DOMAIN al2 <=> m \in DOMAIN aliases
        BY <2>3, <2>4, <2>7
      <4> QED
        BY <2>3, <2>4, <4>1, <4>3, <4>4
    <3> QED
      BY <2>3, <3>1, <3>2, <3>3
  <2>8. Live' = Live \ {l}
    BY <2>1, <2>4 DEF Live
  <2>9. Tables'
    <3>1. projects' \in [Live' -> Row]
      <4>1. pr2 \in [Live \ {l} -> Row]
        BY DEF pr2, IInv, Tables
      <4> QED
        BY <2>1, <2>8, <4>1
    <3>2. DOMAIN al2 \subseteq Names
      BY <2>3, <2>4 DEF IInv, Tables
    <3>3. ASSUME NEW m \in DOMAIN al2  PROVE al2[m] \in Live'
      <4>1. CASE m \in DOMAIN aliases /\ aliases[m] # l
        BY <2>4, <2>8, <4>1 DEF IInv, Tables
      <4>2. CASE ~(m \in DOMAIN aliases /\ aliases[m] # l)
        <5>1. w \in Live
          BY <1>2, <2>4, <4>2 DEF Refers
        <5> QED
          BY <2>3, <2>4, <2>8, <4>2, <5>1
      <4> QED
        BY <4>1, <4>2
    <3>4. session' \in [Sessions -> Live' \cup {0}]
      <4> SUFFICES ASSUME NEW s \in Sessions
                   PROVE  (IF session[s] = l THEN w ELSE session[s]) \in Live' \cup {0}
        BY <2>1
      <4>1. session[s] = l => w \in Live
        BY <1>2 DEF Refers
      <4>2. session[s] \in Live \cup {0}
        BY DEF IInv, Tables
      <4> QED
        BY <2>3, <2>8, <4>1, <4>2
    <3>5. \A i \in Ids, m \in Minutes : usage[i][m] \in Nat
      BY DEF IInv, Tables
    <3>6. /\ usage' \in [Ids -> [Minutes -> Nat]]
          /\ \A i \in Ids, m \in Minutes : usage'[i][m] = CASE i = w -> usage[w][m] + usage[l][m]
                                                            [] i = l -> 0
                                                            [] OTHER -> usage[i][m]
      BY <2>1, <2>3, <3>5 DEF Summed
    <3>7. ASSUME NEW i \in Ids \ Live', NEW m \in Minutes  PROVE usage'[i][m] = 0
      <4>1. CASE i = w
        <5>1. w \notin Live
          BY <2>3, <2>8, <3>7, <4>1
        <5>2. ~(usage[l][m] > 0)
          BY <1>2, <5>1 DEF Refers
        <5>3. usage[l][m] = 0 /\ usage[w][m] = 0
          BY <2>3, <3>5, <5>1, <5>2 DEF IInv, Tables
        <5> QED
          BY <2>3, <3>6, <4>1, <5>3
      <4>2. CASE i = l
        BY <2>3, <3>6, <4>2
      <4>3. CASE i # w /\ i # l
        <5>1. i \in Ids \ Live
          BY <2>8, <4>3
        <5>2. usage[i][m] = 0
          BY <5>1 DEF IInv, Tables
        <5> QED
          BY <3>6, <4>3, <5>1, <5>2
      <4> QED
        BY <4>1, <4>2, <4>3
    <3> QED
      BY <2>1, <2>8, <3>1, <3>2, <3>3, <3>4, <3>6, <3>7 DEF IInv, Tables
  <2>10. InPlace(session', projects', aliases', raced')
    <3> SUFFICES ASSUME NEW s \in Sessions, session'[s] # 0, Home[s] \notin raced
                 PROVE  session'[s] = Stand(Home[s], pr2, al2)
      BY <2>1 DEF InPlace
    <3>1. session'[s] = IF session[s] = l THEN w ELSE session[s]
      BY <2>1
    <3>2. session[s] # 0
      BY <2>3, <3>1
    <3>3. session[s] = Stand(Home[s], projects, aliases)
      BY <3>2 DEF IInv, InPlace
    <3> QED
      BY <2>7, <3>1, <3>3
  <2>11. Kept(projects, aliases, nextId, pr2, al2, raced)
    BY <2>4, <2>7 DEF Kept
  <2>12. Holders'
    <3>1. Held(Merging(w, losers), pr2, al2, nextId, raced)
      BY <2>3, MergingHeld
    <3>2. Merging(w, losers) \in Op
      BY <3>1 DEF Held
    <3>3. op' \in [Procs -> Op] /\ \A q \in Procs : op'[q] = IF q = p THEN Merging(w, losers) ELSE op[q]
      BY <2>1, <3>2 DEF IInv, Holders
    <3>4. ASSUME NEW q \in Procs  PROVE Held(op[q], pr2, al2, nextId, raced)
      <4>1. Held(op[q], projects, aliases, nextId, raced) /\ nextId \in Int
        BY Numbers DEF IInv, Holders
      <4>2. \A i \in DOMAIN pr2 : i < nextId => i \in DOMAIN projects /\ pr2[i].name = projects[i].name
        BY <2>4 DEF Live
      <4>3. DOMAIN aliases \subseteq DOMAIN al2 /\ nextId <= nextId /\ raced \subseteq raced
        BY <2>4, <4>1
      <4> QED
        BY <2>11, <4>1, <4>2, <4>3, HeldKept
    <3> QED
      BY <2>1, <3>1, <3>3, <3>4 DEF Holders
  <2>13. Lines' /\ Others' /\ OneRow(projects') /\ OwnAlias(projects', aliases', raced')
    BY <2>1, <2>5, <2>6 DEF IInv, Lines, Others
  <2>14. Together
    BY <2>1, <2>7, ResolvedIs, ResolvedIsNext DEF Together
  <2> QED
    BY <2>9, <2>10, <2>12, <2>13, <2>14 DEF IInv
<1> QED
  BY <1>1, <1>2

------------------------------------------------------------------------------
LEMMA InitInv == Init => IInv
<1> SUFFICES ASSUME Init PROVE IInv
  OBVIOUS
<1>1. MaxIds \in Nat /\ MaxLines \in Nat /\ MaxRequests \in Nat
  BY ConstantsAssumption
<1>2. DOMAIN projects = {} /\ DOMAIN aliases = {} /\ Live = {} /\ projects \in [Live -> Row]
  BY DEF Init, Live
<1>3. Tables
  BY <1>1, <1>2 DEF Init, Tables
<1>4. Lines
  <2>1. <<>> \in Seq(Minutes) /\ Len(<<>>) = 0
    BY EmptySeq
  <2> QED
    BY <1>1, <2>1 DEF Init, Lines
<1>5. Others
  BY <1>1 DEF Init, Others
<1>6. OneRow(projects) /\ OwnAlias(projects, aliases, raced)
  BY <1>2 DEF OneRow, OwnAlias
<1>7. InPlace(session, projects, aliases, raced)
  BY DEF Init, InPlace
<1>8. Holders
  BY IdleHeld DEF Init, Holders
<1> QED
  BY <1>3, <1>4, <1>5, <1>6, <1>7, <1>8 DEF IInv

LEMMA NextStep ==
  ASSUME IInv, [Next]_vars
  PROVE  IInv' /\ (Together \/ UNCHANGED vars)
<1>1. CASE UNCHANGED vars
  <2>1. UNCHANGED <<projects, nextId, aliases, session, op, raced, requests>> /\ Tables' /\ Lines'
    BY <1>1 DEF vars, tables, IInv, Tables, Lines, Live
  <2> QED
    BY <2>1, LineStep
<1>2. ASSUME NEW p \in Passes, PassStep(p) \/ Housekeeping(p)  PROVE IInv' /\ Together
  <2>1. p \in Procs /\ requests \in 0..MaxRequests
    BY DEF Procs, IInv, Others
  <2> QED
    BY <1>2, <2>1, ResolveStep, LinkAliasStep, CreateStep, OpenStep, StoreStep, LeaveStep,
       AutoMergeStep DEF PassStep, Housekeeping
<1>3. ASSUME NEW p \in Procs, MergeStep(p)  PROVE IInv' /\ Together
  BY <1>3, MergeCheckStep, MergeCommitStep DEF MergeStep
<1> QED
  BY <1>1, <1>2, <1>3, LogStep, MergeRequestStep DEF Next

LEMMA Invariant == Spec => []IInv
<1>1. IInv /\ [Next]_vars => IInv'
  BY NextStep
<1> QED
  BY InitInv, <1>1, PTL DEF Spec

(* migrate.ts:34, 86, 622: the foreign keys hold.  No session, alias or    *)
(* minute refers to a row that is gone, whatever a pass holds.             *)
THEOREM TypeCorrect == Spec => []TypeOK
<1>1. IInv => TypeOK
  BY DEF IInv, Tables, Lines, Others, Holders, TypeOK
<1> QED
  BY Invariant, <1>1, PTL

(* ingest-projects.ts:307: a session is with the project its directory     *)
(* stands for, across all merges and all passes that held an id.           *)
THEOREM SessionsStay == Spec => []SessionsFollowNames
<1>1. IInv => SessionsFollowNames
  <2> SUFFICES ASSUME IInv PROVE SessionsFollowNames
    OBVIOUS
  <2>1. \A s \in Sessions :
          session[s] # 0 /\ Home[s] \notin raced => session[s] = Resolved(Home[s])
    BY ResolvedIs DEF IInv, InPlace
  <2>2. \A p \in Procs :
          op[p].pc \in {"read", "lines"} /\ op[p].pid \in Live /\ op[p].name \notin raced
            => op[p].pid = Resolved(op[p].name)
    BY ResolvedIs DEF IInv, Holders, Held, Live
  <2> QED
    BY <2>1, <2>2 DEF SessionsFollowNames
<1> QED
  BY Invariant, <1>1, PTL

(* What stands for one project does so for good: a loser is not made again *)
(* under its old name.                                                     *)
THEOREM MergesLast == Spec => MergedStaysMerged
<1>1. IInv /\ [Next]_vars => [Together]_vars
  BY NextStep
<1>2. Spec => [][Together]_vars
  BY Invariant, <1>1, PTL DEF Spec
<1>3. [Together]_vars => [Together]_<<projects, aliases>>
  BY DEF vars, tables
<1> QED
  BY <1>2, <1>3, PTL DEF MergedStaysMerged, Together
------------------------------------------------------------------------------
(* The sum over all ids, as the fold of the library computes it: an id is  *)
(* picked from the set and added to the sum of the rest.                   *)

Pick(s)        == CHOOSE x \in s : TRUE
Rest(s)        == s \ {Pick(s)}
Part(f, m, g, s) == IF s = {} THEN 0 ELSE f[Pick(s)][m] + g[Rest(s)]
Total(f, m)    == MapThenSumSet(LAMBDA i : f[i][m], Ids)

LEMMA Sizes ==
  /\ MaxIds \in Nat /\ IsFiniteSet(Ids) /\ Cardinality(Ids) = MaxIds
  /\ \A s \in SUBSET Ids : IsFiniteSet(s) /\ Cardinality(s) \in 0..MaxIds
  /\ \A s \in SUBSET Ids : s # {} => /\ Pick(s) \in s /\ Rest(s) \in SUBSET Ids
                                     /\ Cardinality(Rest(s)) = Cardinality(s) - 1
<1>1. MaxIds \in Nat /\ IsFiniteSet(Ids) /\ Cardinality(Ids) = MaxIds
  BY ConstantsAssumption, FS_Interval DEF Ids
<1>2. ASSUME NEW s \in SUBSET Ids  PROVE IsFiniteSet(s) /\ Cardinality(s) \in 0..MaxIds
  <2>1. IsFiniteSet(s) /\ Cardinality(s) <= Cardinality(Ids)
    BY <1>1, FS_Subset
  <2>2. Cardinality(s) \in Nat
    BY <2>1, FS_CardinalityType
  <2> QED
    BY <1>1, <2>1, <2>2
<1>3. ASSUME NEW s \in SUBSET Ids, s # {}
      PROVE  /\ Pick(s) \in s /\ Rest(s) \in SUBSET Ids
             /\ Cardinality(Rest(s)) = Cardinality(s) - 1
  <2>1. Pick(s) \in s
    BY <1>3 DEF Pick
  <2>2. Cardinality(s \ {Pick(s)}) = Cardinality(s) - 1
    BY <1>2, <2>1, FS_RemoveElement
  <2> QED
    BY <2>1, <2>2 DEF Rest
<1> QED
  BY <1>1, <1>2, <1>3

(* Of a set of numbers that is not empty, one is the smallest.             *)
LEMMA Smallest ==
  ASSUME NEW S \in SUBSET Nat, S # {}
  PROVE  \E n \in S : \A m \in S : n <= m
<1> DEFINE R == {p \in Nat \X Nat : p[1] < p[2]}
<1>1. IsWellFoundedOn(R, Nat)
  BY NatLessThanWellFounded, Zenon DEF OpToRel
<1>2. PICK n \in S : \A m \in S : <<m, n>> \notin R
  BY <1>1, WFMin, Zenon
<1>3. ASSUME NEW m \in S, m < n  PROVE FALSE
  <2>1. <<m, n>> \in R
    BY <1>3
  <2> QED
    BY <1>2, <2>1
<1> QED
  BY <1>3

(* Sets of ids that are wrong although the rest of each is right: none.    *)
LEMMA PickByPick ==
  ASSUME NEW Bad \in SUBSET SUBSET Ids, {} \notin Bad,
         \A s \in Bad : Rest(s) \in Bad
  PROVE  Bad = {}
<1> SUFFICES ASSUME Bad # {} PROVE FALSE
  OBVIOUS
<1> DEFINE sizes == {Cardinality(s) : s \in Bad}
<1>1. sizes \in SUBSET Nat /\ sizes # {}
  BY Sizes
<1>2. PICK n \in sizes : \A m \in sizes : n <= m
  BY <1>1, Smallest
<1>3. PICK s \in Bad : Cardinality(s) = n
  BY <1>2
<1>4. Cardinality(Rest(s)) = n - 1 /\ Cardinality(Rest(s)) \in sizes
  BY <1>3, Sizes
<1> QED
  BY <1>1, <1>2, <1>4

LEMMA Folded ==
  ASSUME NEW f, NEW m
  PROVE  \E u : /\ \A s \in SUBSET Ids : u[s] = Part(f, m, u, s)
                /\ Total(f, m) = u[Ids]
<1> DEFINE Up(n)   == {s \in SUBSET Ids : Cardinality(s) <= n}
           E(g, n) == g = [s \in Up(n) |-> Part(f, m, g, s)]
           Has(n)  == \E g : E(g, n)
           Bad     == {n \in 0..MaxIds : ~Has(n)}
<1> HIDE DEF Has
<1>1. Bad = {}
  <2> SUFFICES ASSUME Bad # {} PROVE FALSE
    OBVIOUS
  <2>1. PICK n \in Bad : \A k \in Bad : n <= k
    <3>1. Bad \in SUBSET Nat
      OBVIOUS
    <3> QED
      BY <3>1, Smallest
  <2>2. CASE n = 0
    <3>1. \A s \in Up(0) : s = {}
      BY Sizes, FS_EmptySet
    <3>2. E([s \in Up(0) |-> 0], 0)
      BY <3>1 DEF Part
    <3> QED
      BY <2>1, <2>2, <3>2 DEF Has
  <2>3. CASE n # 0
    <3>1. n - 1 \in 0..MaxIds /\ n - 1 \notin Bad
      BY <2>1, <2>3, Sizes
    <3>2. PICK g : E(g, n - 1)
      BY <3>1 DEF Has
    <3> DEFINE h == [s \in Up(n) |-> IF s \in Up(n - 1) THEN g[s] ELSE Part(f, m, g, s)]
    <3>3. \A s \in Up(n - 1) : g[s] = Part(f, m, g, s)
      BY <3>2
    <3>4. ASSUME NEW s \in Up(n)
          PROVE  h[s] = Part(f, m, h, s)
      <4>1. s # {} => Rest(s) \in Up(n - 1) /\ Rest(s) \in Up(n)
        BY <2>1, Sizes
      <4>2. s # {} => h[Rest(s)] = g[Rest(s)]
        BY <4>1
      <4>3. Part(f, m, h, s) = Part(f, m, g, s)
        BY <4>2 DEF Part
      <4>4. h[s] = Part(f, m, g, s)
        BY <3>3
      <4> QED
        BY <4>3, <4>4
    <3>5. E(h, n)
      BY <3>4
    <3> QED
      BY <2>1, <3>5 DEF Has
  <2> QED
    BY <2>2, <2>3
<1>2. PICK g : E(g, MaxIds)
  <2>1. MaxIds \in 0..MaxIds /\ MaxIds \notin Bad
    BY <1>1, Sizes
  <2> QED
    BY <2>1 DEF Has
<1>3. Up(MaxIds) = SUBSET Ids
  BY Sizes
<1> DEFINE All(a) == a = [s \in SUBSET Ids |-> Part(f, m, a, s)]
           u == CHOOSE v : All(v)
<1>4. All(g)
  BY <1>2, <1>3
<1>5. All(u)
  <2> HIDE DEF All
  <2> QED
    BY <1>4
<1>6. Total(f, m) = u[Ids]
  BY DEF Total, MapThenSumSet, MapThenFoldSet, Part, Pick, Rest
<1>7. \A s \in SUBSET Ids : u[s] = Part(f, m, u, s)
  <2> HIDE DEF u
  <2> QED
    BY <1>5
<1> QED
  BY <1>6, <1>7

(* At m, g is f but for row j, which has d more.                           *)
Differs(f, g, m, j, d) ==
  /\ \A i \in Ids : f[i][m] \in Int
  /\ \A i \in Ids \ {j} : g[i][m] = f[i][m]
  /\ g[j][m] = f[j][m] + d

(* A change in one place changes the sum by as much.                       *)
LEMMA TotalChanges ==
  ASSUME NEW f, NEW g, NEW m, NEW j \in Ids, NEW d \in Int, Differs(f, g, m, j, d)
  PROVE  Total(f, m) \in Int /\ Total(g, m) = Total(f, m) + d
<1>0. /\ \A i \in Ids : f[i][m] \in Int
      /\ \A i \in Ids \ {j} : g[i][m] = f[i][m]
      /\ g[j][m] = f[j][m] + d
  BY DEF Differs
<1>1. PICK u : (\A s \in SUBSET Ids : u[s] = Part(f, m, u, s)) /\ Total(f, m) = u[Ids]
  BY Folded
<1>2. PICK v : (\A s \in SUBSET Ids : v[s] = Part(g, m, v, s)) /\ Total(g, m) = v[Ids]
  BY Folded
<1> DEFINE Good(s) == u[s] \in Int /\ v[s] = u[s] + (IF j \in s THEN d ELSE 0)
           Bad == {s \in SUBSET Ids : ~Good(s)}
<1>3. {} \notin Bad
  <2>1. {} \in SUBSET Ids /\ j \notin {}
    OBVIOUS
  <2>2. u[{}] = 0 /\ v[{}] = 0
    BY <1>1, <1>2, <2>1 DEF Part
  <2>3. Good({})
    BY <2>1, <2>2
  <2> QED
    BY <2>3
<1>4. ASSUME NEW s \in Bad  PROVE Rest(s) \in Bad
  <2>1. s # {} /\ s \in SUBSET Ids
    BY <1>3
  <2> DEFINE x == Pick(s)
             r == Rest(s)
  <2>2. x \in s /\ x \in Ids /\ r \in SUBSET Ids /\ r = s \ {x}
    BY <2>1, Sizes DEF Rest
  <2>3. u[s] = f[x][m] + u[r] /\ v[s] = g[x][m] + v[r]
    BY <1>1, <1>2, <2>1 DEF Part
  <2> HIDE DEF x, r
  <2> SUFFICES ASSUME Good(r) PROVE Good(s)
    BY <2>2 DEF r
  <2>4. u[r] \in Int /\ f[x][m] \in Int /\ v[r] = u[r] + (IF j \in r THEN d ELSE 0)
    BY <1>0, <2>2
  <2>5. CASE x = j
    <3>1. j \in s /\ j \notin r /\ g[x][m] = f[x][m] + d
      BY <1>0, <2>2, <2>5
    <3> QED
      BY <2>3, <2>4, <3>1
  <2>6. CASE x # j
    <3>1. (j \in s <=> j \in r) /\ g[x][m] = f[x][m]
      BY <1>0, <2>2, <2>6
    <3> QED
      BY <2>3, <2>4, <3>1
  <2> QED
    BY <2>5, <2>6
<1>5. Bad = {}
  BY <1>3, <1>4, PickByPick
<1>6. Good(Ids)
  BY <1>5
<1> QED
  BY <1>1, <1>2, <1>6

LEMMA TotalOfNothing ==
  ASSUME NEW f, NEW m, \A i \in Ids : f[i][m] = 0
  PROVE  Total(f, m) = 0
<1>1. PICK u : (\A s \in SUBSET Ids : u[s] = Part(f, m, u, s)) /\ Total(f, m) = u[Ids]
  BY Folded
<1> DEFINE Bad == {s \in SUBSET Ids : u[s] # 0}
<1>2. {} \notin Bad
  BY <1>1 DEF Part
<1>3. ASSUME NEW s \in Bad  PROVE Rest(s) \in Bad
  <2>1. s # {} /\ Pick(s) \in Ids /\ Rest(s) \in SUBSET Ids
    BY <1>2, Sizes
  <2>2. u[s] = f[Pick(s)][m] + u[Rest(s)]
    BY <1>1, <2>1 DEF Part
  <2>3. u[Rest(s)] # 0
    BY <2>1, <2>2
  <2> QED
    BY <2>1, <2>3
<1>4. Bad = {}
  BY <1>2, <1>3, PickByPick
<1> QED
  BY <1>1, <1>4

------------------------------------------------------------------------------
(* Usage.  A line is counted for the project of the pass that reads it,    *)
(* which as long as nothing raced is the project of the session: the       *)
(* session is there before its first line, and merges move both.           *)

Settled(o, se) == o.pc = "lines" => \A s \in o.at : se[s] # 0

UsageInv ==
  /\ IsFiniteSet(counted)
  /\ \A c \in counted : session[c[1]] # 0
  /\ \A p \in Procs : Settled(op[p], session)
  /\ UsageFollowsSessions

MinuteOf(c) == written[c[1]][c[2]]
LinesOf(i, m) == {c \in counted : session[c[1]] = i /\ MinuteOf(c) = m}
LinesIn(m)    == {c \in counted : MinuteOf(c) = m}

(* Lines the rollup knows, or that threw before it could.                  *)
Met == counted \cup thrown

(* The three parts of UsageFollowsSessions, one by one.                    *)
UsageParts ==
  /\ \A m \in Minutes : Total(usage, m) = Cardinality(LinesIn(m))
  /\ raced = {} => \A m \in Minutes : \A i \in Live : usage[i][m] = Cardinality(LinesOf(i, m))
  /\ Live = 1..(nextId - 1) =>
       \A m \in Minutes : \A s \in Sessions : \A k \in 1..stored[s] : <<s, k>> \in Met

LEMMA UsageIs == UsageFollowsSessions <=> UsageParts
BY DEF UsageParts, UsageFollowsSessions, Met, Total, CountedOf, LinesIn, LinesOf, MinuteOf

(* A step that counts nothing and moves no usage.                          *)
LEMMA UsageKept ==
  ASSUME IInv, IInv', UsageInv, UNCHANGED <<usage, counted, thrown, stored>>,
         \A c \in counted : /\ session'[c[1]] = session[c[1]]
                            /\ written'[c[1]][c[2]] = written[c[1]][c[2]],
         raced \subseteq raced',
         Live' = 1..(nextId' - 1) => Live = 1..(nextId - 1),
         \A p \in Procs : Settled(op'[p], session')
  PROVE  UsageInv'
<1>1. \A m : LinesIn(m)' = LinesIn(m) /\ \A i : LinesOf(i, m)' = LinesOf(i, m)
  BY DEF LinesIn, LinesOf, MinuteOf
<1>2. /\ \A m \in Minutes : Total(usage, m) = Cardinality(LinesIn(m))
      /\ raced = {} => \A m \in Minutes : \A i \in Live : usage[i][m] = Cardinality(LinesOf(i, m))
      /\ Live = 1..(nextId - 1) =>
           \A m \in Minutes : \A s \in Sessions : \A k \in 1..stored[s] : <<s, k>> \in Met
  BY UsageIs DEF UsageInv, UsageParts
<1>3. ASSUME raced' = {}, NEW m \in Minutes, NEW i \in Live'
      PROVE  usage[i][m] = Cardinality(LinesOf(i, m))
  <2>1. CASE i \in Live
    BY <1>2, <1>3, <2>1
  <2>2. CASE i \notin Live
    <3>1. i \in Ids /\ i # 0
      <4>1. nextId' \in 1..(MaxIds + 1) /\ i \in 1..(nextId' - 1) /\ MaxIds \in Nat
        BY <1>3, ConstantsAssumption DEF IInv, Tables
      <4> QED
        BY <4>1 DEF Ids
    <3>2. usage[i][m] = 0
      BY <2>2, <3>1 DEF IInv, Tables
    <3>3. \A c \in counted : session[c[1]] # i
      <4>1. \A c \in counted : c[1] \in Sessions
        BY DEF IInv, Lines
      <4> QED
        BY <2>2, <3>1, <4>1 DEF IInv, Tables
    <3>4. LinesOf(i, m) = {}
      BY <3>3 DEF LinesOf
    <3> QED
      BY <3>2, <3>4, FS_EmptySet
  <2> QED
    BY <2>1, <2>2
<1>4. UsageParts'
  <2>1. \A m \in Minutes : Total(usage', m) = Cardinality(LinesIn(m)')
    BY <1>1, <1>2
  <2>2. raced' = {} => \A m \in Minutes : \A i \in Live' : usage'[i][m] = Cardinality(LinesOf(i, m)')
    BY <1>1, <1>3
  <2>3. Live' = 1..(nextId' - 1) =>
          \A m \in Minutes : \A s \in Sessions : \A k \in 1..stored'[s] : <<s, k>> \in Met'
    BY <1>2 DEF Met
  <2> QED
    BY <2>1, <2>2, <2>3 DEF UsageParts
<1>5. UsageFollowsSessions'
  BY <1>4, UsageIs, PTL
<1> QED
  BY <1>5 DEF UsageInv

(* Who does not come to a journal holds none, or the one it held.          *)
LEMMA SettledKept ==
  ASSUME IInv, UsageInv, \A s \in Sessions : session[s] # 0 => session'[s] # 0,
         \A q \in Procs : op'[q].pc = "lines" => op'[q] = op[q]
  PROVE  \A q \in Procs : Settled(op'[q], session')
<1> SUFFICES ASSUME NEW q \in Procs, op'[q].pc = "lines", NEW s \in op[q].at
             PROVE  session'[s] # 0
  BY DEF Settled
<1>1. op'[q] = op[q] /\ op[q].pc = "lines"
  OBVIOUS
<1>2. s \in Sessions
  BY DEF IInv, Holders, Op
<1>3. session[s] # 0
  BY <1>1 DEF UsageInv, Settled
<1> QED
  BY <1>2, <1>3

LEMMA OthersHold ==
  ASSUME IInv, NEW p \in Procs, NEW o, o.pc # "lines", op' = [op EXCEPT ![p] = o]
  PROVE  \A q \in Procs : op'[q].pc = "lines" => op'[q] = op[q]
BY DEF IInv, Holders

(* No step of a process but the opening of a journal comes to one.         *)
LEMMA NoneOpened ==
  ASSUME IInv, NEW p \in Procs,
         \/ \E n \in Names : Resolve(p, n)
         \/ LinkAlias(p) \/ Create(p) \/ Leave(p) \/ Throw(p)
         \/ AutoMerge(p) \/ (p \in Web /\ MergeRequest(p)) \/ MergeCheck(p) \/ MergeCommit(p)
  PROVE  \A q \in Procs : op'[q].pc = "lines" => op'[q] = op[q]
<1>1. op[p] \in Op
  BY DEF IInv, Holders
<1>2. Idle.pc # "lines"
  BY DEF Idle
<1>3. \A n, i : Reading(n, i).pc # "lines"
  BY DEF Reading, Idle
<1>4. \A n, id, i : Unresolved("alias", n, id, i).pc # "lines" /\ Unresolved("create", n, id, i).pc # "lines"
  BY DEF Unresolved, Reading, Idle
<1>5. \A w, losers : Merging(w, losers).pc # "lines"
  BY DEF Merging, Idle
<1>6. CASE Throw(p)
  BY <1>2, <1>6, OthersHold DEF Throw, Become
<1>7. ASSUME NEW n \in Names, Resolve(p, n)
      PROVE  \A q \in Procs : op'[q].pc = "lines" => op'[q] = op[q]
  <2>1. PICK o : o.pc # "lines" /\ op' = [op EXCEPT ![p] = o]
    BY <1>3, <1>4, <1>7 DEF Resolve, ByName, ByAlias, ByIdentity, ByNothing, Become
  <2> QED
    BY <2>1, OthersHold
<1>8. CASE LinkAlias(p)
  <2> DEFINE o == [op[p] EXCEPT !.pc = "read", !.seen = NoRepo]
  <2>1. o.pc # "lines"
    BY <1>1 DEF Op
  <2>2. Throw(p) \/ op' = [op EXCEPT ![p] = o]
    BY <1>8 DEF LinkAlias, Become
  <2> QED
    BY <1>6, <2>1, <2>2, OthersHold
<1>9. CASE Create(p)
  <2> DEFINE o == [op[p] EXCEPT !.pc = "read", !.seen = NoRepo, !.pid = nextId]
  <2>1. o.pc # "lines"
    BY <1>1 DEF Op
  <2>2. Throw(p) \/ op' = [op EXCEPT ![p] = o]
    BY <1>9 DEF Create, Become
  <2> QED
    BY <1>6, <2>1, <2>2, OthersHold
<1>10. CASE Leave(p)
  <2> DEFINE left == op[p].sessions \ op[p].at
             o == [op[p] EXCEPT !.pc = "read", !.sessions = left, !.at = {}]
  <2>1. o.pc # "lines"
    BY <1>1 DEF Op
  <2>2. op' = [op EXCEPT ![p] = Idle] \/ op' = [op EXCEPT ![p] = o]
    BY <1>10 DEF Leave, Become
  <2> QED
    BY <1>2, <2>1, <2>2, OthersHold
<1>11. CASE AutoMerge(p)
  BY <1>5, <1>11, OthersHold DEF AutoMerge, Become
<1>12. CASE MergeRequest(p)
  <2>1. AutoMerge(p) \/ \E w, l \in Live : op' = [op EXCEPT ![p] = Merging(w, {l})]
    BY <1>12 DEF MergeRequest, Become
  <2> QED
    <3>1. CASE \E w, l \in Live : op' = [op EXCEPT ![p] = Merging(w, {l})]
      <4>1. PICK w \in Live, l \in Live : op' = [op EXCEPT ![p] = Merging(w, {l})]
        BY <3>1
      <4> DEFINE o == Merging(w, {l})
      <4>2. o.pc # "lines" /\ op' = [op EXCEPT ![p] = o]
        BY <1>5, <4>1
      <4> QED
        BY <4>2, OthersHold
    <3> QED
      BY <1>11, <2>1, <3>1
<1>13. CASE MergeCheck(p)
  <2>1. \A l : /\ [op[p] EXCEPT !.pc = "commit", !.name = projects[l].name, !.loser = l].pc # "lines"
               /\ op[p].pc = "merge" => [op[p] EXCEPT !.losers = op[p].losers \ {l}].pc # "lines"
    BY <1>1 DEF Op
  <2>2. PICK o : o.pc # "lines" /\ op' = [op EXCEPT ![p] = o]
    BY <1>2, <1>13, <2>1 DEF MergeCheck, Become
  <2> QED
    BY <2>2, OthersHold
<1>14. CASE MergeCommit(p)
  BY <1>5, <1>6, <1>14, OthersHold DEF MergeCommit, Become
<1> QED
  BY <1>6, <1>7, <1>8, <1>9, <1>10, <1>11, <1>12, <1>13, <1>14

(* Steps that leave lines, sessions and minutes alone.                     *)
LEMMA UsageUntouched ==
  ASSUME IInv, IInv', UsageInv, NEW p \in Procs,
         \/ \E n \in Names : Resolve(p, n)
         \/ LinkAlias(p) \/ Create(p) \/ Leave(p)
         \/ (AutoMerge(p) /\ UNCHANGED requests) \/ (p \in Web /\ MergeRequest(p)) \/ MergeCheck(p)
  PROVE  UsageInv'
<1>1. \A q \in Procs : op'[q].pc = "lines" => op'[q] = op[q]
  BY NoneOpened
<1>2. /\ UNCHANGED <<usage, counted, thrown, stored, session, written>> /\ raced \subseteq raced'
      /\ UNCHANGED <<Live, nextId>> \/ Create(p)
  <2>1. CASE \E n \in Names : Resolve(p, n)
    <3>1. UNCHANGED <<usage, counted, thrown, stored, session, written, raced, nextId>>
      BY <2>1 DEF Resolve, ByName, ByAlias, ByIdentity, ByNothing, tables
    <3>2. Live' = Live
      BY <2>1 DEF Resolve, ByName, ByAlias, ByIdentity, ByNothing, tables, Live, IInv, Tables
    <3> QED
      BY <3>1, <3>2
  <2>2. CASE LinkAlias(p)
    BY <2>2 DEF LinkAlias, Throw, tables, Live
  <2>3. CASE Create(p)
    BY <2>3 DEF Create, Throw, tables
  <2>4. CASE Leave(p) \/ AutoMerge(p) \/ MergeRequest(p) \/ MergeCheck(p)
    BY <2>4 DEF Leave, AutoMerge, MergeRequest, MergeCheck, tables, Live
  <2> QED
    BY <2>1, <2>2, <2>3, <2>4
<1>3. Live' = 1..(nextId' - 1) => Live = 1..(nextId - 1)
  <2>1. CASE UNCHANGED <<Live, nextId>>
    BY <2>1
  <2>2. CASE Create(p)
    <3>1. CASE Throw(p)
      BY <3>1 DEF Throw, tables, Live
    <3>2. CASE ~Throw(p)
      <4>1. Live' = Live \cup {nextId} /\ nextId' = nextId + 1
        BY <2>2, <3>2 DEF Create, Live
      <4>2. nextId \in Nat /\ \A i \in Live : i \in Nat /\ 1 <= i /\ i < nextId
        BY Numbers
      <4> SUFFICES ASSUME Live' = 1..(nextId' - 1) PROVE Live = 1..(nextId - 1)
        OBVIOUS
      <4>3. \A i \in 1..(nextId - 1) : i \in 1..(nextId' - 1) /\ i # nextId
        BY <4>1, <4>2
      <4>4. \A i \in 1..(nextId - 1) : i \in Live
        BY <4>1, <4>3
      <4>5. \A i \in Live : i \in 1..(nextId - 1)
        BY <4>2
      <4> QED
        BY <4>4, <4>5
    <3> QED
      BY <3>1, <3>2
  <2> QED
    BY <1>2, <2>1, <2>2
<1>4. \A q \in Procs : Settled(op'[q], session')
  BY <1>1, <1>2, SettledKept
<1> QED
  BY <1>2, <1>3, <1>4, UsageKept

LEMMA UsageLog ==
  ASSUME IInv, IInv', UsageInv, NEW s \in Sessions, NEW m \in Minutes, Log(s, m)
  PROVE  UsageInv'
<1>1. /\ written' = [written EXCEPT ![s] = @ \o <<m>>]
      /\ UNCHANGED <<projects, nextId, aliases, session, usage, stored, op, counted, thrown, raced>>
  BY DEF Log, tables
<1>2. ASSUME NEW c \in counted  PROVE written'[c[1]][c[2]] = written[c[1]][c[2]]
  <2>1. /\ written \in [Sessions -> Seq(Minutes)] /\ stored \in [Sessions -> Nat]
        /\ c \in Sessions \X (1..MaxLines) /\ c[2] <= stored[c[1]]
        /\ stored[c[1]] <= Len(written[c[1]])
    BY DEF IInv, Lines
  <2>2. CASE c[1] = s
    <3>1. written'[s] = written[s] \o <<m>> /\ written[s] \in Seq(Minutes)
      BY <1>1, <2>1
    <3>2. c[2] \in 1..Len(written[s])
      BY <2>1, <2>2
    <3> QED
      BY <2>2, <3>1, <3>2
  <2>3. CASE c[1] # s
    BY <1>1, <2>1, <2>3
  <2> QED
    BY <2>2, <2>3
<1>3. \A q \in Procs : Settled(op'[q], session')
  BY <1>1 DEF UsageInv
<1>4. Live' = Live
  BY <1>1 DEF Live
<1> QED
  BY <1>1, <1>2, <1>3, <1>4, UsageKept

(* A session that is opened has no counted lines yet.                      *)
LEMMA UsageOpen ==
  ASSUME IInv, IInv', UsageInv, NEW p \in Procs, NEW s \in Sessions, Open(p, s)
  PROVE  UsageInv'
<1> DEFINE i == op[p].pid
           o == [op[p] EXCEPT !.pc = "lines", !.at = {s}]
<1>1. CASE Throw(p)
  <2>1. UNCHANGED <<usage, counted, thrown, stored, session, written, raced, nextId, projects>>
    BY <1>1 DEF Open, Throw, tables
  <2>2. \A q \in Procs : Settled(op'[q], session')
    BY <1>1, <2>1, NoneOpened, SettledKept
  <2> QED
    BY <2>1, <2>2, UsageKept DEF Live
<1>2. CASE ~Throw(p)
  <2>1. /\ session' = [session EXCEPT ![s] = IF @ = 0 THEN i ELSE @]
        /\ op' = [op EXCEPT ![p] = o] /\ op[p].pc = "read"
        /\ UNCHANGED <<projects, nextId, usage, written, stored, counted, thrown, raced>>
    BY <1>2 DEF Open, Become
  <2>2. op[p] \in Op /\ i \in Ids /\ i # 0
    BY <2>1, ConstantsAssumption DEF IInv, Holders, Held, Ids
  <2>3. o.pc = "lines" /\ o.at = {s}
    BY <2>2 DEF Op
  <2> HIDE DEF o
  <2>4. \A t \in Sessions : session'[t] = IF t = s /\ session[s] = 0 THEN i ELSE session[t]
    BY <2>1 DEF IInv, Tables
  <2>5. session'[s] # 0 /\ \A t \in Sessions : session[t] # 0 => session'[t] = session[t]
    BY <2>2, <2>4
  <2>6. ASSUME NEW q \in Procs  PROVE Settled(op'[q], session')
    <3>1. CASE q = p
      <4>1. op'[q] = o
        BY <2>1, <3>1 DEF IInv, Holders
      <4> QED
        BY <2>3, <2>5, <4>1 DEF Settled
    <3>2. CASE q # p
      <4>1. op'[q] = op[q] /\ op[q].at \subseteq Sessions
        BY <2>1, <3>2 DEF IInv, Holders, Op
      <4> QED
        BY <2>5, <4>1 DEF Settled, UsageInv
    <3> QED
      BY <3>1, <3>2
  <2>7. \A c \in counted : session'[c[1]] = session[c[1]]
    BY <2>5 DEF UsageInv, IInv, Lines
  <2>8. Live' = Live
    BY <2>1 DEF Live
  <2> QED
    BY <2>1, <2>6, <2>7, <2>8, UsageKept
<1> QED
  BY <1>1, <1>2

(* A project that is gone has no minutes, and no session that was counted. *)
LEMMA GoneIsEmpty ==
  ASSUME IInv, UsageInv, NEW i \in Ids, i \notin Live, NEW m \in Minutes
  PROVE  usage[i][m] = 0 /\ LinesOf(i, m) = {} /\ Cardinality(LinesOf(i, m)) = 0
<1>1. usage[i][m] = 0
  BY DEF IInv, Tables
<1>2. \A c \in counted : session[c[1]] # i
  <2>1. \A c \in counted : c[1] \in Sessions
    BY DEF IInv, Lines
  <2>2. i # 0
    BY ConstantsAssumption DEF Ids
  <2> QED
    BY <2>1, <2>2 DEF IInv, Tables
<1>3. LinesOf(i, m) = {}
  BY <1>2 DEF LinesOf
<1> QED
  BY <1>1, <1>3, FS_EmptySet

(* A line that is met as it is stored leaves no other unmet.               *)
LEMMA NextMet ==
  ASSUME stored \in [Sessions -> Nat], NEW s \in Sessions,
         stored' = [stored EXCEPT ![s] = @ + 1],
         Met' = Met \cup {<<s, stored[s] + 1>>},
         \A r \in Sessions : \A n \in 1..stored[r] : <<r, n>> \in Met
  PROVE  \A r \in Sessions : \A n \in 1..stored'[r] : <<r, n>> \in Met'
<1> SUFFICES ASSUME NEW r \in Sessions, NEW n \in 1..stored'[r]  PROVE <<r, n>> \in Met'
  OBVIOUS
<1>1. stored[r] \in Nat
  OBVIOUS
<1>2. CASE r = s
  <2>1. stored'[r] = stored[s] + 1
    BY <1>2
  <2>2. n \in 1..stored[r] \/ n = stored[s] + 1
    BY <1>1, <1>2, <2>1
  <2> QED
    BY <1>2, <2>2
<1>3. CASE r # s
  BY <1>3
<1> QED
  BY <1>2, <1>3

LEMMA UsageStore ==
  ASSUME IInv, IInv', UsageInv, NEW p \in Procs, Store(p)
  PROVE  UsageInv'
<1> DEFINE i == op[p].pid
<1>1. PICK s \in op[p].at :
        /\ Unread(s) /\ stored' = [stored EXCEPT ![s] = @ + 1]
        /\ LET k == stored[s] + 1 IN
           \/ /\ i \in Live /\ usage' = [usage EXCEPT ![i][written[s][k]] = @ + 1]
              /\ counted' = counted \cup {<<s, k>>} /\ UNCHANGED thrown
           \/ /\ UNCHANGED <<usage, counted>>
              /\ i \in Live => thrown' = thrown \cup {<<s, k>>}
  BY DEF Store
<1>2. op[p].pc = "lines" /\ UNCHANGED <<projects, nextId, session, written, op, raced>> /\ Live' = Live
  BY DEF Store, Live
<1>3. /\ s \in Sessions /\ i \in Ids /\ i < nextId /\ Home[s] = op[p].name /\ op[p].name \in Names
      /\ i \in Live /\ op[p].name \notin raced => i = Stand(op[p].name, projects, aliases)
  BY <1>2 DEF IInv, Holders, Held, Op, Live
<1>4. session[s] # 0 /\ \A q \in Procs : Settled(op'[q], session')
  BY <1>2 DEF UsageInv, Settled
<1>5. /\ IsFiniteSet(counted) /\ \A c \in counted : session[c[1]] # 0
      /\ \A m \in Minutes : Total(usage, m) = Cardinality(LinesIn(m))
      /\ raced = {} => \A m \in Minutes : \A j \in Live : usage[j][m] = Cardinality(LinesOf(j, m))
      /\ Live = 1..(nextId - 1) =>
           \A m \in Minutes : \A r \in Sessions : \A n \in 1..stored[r] : <<r, n>> \in Met
  BY UsageIs DEF UsageInv, UsageParts
<1>8. stored \in [Sessions -> Nat]
  BY DEF IInv, Lines
<1>6. CASE UNCHANGED <<usage, counted>>
  <2>1. UNCHANGED <<usage, counted>>
    BY <1>6
  <2>2. \A m : LinesIn(m)' = LinesIn(m) /\ \A j : LinesOf(j, m)' = LinesOf(j, m)
    BY <1>2, <2>1 DEF LinesIn, LinesOf, MinuteOf
  <2>3. ASSUME Live' = 1..(nextId' - 1), NEW m \in Minutes
        PROVE  \A r \in Sessions : \A n \in 1..stored'[r] : <<r, n>> \in Met'
    <3>1. i \in Live
      <4>1. i \in 1..(nextId - 1)
        BY <1>3, Numbers DEF Ids
      <4> QED
        BY <1>2, <2>3, <4>1
    <3>2. CASE thrown' = thrown \cup {<<s, stored[s] + 1>>}
      <4>1. Met' = Met \cup {<<s, stored[s] + 1>>}
        BY <2>1, <3>2 DEF Met
      <4> QED
        BY <1>1, <1>2, <1>3, <1>5, <1>8, <2>3, <4>1, NextMet
    <3>3. CASE counted' = counted \cup {<<s, stored[s] + 1>>} /\ UNCHANGED thrown
      <4>1. Met' = Met \cup {<<s, stored[s] + 1>>}
        BY <3>3 DEF Met
      <4> QED
        BY <1>1, <1>2, <1>3, <1>5, <1>8, <2>3, <4>1, NextMet
    <3> QED
      BY <1>1, <3>1, <3>2, <3>3
  <2>4. UsageParts'
    <3>1. /\ \A m \in Minutes : Total(usage', m) = Cardinality(LinesIn(m)')
          /\ raced' = {} => \A m \in Minutes : \A j \in Live' :
               usage'[j][m] = Cardinality(LinesOf(j, m)')
      BY <1>2, <1>5, <2>1, <2>2
    <3> QED
      BY <2>3, <3>1 DEF UsageParts
  <2>5. UsageFollowsSessions'
    BY <2>4, UsageIs, PTL
  <2> QED
    BY <1>2, <1>4, <1>5, <2>1, <2>5 DEF UsageInv
<1>7. CASE ~UNCHANGED <<usage, counted>>
  <2> DEFINE k == stored[s] + 1
             t == written[s][k]
             x == <<s, k>>
  <2>1. /\ usage' = [usage EXCEPT ![i][t] = @ + 1] /\ counted' = counted \cup {x}
        /\ i \in Live /\ UNCHANGED thrown
    BY <1>1, <1>7
  <2>2. /\ written[s] \in Seq(Minutes) /\ stored \in [Sessions -> Nat] /\ stored[s] < Len(written[s])
        /\ \A c \in counted : c \in Sessions \X (1..MaxLines) /\ c[2] <= stored[c[1]]
        /\ usage \in [Ids -> [Minutes -> Nat]]
    BY <1>1, <1>3 DEF IInv, Lines, Tables, Unread
  <2>3. t \in Minutes
    <3>1. Len(written[s]) \in Nat /\ stored[s] \in Nat
      BY <1>3, <2>2
    <3>2. k \in 1..Len(written[s])
      BY <2>2, <3>1
    <3> QED
      BY <2>2, <3>2, ElementOfSeq
  <2>4. x \notin counted /\ k \in Nat
    BY <1>3, <2>2
  <2>5. \A j \in Ids, m \in Minutes :
          usage'[j][m] = IF j = i /\ m = t THEN usage[j][m] + 1 ELSE usage[j][m]
    BY <1>3, <2>1, <2>2, <2>3
  <2>6. stored' = [stored EXCEPT ![s] = k]
    BY <1>1
  <2>7. x[1] = s /\ x[2] = k /\ MinuteOf(x) = t
    BY DEF MinuteOf
  <2> HIDE DEF x, t, k
  <2>8. \A m \in Minutes : LinesIn(m)' = IF m = t THEN LinesIn(m) \cup {x} ELSE LinesIn(m)
    BY <1>2, <2>1, <2>7 DEF LinesIn, MinuteOf
  <2>9. \A j \in Ids, m \in Minutes :
          LinesOf(j, m)' = IF j = session[s] /\ m = t THEN LinesOf(j, m) \cup {x} ELSE LinesOf(j, m)
    BY <1>2, <2>1, <2>7 DEF LinesOf, MinuteOf
  <2>10. \A S \in SUBSET counted : /\ IsFiniteSet(S) /\ x \notin S
                                   /\ Cardinality(S \cup {x}) = Cardinality(S) + 1
    BY <1>5, <2>4, FS_Subset, FS_AddElement
  <2>11. ASSUME NEW m \in Minutes  PROVE Total(usage', m) = Cardinality(LinesIn(m)')
    <3>1. LinesIn(m) \in SUBSET counted /\ Total(usage, m) = Cardinality(LinesIn(m))
      BY <1>5 DEF LinesIn
    <3>2. \A j \in Ids : usage[j][m] \in Int
      BY <2>2
    <3> DEFINE d == IF m = t THEN 1 ELSE 0
    <3>5. usage'[i][m] = usage[i][m] + d /\ \A j \in Ids \ {i} : usage'[j][m] = usage[j][m]
      BY <1>3, <2>5, <3>2
    <3>6. Total(usage, m) \in Int /\ Total(usage', m) = Total(usage, m) + d
      <4>1. d \in Int
        OBVIOUS
      <4>2. i \in Ids /\ usage'[i][m] = usage[i][m] + d
        BY <1>3, <3>5
      <4>3. \A j \in Ids \ {i} : usage'[j][m] = usage[j][m]
        BY <3>5
      <4> HIDE DEF d, i
      <4>4. Differs(usage, usage', m, i, d)
        BY <3>2, <4>2, <4>3 DEF Differs
      <4> QED
        BY <4>1, <4>2, <4>4, TotalChanges
    <3>3. CASE m = t
      <4>1. Total(usage', m) = Total(usage, m) + 1
        BY <3>3, <3>6
      <4> QED
        BY <2>3, <2>8, <2>10, <3>1, <3>3, <4>1
    <3>4. CASE m # t
      <4>1. Total(usage', m) = Total(usage, m)
        BY <3>4, <3>6
      <4> QED
        BY <2>8, <3>1, <3>4, <4>1
    <3> QED
      BY <3>3, <3>4
  <2>12. ASSUME raced' = {}, NEW m \in Minutes, NEW j \in Live'
         PROVE  usage'[j][m] = Cardinality(LinesOf(j, m)')
    <3>1. session[s] = i
      <4>1. session[s] = Stand(Home[s], projects, aliases)
        BY <1>2, <1>3, <1>4, <2>12 DEF IInv, InPlace
      <4> QED
        BY <1>2, <1>3, <2>1, <2>12, <4>1
    <3>2. j \in Ids /\ usage[j][m] = Cardinality(LinesOf(j, m)) /\ LinesOf(j, m) \in SUBSET counted
      BY <1>2, <1>5, <2>12, Numbers DEF LinesOf
    <3>3. CASE j = i /\ m = t
      BY <2>5, <2>9, <2>10, <3>1, <3>2, <3>3
    <3>4. CASE ~(j = i /\ m = t)
      BY <2>5, <2>9, <3>1, <3>2, <3>4
    <3> QED
      BY <3>3, <3>4
  <2>13. ASSUME Live' = 1..(nextId' - 1), NEW m \in Minutes
         PROVE  \A r \in Sessions : \A n \in 1..stored'[r] : <<r, n>> \in Met'
    <3>1. Met' = Met \cup {<<s, stored[s] + 1>>}
      BY <2>1 DEF Met, x, k
    <3> QED
      BY <1>1, <1>2, <1>3, <1>5, <1>8, <2>13, <3>1, NextMet
  <2>14. UsageParts'
    BY <2>11, <2>12, <2>13 DEF UsageParts
  <2>15. UsageFollowsSessions'
    BY <2>14, UsageIs, PTL
  <2>16. IsFiniteSet(counted')
    BY <1>5, <2>1, FS_AddElement
  <2>17. \A c \in counted' : session'[c[1]] # 0
    BY <1>2, <1>4, <1>5, <2>1, <2>7
  <2> QED
    BY <1>4, <2>15, <2>16, <2>17 DEF UsageInv
<1> QED
  BY <1>6, <1>7

(* A merge: the minutes and the sessions of the loser go to the winner.    *)
LEMMA UsageMerge ==
  ASSUME IInv, IInv', UsageInv, NEW p \in Procs, MergeCommit(p)
  PROVE  UsageInv'
<1> DEFINE w == op[p].pid
           l == op[p].loser
<1>1. \A q \in Procs : op'[q].pc = "lines" => op'[q] = op[q]
  BY NoneOpened
<1>2. CASE Throw(p)
  <2>1. UNCHANGED <<usage, counted, thrown, stored, session, written, raced, nextId, projects>>
    BY <1>2 DEF MergeCommit, Throw, tables
  <2>2. \A q \in Procs : Settled(op'[q], session')
    BY <1>1, <2>1, SettledKept
  <2> QED
    BY <2>1, <2>2, UsageKept DEF Live
<1>3. CASE ~Throw(p)
  <2>1. /\ session' = [s \in Sessions |-> IF session[s] = l THEN w ELSE session[s]]
        /\ usage' = Summed(w, l) /\ projects' = [i \in Live \ {l} |-> projects[i]]
        /\ op[p].pc = "commit" /\ UNCHANGED <<nextId, written, stored, counted, thrown, raced>>
        /\ Live' = Live \ {l}
    BY <1>3 DEF MergeCommit, Live
  <2>2. w \in Ids /\ l \in Ids /\ l # w /\ l < nextId /\ w # 0
    BY <2>1, ConstantsAssumption DEF IInv, Holders, Held, Ids
  <2>3. /\ IsFiniteSet(counted) /\ \A c \in counted : c[1] \in Sessions /\ session[c[1]] # 0
        /\ \A m \in Minutes : Total(usage, m) = Cardinality(LinesIn(m))
        /\ raced = {} => \A m \in Minutes : \A j \in Live : usage[j][m] = Cardinality(LinesOf(j, m))
    BY UsageIs DEF UsageInv, UsageParts, IInv, Lines
  <2>4. \A s \in Sessions : session'[s] = IF session[s] = l THEN w ELSE session[s]
    BY <2>1
  <2>5. \A i \in Ids, m \in Minutes : usage[i][m] \in Nat
    BY DEF IInv, Tables
  <2>6. \A i \in Ids, m \in Minutes : usage'[i][m] = IF i = w THEN usage[w][m] + usage[l][m]
                                                     ELSE IF i = l THEN 0 ELSE usage[i][m]
    BY <2>1, <2>2 DEF Summed
  <2> HIDE DEF w, l
  <2>7. \A m : LinesIn(m)' = LinesIn(m)
    BY <2>1 DEF LinesIn, MinuteOf
  <2>8. ASSUME NEW m \in Minutes  PROVE Total(usage', m) = Cardinality(LinesIn(m)')
    <3> DEFINE h == [i \in Ids |-> [n \in {m} |-> IF i = w THEN usage[w][m] + usage[l][m] ELSE usage[i][m]]]
               d == usage[l][m]
               e == -d
    <3>1. \A i \in Ids : h[i][m] = IF i = w THEN usage[w][m] + usage[l][m] ELSE usage[i][m]
      OBVIOUS
    <3>2. d \in Nat /\ d \in Int /\ e \in Int
      BY <2>2, <2>5
    <3> HIDE DEF h
    <3>3. \A i \in Ids : usage[i][m] \in Int /\ h[i][m] \in Int
      BY <2>2, <2>5, <3>1
    <3>4. Total(h, m) = Total(usage, m) + d /\ Total(usage, m) \in Int
      <4>1. h[w][m] = usage[w][m] + d /\ \A i \in Ids \ {w} : h[i][m] = usage[i][m]
        BY <2>2, <3>1
      <4>2. w \in Ids /\ d \in Int /\ \A i \in Ids : usage[i][m] \in Int
        BY <2>2, <3>2, <3>3
      <4> HIDE DEF d, e
      <4>3. Differs(usage, h, m, w, d)
        BY <4>1, <4>2 DEF Differs
      <4> QED
        BY <4>2, <4>3, TotalChanges
    <3>5. Total(usage', m) = Total(h, m) + e
      <4>1. usage'[l][m] = h[l][m] + e /\ \A i \in Ids \ {l} : usage'[i][m] = h[i][m]
        BY <2>2, <2>5, <2>6, <3>1
      <4>2. l \in Ids /\ e \in Int /\ \A i \in Ids : h[i][m] \in Int
        BY <2>2, <3>2, <3>3
      <4> HIDE DEF d, e
      <4>3. Differs(h, usage', m, l, e)
        BY <4>1, <4>2 DEF Differs
      <4> QED
        BY <4>2, <4>3, TotalChanges
    <3>6. Total(usage', m) = Total(usage, m)
      <4> HIDE DEF d
      <4> QED
        BY <3>2, <3>4, <3>5
    <3> QED
      BY <2>3, <2>7, <3>6
  <2>9. ASSUME raced' = {}, NEW m \in Minutes, NEW i \in Live'
        PROVE  usage'[i][m] = Cardinality(LinesOf(i, m)')
    <3>1. i \in Live /\ i # l /\ i \in Ids /\ usage[i][m] = Cardinality(LinesOf(i, m))
      BY <2>1, <2>3, <2>9, Numbers
    <3>2. CASE i # w
      <4>1. LinesOf(i, m)' = LinesOf(i, m)
        BY <2>1, <2>3, <2>4, <3>1, <3>2 DEF LinesOf, MinuteOf
      <4> QED
        BY <2>6, <3>1, <3>2, <4>1
    <3>3. CASE i = w
      <4>1. LinesOf(i, m)' = LinesOf(w, m) \cup LinesOf(l, m)
        BY <2>1, <2>3, <2>4, <3>3 DEF LinesOf, MinuteOf
      <4>2. LinesOf(w, m) \cap LinesOf(l, m) = {}
        BY <2>2 DEF LinesOf
      <4>3. usage[l][m] = Cardinality(LinesOf(l, m))
        BY <2>1, <2>2, <2>3, <2>9, GoneIsEmpty
      <4>4. IsFiniteSet(LinesOf(w, m)) /\ IsFiniteSet(LinesOf(l, m))
        BY <2>3, FS_Subset DEF LinesOf
      <4>5. Cardinality(LinesOf(w, m) \cup LinesOf(l, m)) =
              Cardinality(LinesOf(w, m)) + Cardinality(LinesOf(l, m))
        <5>1. /\ Cardinality(LinesOf(w, m)) \in Nat /\ Cardinality(LinesOf(l, m)) \in Nat
              /\ Cardinality(LinesOf(w, m) \cap LinesOf(l, m)) = 0
          BY <4>2, <4>4, FS_CardinalityType, FS_EmptySet
        <5>2. Cardinality(LinesOf(w, m) \cup LinesOf(l, m)) =
                Cardinality(LinesOf(w, m)) + Cardinality(LinesOf(l, m))
                  - Cardinality(LinesOf(w, m) \cap LinesOf(l, m))
          BY <4>4, FS_Union
        <5> QED
          BY <5>1, <5>2
      <4> QED
        BY <2>6, <3>1, <3>3, <4>1, <4>3, <4>5
    <3> QED
      BY <3>2, <3>3
  <2>10. Live' # 1..(nextId' - 1)
    <3>1. l \in 1..(nextId - 1)
      BY <2>2, Numbers DEF Ids
    <3> QED
      BY <2>1, <3>1
  <2>11. UsageParts'
    BY <2>8, <2>9, <2>10 DEF UsageParts
  <2>12. UsageFollowsSessions'
    BY <2>11, UsageIs, PTL
  <2>13. \A s \in Sessions : session[s] # 0 => session'[s] # 0
    BY <2>2, <2>4
  <2>14. \A q \in Procs : Settled(op'[q], session')
    BY <1>1, <2>13, SettledKept
  <2> QED
    BY <2>1, <2>3, <2>12, <2>13, <2>14 DEF UsageInv
<1> QED
  BY <1>2, <1>3

LEMMA UsageInit == Init => UsageInv
<1> SUFFICES ASSUME Init PROVE UsageInv
  OBVIOUS
<1>1. counted = {} /\ IsFiniteSet(counted) /\ \A m : LinesIn(m) = {} /\ \A i : LinesOf(i, m) = {}
  BY FS_EmptySet DEF Init, LinesIn, LinesOf
<1>2. \A m \in Minutes : \A i \in Ids : usage[i][m] = 0
  BY DEF Init
<1>3. \A m \in Minutes : Total(usage, m) = 0
  BY <1>2, TotalOfNothing
<1>4. Live = {} /\ \A s \in Sessions : stored[s] = 0
  BY DEF Init, Live
<1>5. \A p \in Procs : Settled(op[p], session)
  BY DEF Init, Settled, Idle
<1>6. UsageParts
  BY <1>1, <1>3, <1>4, FS_EmptySet DEF UsageParts
<1> QED
  BY <1>1, <1>5, <1>6, UsageIs DEF UsageInv

LEMMA UsageStep ==
  ASSUME IInv, IInv', UsageInv, [Next]_vars
  PROVE  UsageInv'
<1>1. CASE UNCHANGED vars
  <2>1. UNCHANGED <<projects, nextId, session, usage, written, stored, op, counted, thrown, raced>>
    BY <1>1 DEF vars, tables
  <2>2. \A q \in Procs : Settled(op'[q], session')
    BY <2>1 DEF UsageInv
  <2> QED
    BY <2>1, <2>2, UsageKept DEF Live
<1>2. ASSUME NEW p \in Passes, PassStep(p) \/ Housekeeping(p)  PROVE UsageInv'
  <2>1. p \in Procs
    BY DEF Procs
  <2> QED
    <3>1. CASE \E s \in Sessions : Open(p, s)
      BY <2>1, <3>1, UsageOpen
    <3>2. CASE Store(p)
      BY <2>1, <3>2, UsageStore
    <3>3. CASE (\E n \in Names : Resolve(p, n)) \/ LinkAlias(p) \/ Create(p) \/ Leave(p) \/ Housekeeping(p)
      <4>1. Housekeeping(p) => AutoMerge(p) /\ UNCHANGED requests
        BY DEF Housekeeping
      <4>2. \/ \E n \in Names : Resolve(p, n)
            \/ LinkAlias(p) \/ Create(p) \/ Leave(p)
            \/ (AutoMerge(p) /\ UNCHANGED requests) \/ (p \in Web /\ MergeRequest(p)) \/ MergeCheck(p)
        BY <3>3, <4>1
      <4> QED
        BY <2>1, <4>2, UsageUntouched
    <3> QED
      BY <1>2, <3>1, <3>2, <3>3 DEF PassStep
<1>3. ASSUME NEW p \in Procs, MergeStep(p)  PROVE UsageInv'
  BY <1>3, UsageUntouched, UsageMerge DEF MergeStep
<1>4. ASSUME NEW p \in Web, MergeRequest(p)  PROVE UsageInv'
  BY <1>4, UsageUntouched DEF Procs
<1> QED
  BY <1>1, <1>2, <1>3, <1>4, UsageLog DEF Next

(* ingest-projects.ts:244: merges sum the minutes.  None is lost or        *)
(* doubled, and as long as no name was resolved from a stale look-up the   *)
(* minutes of a project are those of its sessions' lines; a stored line is *)
(* left out of the count only when it threw between its row and its count, *)
(* or after a row was merged away.                                         *)
THEOREM UsageStays == Spec => []UsageFollowsSessions
<1>1. IInv /\ UsageInv /\ [Next]_vars => (IInv /\ UsageInv)'
  BY NextStep, UsageStep
<1>2. Spec => [](IInv /\ UsageInv)
  BY InitInv, UsageInit, <1>1, PTL DEF Spec
<1>3. IInv /\ UsageInv => UsageFollowsSessions
  BY DEF UsageInv
<1> QED
  BY <1>2, <1>3, PTL

------------------------------------------------------------------------------
(* A single process, with no pass and no request beside it: what it looked *)
(* up still holds when it comes to use it.                                 *)

Whole == \A s \in Sessions : \A k \in 1..stored[s] : <<s, k>> \in counted \cup thrown

UpToDate(o, pr, al) ==
  /\ o.pc \in {"alias", "create"} => o.name \notin DOMAIN al /\ \A i \in DOMAIN pr : pr[i].name # o.name
  /\ o.pc \in {"alias", "read", "lines"} => o.pid \in DOMAIN pr

AloneInv == raced = {} /\ Whole /\ \A p \in Procs : UpToDate(op[p], projects, aliases)

Alone == \A p, q \in Procs : p = q

LEMMA AloneMoves ==
  ASSUME Alone, IInv, AloneInv, NEW p \in Procs, NEW new, Become(p, new),
         UpToDate(new, projects', aliases'), UNCHANGED <<raced, stored, counted, thrown>>
  PROVE  AloneInv'
<1>1. \A q \in Procs : op'[q] = new
  BY DEF Alone, Become, IInv, Holders
<1> QED
  BY <1>1 DEF AloneInv, Whole

(* Between merges nothing is held.                                         *)
LEMMA NothingHeld ==
  ASSUME NEW o, o.pc \in {"idle", "merge", "commit"}, NEW pr, NEW al
  PROVE  UpToDate(o, pr, al)
BY DEF UpToDate

LEMMA AloneResolve ==
  ASSUME Alone, IInv, AloneInv, NEW p \in Procs, NEW n \in Names, Resolve(p, n)
  PROVE  AloneInv'
<1>1. PICK id : ByName(p, n, id) \/ ByAlias(p, n) \/ ByIdentity(p, n, id) \/ ByNothing(p, n, id)
  BY DEF Resolve
<1>2. UNCHANGED <<raced, stored, counted, thrown>>
  BY DEF Resolve
<1>3. \A i : Reading(n, i).pc = "read" /\ Reading(n, i).pid = i
  BY DEF Reading, Idle
<1>4. \A pc, i : LET o == Unresolved(pc, n, id, i) IN o.pc = pc /\ o.name = n /\ o.pid = i
  BY DEF Unresolved, Reading, Idle
<1>5. CASE ByName(p, n, id)
  <2>1. PICK i \in Named(n) : /\ projects' = [projects EXCEPT ![i].repo = IF @ = NoRepo THEN id ELSE @]
                              /\ Become(p, Reading(n, i))
    BY <1>5 DEF ByName
  <2>2. i \in DOMAIN projects /\ DOMAIN projects' = DOMAIN projects
    BY <2>1 DEF Named, Live
  <2>3. UpToDate(Reading(n, i), projects', aliases')
    BY <1>3, <2>2 DEF UpToDate
  <2> QED
    BY <1>2, <2>1, <2>3, AloneMoves
<1>6. CASE ByAlias(p, n)
  <2>1. Become(p, Reading(n, aliases[n])) /\ UNCHANGED tables /\ aliases[n] \in Live
    BY <1>6 DEF ByAlias, IInv, Tables
  <2>2. UpToDate(Reading(n, aliases[n]), projects', aliases')
    BY <1>3, <2>1 DEF UpToDate, tables, Live
  <2> QED
    BY <1>2, <2>1, <2>2, AloneMoves
<1>7. CASE ByIdentity(p, n, id)
  <2>1. PICK i \in Live : Become(p, Unresolved("alias", n, id, i))
    BY <1>7 DEF ByIdentity
  <2>2. Named(n) = {} /\ n \notin DOMAIN aliases /\ UNCHANGED tables
    BY <1>7 DEF ByIdentity
  <2>3. UpToDate(Unresolved("alias", n, id, i), projects', aliases')
    BY <1>4, <2>2 DEF UpToDate, tables, Live, Named
  <2> QED
    BY <1>2, <2>1, <2>3, AloneMoves
<1>8. CASE ByNothing(p, n, id)
  <2>1. /\ Become(p, Unresolved("create", n, id, 0)) /\ UNCHANGED tables
        /\ Named(n) = {} /\ n \notin DOMAIN aliases
    BY <1>8 DEF ByNothing
  <2>2. UpToDate(Unresolved("create", n, id, 0), projects', aliases')
    BY <1>4, <2>1 DEF UpToDate, tables, Live, Named
  <2> QED
    BY <1>2, <2>1, <2>2, AloneMoves
<1> QED
  BY <1>1, <1>5, <1>6, <1>7, <1>8

LEMMA AloneLinkAlias ==
  ASSUME Alone, IInv, AloneInv, NEW p \in Procs, LinkAlias(p)
  PROVE  AloneInv'
<1> DEFINE n == op[p].name  i == op[p].pid
           new == [op[p] EXCEPT !.pc = "read", !.seen = NoRepo]
<1>1. op[p] \in Op
  BY DEF IInv, Holders, Held
<1>2. n \notin DOMAIN aliases /\ Named(n) = {} /\ i \in Live
  BY DEF LinkAlias, AloneInv, UpToDate, Named, Live
<1>3. Resolved(n) = 0
  BY <1>2 DEF Resolved
<1>4. UNCHANGED <<projects, raced, stored, counted, thrown>> /\ Become(p, new)
  BY <1>2, <1>3 DEF LinkAlias
<1>5. new.pc = "read" /\ new.pid = i
  BY <1>1 DEF Op
<1>6. UpToDate(new, projects', aliases')
  BY <1>2, <1>4, <1>5 DEF UpToDate, Live
<1> QED
  BY <1>4, <1>6, AloneMoves

LEMMA AloneCreate ==
  ASSUME Alone, IInv, AloneInv, NEW p \in Procs, Create(p)
  PROVE  AloneInv'
<1> DEFINE n == op[p].name
           new == [op[p] EXCEPT !.pc = "read", !.seen = NoRepo, !.pid = nextId]
<1>1. op[p] \in Op
  BY DEF IInv, Holders, Held
<1>2. n \notin DOMAIN aliases /\ Named(n) = {}
  BY DEF Create, AloneInv, UpToDate, Named, Live
<1>3. /\ projects' = [j \in Live \cup {nextId} |->
                       IF j = nextId THEN [name |-> n, repo |-> op[p].seen] ELSE projects[j]]
      /\ UNCHANGED <<raced, stored, counted, thrown>> /\ Become(p, new)
  BY <1>2 DEF Create
<1>4. new.pc = "read" /\ new.pid = nextId
  BY <1>1 DEF Op
<1>5. UpToDate(new, projects', aliases')
  BY <1>3, <1>4 DEF UpToDate
<1> QED
  BY <1>3, <1>5, AloneMoves

LEMMA AloneOpen ==
  ASSUME Alone, IInv, AloneInv, NEW p \in Procs, NEW s \in Sessions, Open(p, s)
  PROVE  AloneInv'
<1> DEFINE new == [op[p] EXCEPT !.pc = "lines", !.at = {s}]
<1>1. op[p] \in Op /\ op[p].pid \in Live
  BY DEF IInv, Holders, Held, Open, AloneInv, UpToDate, Live
<1>2. Become(p, new) /\ UNCHANGED <<projects, aliases, raced, stored, counted, thrown>>
  BY <1>1 DEF Open
<1>3. new.pc = "lines" /\ new.pid = op[p].pid
  BY <1>1 DEF Op
<1>4. UpToDate(new, projects', aliases')
  BY <1>1, <1>2, <1>3 DEF UpToDate, Live
<1> QED
  BY <1>2, <1>4, AloneMoves

(* The row a line is counted for is there.                                 *)
LEMMA AloneStore ==
  ASSUME IInv, AloneInv, NEW p \in Procs, Store(p)
  PROVE  AloneInv'
<1>1. op[p].pid \in Live
  BY DEF Store, AloneInv, UpToDate, Live
<1>2. PICK s \in op[p].at :
        /\ stored' = [stored EXCEPT ![s] = @ + 1]
        /\ \/ counted' = counted \cup {<<s, stored[s] + 1>>} /\ UNCHANGED thrown
           \/ thrown' = thrown \cup {<<s, stored[s] + 1>>} /\ UNCHANGED counted
  BY <1>1 DEF Store
<1>3. UNCHANGED <<projects, aliases, op, raced>> /\ stored \in [Sessions -> Nat] /\ s \in Sessions
  BY DEF Store, IInv, Lines, Holders, Op
<1>4. Met' = Met \cup {<<s, stored[s] + 1>>}
  BY <1>2 DEF Met
<1>5. Whole'
  <2>1. \A r \in Sessions : \A n \in 1..stored[r] : <<r, n>> \in Met
    BY DEF AloneInv, Whole, Met
  <2> QED
    BY <1>2, <1>3, <1>4, <2>1, NextMet DEF Whole, Met
<1> QED
  BY <1>3, <1>5 DEF AloneInv

LEMMA AloneLeave ==
  ASSUME Alone, IInv, AloneInv, NEW p \in Procs, Leave(p)
  PROVE  AloneInv'
<1> DEFINE next == [op[p] EXCEPT !.pc = "read", !.sessions = op[p].sessions \ op[p].at, !.at = {}]
<1>1. op[p] \in Op /\ op[p].pid \in Live
  BY DEF IInv, Holders, Held, Leave, AloneInv, UpToDate, Live
<1>2. /\ Become(p, Idle) \/ Become(p, next)
      /\ UNCHANGED <<projects, aliases, raced, stored, counted, thrown>>
  BY DEF Leave, tables
<1>3. next.pc = "read" /\ next.pid = op[p].pid /\ Idle.pc = "idle"
  BY <1>1 DEF Op, Idle
<1>4. UpToDate(next, projects', aliases') /\ UpToDate(Idle, projects', aliases')
  BY <1>1, <1>2, <1>3 DEF UpToDate, Live
<1> QED
  BY <1>2, <1>4, AloneMoves

LEMMA AloneMerges ==
  ASSUME Alone, IInv, AloneInv, NEW p \in Procs,
         AutoMerge(p) \/ MergeRequest(p) \/ MergeCheck(p) \/ MergeCommit(p)
  PROVE  AloneInv'
<1>1. op[p] \in Op /\ Idle.pc = "idle"
  BY DEF IInv, Holders, Held, Idle
<1>2. \A w, ls : Merging(w, ls).pc = "merge"
  BY DEF Merging, Idle
<1>3. UNCHANGED <<raced, stored, counted, thrown>>
  BY DEF AutoMerge, MergeRequest, MergeCheck, MergeCommit
<1>4. ASSUME NEW new, Become(p, new), new.pc \in {"idle", "merge", "commit"}  PROVE AloneInv'
  BY <1>3, <1>4, NothingHeld, AloneMoves
<1>5. CASE AutoMerge(p)
  BY <1>2, <1>4, <1>5 DEF AutoMerge
<1>6. CASE MergeRequest(p)
  BY <1>2, <1>4, <1>6 DEF MergeRequest, AutoMerge
<1>7. CASE MergeCheck(p)
  <2>1. op[p].pc = "merge"
    BY <1>7 DEF MergeCheck
  <2>2. \A l : /\ [op[p] EXCEPT !.pc = "commit", !.name = projects[l].name, !.loser = l].pc = "commit"
               /\ [op[p] EXCEPT !.losers = @ \ {l}].pc = "merge"
    BY <1>1, <2>1 DEF Op
  <2> QED
    BY <1>1, <1>4, <1>7, <2>2 DEF MergeCheck
<1>8. CASE MergeCommit(p)
  BY <1>1, <1>2, <1>4, <1>8 DEF MergeCommit, Throw
<1> QED
  BY <1>5, <1>6, <1>7, <1>8

LEMMA AloneStep ==
  ASSUME Alone, IInv, AloneInv, [Next]_vars
  PROVE  AloneInv'
<1>1. ASSUME UNCHANGED <<projects, aliases, op, raced, stored, counted, thrown>>  PROVE AloneInv'
  BY <1>1 DEF AloneInv, Whole
<1>2. ASSUME NEW s \in Sessions, NEW m \in Minutes, Log(s, m)  PROVE AloneInv'
  BY <1>1, <1>2 DEF Log, tables
<1>3. CASE UNCHANGED vars
  BY <1>1, <1>3 DEF vars, tables
<1>4. ASSUME NEW p \in Passes, PassStep(p) \/ Housekeeping(p)  PROVE AloneInv'
  <2>1. p \in Procs
    BY DEF Procs
  <2> QED
    BY <1>4, <2>1, AloneResolve, AloneLinkAlias, AloneCreate, AloneOpen, AloneStore, AloneLeave,
       AloneMerges DEF PassStep, Housekeeping
<1>5. ASSUME NEW p \in Web, MergeRequest(p)  PROVE AloneInv'
  BY <1>5, AloneMerges DEF Procs
<1>6. ASSUME NEW p \in Procs, MergeStep(p)  PROVE AloneInv'
  BY <1>6, AloneMerges DEF MergeStep
<1> QED
  BY <1>2, <1>3, <1>4, <1>5, <1>6 DEF Next

(* What SessionsFollowNames and UsageFollowsSessions excuse takes two at   *)
(* once.  As long as one pass runs at a time and no merge is requested     *)
(* beside it, no look-up is stale, whatever it merges: every session is    *)
(* with the project of its name, and every stored line is counted for that *)
(* project, unless it threw itself between its row and its count.          *)
THEOREM NothingLostAlone ==
  ASSUME \A p, q \in Procs : p = q
  PROVE  Spec => [](raced = {} /\ Whole /\ SessionsFollowNames /\ UsageFollowsSessions)
<1>1. Init => AloneInv
  BY DEF Init, AloneInv, Whole, UpToDate, Idle
<1>2. IInv /\ AloneInv /\ [Next]_vars => AloneInv'
  BY AloneStep DEF Alone
<1>3. AloneInv => raced = {} /\ Whole
  BY DEF AloneInv
<1> QED
  BY <1>1, <1>2, <1>3, Invariant, SessionsStay, UsageStays, PTL DEF Spec
===============================================================================
