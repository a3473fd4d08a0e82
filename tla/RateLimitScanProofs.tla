------------------------- MODULE RateLimitScanProofs -------------------------
(***************************************************************************)
(* Theorems about RateLimitScan, for every journal, batch size and number  *)
(* of requests and failures: types, what the cursor has passed is known, a *)
(* refusal is counted twice only when its record came late, and the events *)
(* of records survive the rescans.                                         *)
(***************************************************************************)
EXTENDS RateLimitScan, FiniteSetTheorems, WellFoundedInduction, TLAPS

Shape == [pc : {"idle", "wipe", "zero", "read", "select", "write"}, drain : BOOLEAN,
          from : Nat, rows : SUBSET Ids, stale : BOOLEAN]

Known(b) == b \in scanned \/ Covered(b)
Zeroing  == \E p \in Procs : op[p].pc = "zero"

Ground ==
  /\ journal \in Journals /\ session \in BOOLEAN /\ stored \in 0..Len(journal)
  /\ scanned \subseteq Texts /\ linked \subseteq Reported /\ loose \subseteq Ids
  /\ reported \in [Ids -> Nat] /\ cursor \in 0..stored
  /\ op \in [Procs -> Shape]
  /\ \A p \in Procs : op[p].rows \subseteq Texts /\ op[p].from <= stored
  /\ late \subseteq Reported /\ ahead \subseteq Ids /\ again \subseteq Ids
  /\ failed \subseteq Ids /\ torn \in BOOLEAN
  /\ posts \in 0..MaxPosts /\ rereads \in 0..MaxRereads /\ failures \in 0..MaxFailures

(* When p selects, every text up to the cursor it read is known; when it   *)
(* writes, every text up to the new cursor is known or among its rows:     *)
(* unless a rescan came after it had read the cursor.                      *)
Complete(p) ==
  /\ op[p].pc = "write" => op[p].rows # {}
  /\ \/ torn \/ Zeroing \/ op[p].stale
     \/ /\ op[p].pc = "select" => \A b \in Texts : b <= op[p].from => Known(b)
        /\ op[p].pc = "write" =>
             \A b \in Texts : b <= Last(op[p].rows) => b \in op[p].rows \/ Known(b)
Writers == \A p \in Procs : Complete(p)

(* A record ahead of ingest has at most the event a rebuild from disk      *)
(* made; an API error that ingest stored without a linked event has none,  *)
(* or that one.                                                            *)
Unread ==
  \A r \in 1..Len(journal) : IsRecord(r) =>
    /\ r > stored => reported[r] <= 1
    /\ r > stored /\ reported[r] > 0 => r \in ahead
    /\ r <= stored /\ journal[r].kind = "apierror" /\ r \notin linked /\ reported[r] > 0 => r \in ahead

IInv == Ground /\ PassedIsKnown /\ Writers /\ DoubleOnlyIfLate /\ RecordsKept /\ Unread

------------------------------------------------------------------------------
(* Of a set of numbers that is not empty, one is the smallest.             *)
LEMMA Smallest ==
  ASSUME NEW S \in SUBSET Nat, S # {}
  PROVE  \E n \in S : \A m \in S : n <= m
<1> DEFINE R == {p \in Nat \X Nat : p[1] < p[2]}
<1>1. IsWellFoundedOn(R, Nat)
  BY NatLessThanWellFounded, Zenon DEF OpToRel
<1>2. PICK n \in S : \A m \in S : <<m, n>> \notin R
  BY <1>1, WFMin, Zenon
<1>3. ASSUME NEW m \in S, m < n  PROVE FALSE
  <2>1. <<m, n>> \in R
    BY <1>3
  <2> QED
    BY <1>2, <2>1
<1> QED
  BY <1>3

(* The last row of a batch is the largest of its ids: the least bound of   *)
(* a set of ids is one of them.                                            *)
LEMMA LastIsLargest ==
  ASSUME NEW rows \in SUBSET Ids, rows # {}
  PROVE  Last(rows) \in rows /\ \A x \in rows : x <= Last(rows)
<1> DEFINE D == {n \in Nat : \A x \in rows : x <= n}
<1>1. MaxItems \in D /\ D \in SUBSET Nat
  BY ConstantsAssumption DEF Ids
<1>2. PICK n \in D : \A m \in D : n <= m
  BY <1>1, Smallest
<1>3. n \in rows
  <2> SUFFICES ASSUME n \notin rows PROVE FALSE
    OBVIOUS
  <2>1. \A x \in rows : x <= n - 1 /\ x \in Nat /\ x >= 1
    BY <1>2 DEF Ids
  <2>2. n - 1 \in Nat
    BY <2>1, <1>2
  <2>3. n - 1 \in D
    BY <2>1, <2>2
  <2> QED
    BY <1>2, <2>3
<1> QED
  BY <1>2, <1>3 DEF Last

(* A batch leaves out no text between the cursor and its last row.         *)
LEMMA BatchIsPrefix ==
  ASSUME Ground, NEW from \in Nat, NEW b \in Texts, b > from, NEW c \in Batch(from), b <= c
  PROVE  b \in Batch(from)
<1> DEFINE behind == {x \in Texts : x > from}
           B == {x \in behind : x <= b}
           C == {x \in behind : x <= c}
<1>1. stored \in Nat /\ Texts \subseteq 1..stored /\ IsFiniteSet(1..stored)
  <2>1. Len(journal) \in Nat
    BY ConstantsAssumption DEF Ground
  <2>2. stored \in Nat
    BY <2>1 DEF Ground
  <2>3. IsFiniteSet(1..stored)
    BY <2>2, FS_Interval
  <2> QED
    BY <2>2, <2>3 DEF Texts
<1>2. IsFiniteSet(C) /\ C \subseteq 1..stored
  BY <1>1, FS_Subset
<1>3. B \in SUBSET C
  <2>1. b \in 1..stored /\ c \in 1..stored
    BY <1>1 DEF Batch
  <2>2. ASSUME NEW x \in B  PROVE x \in C
    <3>1. x \in behind /\ x \in 1..stored /\ x <= b
      BY <1>1
    <3>2. x <= c
      BY <1>1, <2>1, <3>1
    <3> QED
      BY <3>1, <3>2
  <2> QED
    BY <2>2
<1>4. Cardinality(B) <= Cardinality(C) /\ Cardinality(B) \in Nat /\ Cardinality(C) \in Nat
  BY <1>2, <1>3, FS_Subset, FS_CardinalityType
<1>5. Cardinality(C) <= BatchSize
  BY DEF Batch
<1> QED
  BY <1>4, <1>5, ConstantsAssumption DEF Batch

(* Lengths and ids are numbers.                                            *)
LEMMA Numbers ==
  ASSUME Ground
  PROVE  /\ Len(journal) \in Nat /\ Len(journal) <= MaxItems /\ MaxItems \in Nat
         /\ stored \in Nat /\ stored <= Len(journal) /\ cursor \in Nat /\ cursor <= stored
         /\ Texts \subseteq 1..stored /\ Texts \subseteq Ids
         /\ 1..Len(journal) \subseteq Ids /\ Reported \subseteq Ids
<1>1. Len(journal) \in Nat /\ Len(journal) <= MaxItems /\ MaxItems \in Nat
  BY ConstantsAssumption DEF Ground
<1>2. stored \in Nat /\ stored <= Len(journal)
  BY <1>1 DEF Ground
<1>3. cursor \in Nat /\ cursor <= stored
  BY <1>2 DEF Ground
<1> QED
  BY <1>1, <1>2, <1>3 DEF Texts, Ids, Reported

LEMMA IdleShape ==
  Idle \in Shape /\ Idle.pc = "idle" /\ Idle.from = 0 /\ Idle.rows = {} /\ ~Idle.stale
<1>1. {} \in SUBSET Ids
  OBVIOUS
<1> QED
  BY <1>1 DEF Idle, Shape

(* A step that only moves one process, to a place where it holds no rows.  *)
LEMMA OnlyMoves ==
  ASSUME IInv, NEW p \in Procs, NEW o \in Shape, o.pc \notin {"select", "write", "zero"},
         o.from <= stored, o.rows = {},
         op' = [op EXCEPT ![p] = o], op[p].pc = "zero" => torn',
         torn => torn', torn' \in BOOLEAN,
         UNCHANGED <<journal, session, stored, events, cursor, late, ahead, again, failed>>,
         posts' \in 0..MaxPosts, rereads' \in 0..MaxRereads, failures' \in 0..MaxFailures
  PROVE  IInv'
<1>1. /\ op' \in [Procs -> Shape]
      /\ \A q \in Procs : op'[q] = IF q = p THEN o ELSE op[q]
  BY DEF IInv, Ground
<1>2. /\ Texts' = Texts /\ Reported' = Reported
      /\ \A b : Covered(b)' = Covered(b)
  BY DEF events, Texts, IsText, Reported, Covered, Near
<1>3. Ground'
  <2>1. \A q \in Procs : op'[q].rows \subseteq Texts' /\ op'[q].from <= stored'
    BY <1>1, <1>2 DEF IInv, Ground
  <2> QED
    BY <1>1, <1>2, <2>1 DEF IInv, Ground, events
<1>4. Zeroing => Zeroing' \/ torn'
  BY <1>1 DEF Zeroing
<1>5. PassedIsKnown'
  BY <1>2, <1>4 DEF IInv, PassedIsKnown, Zeroing, events
<1>6. Writers'
  <2> SUFFICES ASSUME NEW q \in Procs, op'[q].pc \in {"select", "write"} PROVE Complete(q)'
    BY DEF Writers, Complete
  <2>1. op'[q] = op[q] /\ Complete(q)
    BY <1>1 DEF IInv, Writers
  <2> QED
    BY <1>2, <1>4, <2>1 DEF Complete, Known, events
<1>7. DoubleOnlyIfLate' /\ RecordsKept' /\ Unread'
  BY <1>2 DEF IInv, DoubleOnlyIfLate, RecordsKept, Unread, IsRecord, Near, events
<1> QED
  BY <1>3, <1>5, <1>6, <1>7 DEF IInv

(* Nothing that is known is forgotten, and new text is behind every cursor *)
(* and every batch: a step that stores or writes records.                  *)
LEMMA WriteStep ==
  ASSUME IInv, NEW new \in SUBSET (1..Len(journal)), NEW messages \in SUBSET new,
         Write(new, messages), stored' \in stored..Len(journal),
         UNCHANGED <<journal, scanned, cursor, op, torn>>,
         session' \in BOOLEAN, loose' \subseteq Ids,
         ahead' \subseteq Ids, again' \subseteq Ids, failed' \subseteq Ids,
         posts' \in 0..MaxPosts, rereads' \in 0..MaxRereads, failures' \in 0..MaxFailures,
         RecordsKept', Unread'
  PROVE  IInv'
<1> USE Numbers
<1>0. Ground
  BY DEF IInv
<1>1. /\ reported' = [r \in Ids |-> IF r \in new THEN reported[r] + 1 ELSE reported[r]]
      /\ linked' = linked \cup messages
      /\ late' = late \cup {r \in new : \E b \in scanned : Near(b, r)}
  BY DEF Write
<1>2. reported \in [Ids -> Nat] /\ new \subseteq Ids
  BY <1>0 DEF Ground
<1>3. reported' \in [Ids -> Nat]
  BY <1>1, <1>2
<1>4. Reported' = Reported \cup new
  <2>1. \A r \in 1..Len(journal) : r \in Ids /\ reported[r] \in Nat
    BY <1>0, <1>2
  <2>2. \A r \in 1..Len(journal) :
          reported'[r] = IF r \in new THEN reported[r] + 1 ELSE reported[r]
    BY <1>1, <2>1
  <2>3. \A r \in 1..Len(journal) : reported'[r] > 0 <=> reported[r] > 0 \/ r \in new
    BY <2>1, <2>2
  <2>4. Reported' = {r \in 1..Len(journal) : reported'[r] > 0}
    BY DEF Reported
  <2> QED
    BY <2>3, <2>4 DEF Reported
<1>5. Texts \subseteq Texts' /\ \A b \in Texts' : b <= stored => b \in Texts
  BY <1>0 DEF Texts, IsText
<1>6. \A b : Covered(b) => Covered(b)'
  BY <1>4 DEF Covered, Near
<1>7. Ground'
  <2>1. linked' \subseteq Reported' /\ late' \subseteq Reported'
    BY <1>0, <1>1, <1>4 DEF Ground
  <2>2. stored' \in 0..Len(journal') /\ cursor' \in 0..stored'
    BY <1>0
  <2>3. scanned' \subseteq Texts' /\ \A p \in Procs : op'[p].rows \subseteq Texts'
    BY <1>0, <1>5 DEF Ground
  <2>4. \A p \in Procs : op'[p].from <= stored'
    <3> SUFFICES ASSUME NEW p \in Procs PROVE op[p].from <= stored'
      OBVIOUS
    <3>1. op[p].from \in Nat /\ op[p].from <= stored
      BY <1>0 DEF Ground, Shape
    <3> QED
      BY <1>0, <3>1
  <2> QED
    BY <1>0, <1>3, <2>1, <2>2, <2>3, <2>4 DEF Ground
<1>8. PassedIsKnown'
  <2>1. Zeroing' = Zeroing
    BY DEF Zeroing
  <2>2. \A b \in Texts' : b <= cursor' => b \in Texts /\ b <= cursor
    BY <1>0, <1>5 DEF Texts
  <2> QED
    BY <1>6, <2>1, <2>2 DEF IInv, PassedIsKnown, Zeroing
<1>9. Writers'
  <2> SUFFICES ASSUME NEW p \in Procs PROVE Complete(p)'
    BY DEF Writers
  <2>1. Complete(p)
    BY DEF IInv, Writers
  <2>2. op[p].pc = "write" => Last(op[p].rows) \in Texts
    <3> SUFFICES ASSUME op[p].pc = "write" PROVE Last(op[p].rows) \in Texts
      OBVIOUS
    <3>1. op[p].rows \in SUBSET Ids /\ op[p].rows # {} /\ op[p].rows \subseteq Texts
      BY <1>0, <2>1 DEF Ground, Complete
    <3> QED
      BY <3>1, LastIsLargest
  <2>3. op[p].pc = "write" => \A b \in Texts' : b <= Last(op[p].rows) => b \in Texts
    BY <1>0, <1>5, <2>2 DEF Texts
  <2>5. \A b \in Texts' : b <= op[p].from => b \in Texts
    <3>1. op[p].from \in Nat /\ op[p].from <= stored
      BY <1>0 DEF Ground, Shape
    <3> QED
      BY <1>0, <1>5, <3>1 DEF Texts
  <2>4. Zeroing' = Zeroing
    BY DEF Zeroing
  <2> QED
    BY <1>6, <2>1, <2>3, <2>4, <2>5 DEF Complete, Known
<1>10. DoubleOnlyIfLate'
  BY <1>1, <1>4 DEF IInv, DoubleOnlyIfLate, Near
<1> QED
  BY <1>7, <1>8, <1>9, <1>10 DEF IInv

LEMMA StoreItemStep ==
  ASSUME IInv, StoreItem
  PROVE  IInv'
<1> DEFINE n == stored + 1
<1> USE Numbers
<1>0. Ground /\ RecordsKept /\ Unread
  BY DEF IInv
<1>1. /\ stored < Len(journal) /\ stored' = n /\ n \in 1..Len(journal) /\ n \in Ids
      /\ UNCHANGED <<journal, session, scanned, loose, cursor, op, ahead, again, torn, posts, rereads>>
  BY <1>0 DEF StoreItem
<1>2. reported \in [Ids -> Nat] /\ failed \subseteq Ids /\ ahead \subseteq Ids
      /\ again \subseteq Ids /\ loose \subseteq Ids /\ session \in BOOLEAN
      /\ posts \in 0..MaxPosts /\ rereads \in 0..MaxRereads /\ failures \in 0..MaxFailures
  BY <1>0 DEF Ground
<1>3. CASE ~IsRecord(n)
  <2>1. UNCHANGED <<reported, linked, late, failed, failures>>
    BY <1>3 DEF StoreItem, IsText, IsRecord
  <2>2. Write({}, {})
    BY <1>2, <2>1 DEF Write
  <2>3. RecordsKept'
    BY <1>0, <1>1, <1>3, <2>1 DEF RecordsKept, IsRecord
  <2>4. Unread'
    BY <1>0, <1>1, <1>3, <2>1 DEF Unread, IsRecord
  <2> QED
    BY <1>0, <1>1, <1>2, <2>1, <2>2, <2>3, <2>4, WriteStep
<1>4. CASE IsRecord(n) /\ failures' = failures + 1 /\ failures < MaxFailures
           /\ failed' = failed \cup {n} /\ UNCHANGED <<reported, linked, late>>
  <2>2. Write({}, {})
    BY <1>2, <1>4 DEF Write
  <2>3. RecordsKept'
    BY <1>0, <1>1, <1>2, <1>4 DEF RecordsKept, IsRecord, Unread
  <2>4. Unread'
    BY <1>0, <1>1, <1>4 DEF Unread, IsRecord
  <2>5. failures' \in 0..MaxFailures /\ failed' \subseteq Ids
    BY <1>1, <1>2, <1>4, ConstantsAssumption
  <2> QED
    BY <1>0, <1>1, <1>2, <2>2, <2>3, <2>4, <2>5, WriteStep
<1>5. CASE IsRecord(n) /\ Write({n}, IF journal[n].kind = "apierror" THEN {n} ELSE {})
           /\ UNCHANGED <<failed, failures>>
  <2>1. /\ \A r \in Ids : reported'[r] = IF r = n THEN reported[r] + 1 ELSE reported[r]
        /\ linked' = linked \cup (IF journal[n].kind = "apierror" THEN {n} ELSE {})
    BY <1>2, <1>5 DEF Write
  <2>3. RecordsKept'
    <3> SUFFICES ASSUME NEW r \in 1..n, IsRecord(r)
                 PROVE  (reported'[r] = 0 => r \in failed)
                        /\ (reported'[r] > 1 => r \in ahead \cup again)
      BY <1>1, <1>5 DEF RecordsKept, IsRecord
    <3>1. r \in Ids /\ reported[r] \in Nat
      BY <1>0, <1>1, <1>2, SMTT(30)
    <3>2. CASE r = n
      BY <1>0, <1>1, <2>1, <3>1, <3>2 DEF Unread
    <3>3. CASE r # n
      BY <1>0, <1>1, <2>1, <3>1, <3>3 DEF RecordsKept
    <3> QED
      BY <3>2, <3>3
  <2>4. Unread'
    <3> SUFFICES ASSUME NEW r \in 1..Len(journal), IsRecord(r)
                 PROVE  /\ r > n => reported'[r] <= 1
                        /\ r > n /\ reported'[r] > 0 => r \in ahead
                        /\ r <= n /\ journal[r].kind = "apierror" /\ r \notin linked'
                             /\ reported'[r] > 0 => r \in ahead
      BY <1>1 DEF Unread, IsRecord
    <3>1. r \in Ids
      BY <1>0
    <3> QED
      BY <1>0, <1>1, <2>1, <3>1 DEF Unread
  <2> QED
    BY <1>0, <1>1, <1>2, <1>5, <2>3, <2>4, WriteStep
<1> QED
  BY <1>3, <1>4, <1>5 DEF StoreItem, IsText, IsRecord

(* A throttle line is read again: one more event.                          *)
LEMMA RereadStep ==
  ASSUME IInv, NEW n \in Ids, Reread(n)
  PROVE  IInv'
<1> USE Numbers
<1>0. Ground /\ RecordsKept /\ Unread
  BY DEF IInv
<1>1. /\ n <= stored /\ journal[n].kind = "throttle" /\ n \in 1..Len(journal)
      /\ Write({n}, {}) /\ again' = again \cup {n} /\ rereads' \in 0..MaxRereads
      /\ UNCHANGED <<journal, session, stored, scanned, loose, cursor, op, ahead, failed, torn,
                    posts, failures>>
  BY <1>0, ConstantsAssumption DEF Reread, Ground, Ids
<1>2. /\ reported \in [Ids -> Nat] /\ again' \subseteq Ids /\ stored' \in stored..Len(journal)
  BY <1>0, <1>1 DEF Ground
<1>3. /\ \A r \in Ids : reported'[r] = IF r = n THEN reported[r] + 1 ELSE reported[r]
      /\ linked' = linked
  BY <1>1, <1>2 DEF Write
<1>4. RecordsKept'
  <2> SUFFICES ASSUME NEW r \in 1..stored, IsRecord(r)
               PROVE  /\ reported'[r] = 0 => r \in failed
                      /\ reported'[r] > 1 => r \in ahead \cup again'
    BY <1>1 DEF RecordsKept, IsRecord
  <2>1. r \in Ids /\ reported[r] \in Nat
    BY <1>0, <1>2
  <2>2. CASE r = n
    BY <1>1, <1>3, <2>1, <2>2
  <2>3. CASE r # n
    BY <1>0, <1>1, <1>3, <2>1, <2>3 DEF RecordsKept
  <2> QED
    BY <2>2, <2>3
<1>5. Unread'
  BY <1>0, <1>1, <1>3 DEF Unread, IsRecord
<1> QED
  BY <1>0, <1>1, <1>2, <1>4, <1>5, WriteStep DEF Ground

LEMMA OpenSessionStep ==
  ASSUME IInv, OpenSession
  PROVE  IInv'
<1>1. /\ session' \in BOOLEAN
      /\ UNCHANGED <<journal, stored, scanned, reported, loose, linked, cursor, op, late, ahead,
                    again, failed, torn, posts, rereads, failures>>
  BY DEF OpenSession, events, history, bounds
<1>2. Write({}, {})
  BY <1>1 DEF Write, IInv, Ground
<1>3. RecordsKept' /\ Unread'
  BY <1>1 DEF IInv, RecordsKept, Unread, IsRecord
<1>4. stored' \in stored..Len(journal)
  BY <1>1, Numbers DEF IInv
<1> QED
  BY <1>1, <1>2, <1>3, <1>4, WriteStep DEF IInv, Ground

LEMMA BackfillStep ==
  ASSUME IInv, Backfill
  PROVE  IInv'
<1> DEFINE missing == {r \in 1..Len(journal) : IsRecord(r) /\ ~Exists(r)}
           byTime(r) == ~(journal[r].kind = "apierror" /\ r <= stored)
           new == {r \in missing : ~byTime(r) \/
                     \A q \in missing : q < r => journal[q].at # journal[r].at}
           mine == {r \in new : ~byTime(r)}
<1> USE Numbers
<1>0. Ground /\ RecordsKept /\ Unread
  BY DEF IInv
<1>a. /\ posts < MaxPosts /\ posts' = posts + 1
      /\ UNCHANGED <<journal, session, stored, scanned, cursor, op, again, failed, torn,
                    rereads, failures>>
      /\ \/ /\ session /\ Write(new, mine)
            /\ ahead' = ahead \cup {r \in new : r > stored} /\ UNCHANGED loose
         \/ /\ loose' = loose \cup new /\ UNCHANGED <<reported, linked, late, ahead>>
  BY DEF Backfill
<1>2. reported \in [Ids -> Nat] /\ failed \subseteq Ids /\ ahead \subseteq Ids
      /\ again \subseteq Ids /\ loose \subseteq Ids /\ session \in BOOLEAN
      /\ posts \in 0..MaxPosts /\ rereads \in 0..MaxRereads /\ failures \in 0..MaxFailures
  BY <1>0 DEF Ground
<1>b. posts' \in 0..MaxPosts /\ new \subseteq Ids /\ stored' \in stored..Len(journal)
  BY <1>0, <1>a, <1>2, ConstantsAssumption
<1>c. CASE loose' = loose \cup new /\ UNCHANGED <<reported, linked, late, ahead>>
  <2>1. loose' \subseteq Ids
    BY <1>2, <1>b, <1>c
  <2> HIDE DEF new
  <2>2. Write({}, {})
    BY <1>2, <1>c DEF Write
  <2>3. RecordsKept' /\ Unread'
    BY <1>0, <1>a, <1>c DEF RecordsKept, Unread, IsRecord
  <2> QED
    BY <1>a, <1>b, <1>2, <1>c, <2>1, <2>2, <2>3, WriteStep
<1> SUFFICES ASSUME session, Write(new, mine), ahead' = ahead \cup {r \in new : r > stored},
                    UNCHANGED loose
             PROVE  IInv'
  BY <1>a, <1>c
<1>1. /\ Write(new, mine) /\ ahead' = ahead \cup {r \in new : r > stored}
      /\ UNCHANGED <<journal, session, stored, scanned, loose, cursor, op, again, failed, torn,
                    rereads, failures>>
  BY <1>a
<1>3. \A r \in new : /\ r \in 1..Len(journal) /\ r \in Ids /\ ~Exists(r)
                     /\ ~(journal[r].kind = "apierror" /\ r <= stored) => reported[r] = 0
                     /\ journal[r].kind = "apierror" /\ r <= stored => r \notin linked
  <2> SUFFICES ASSUME NEW r \in new
               PROVE  /\ r \in 1..Len(journal) /\ r \in Ids /\ ~Exists(r)
                      /\ ~(journal[r].kind = "apierror" /\ r <= stored) => reported[r] = 0
                      /\ journal[r].kind = "apierror" /\ r <= stored => r \notin linked
    OBVIOUS
  <2>1. r \in 1..Len(journal) /\ r \in Ids /\ ~Exists(r)
    BY <1>0
  <2>2. reported[r] \in Nat
    BY <1>2, <2>1
  <2> QED
    BY <2>1, <2>2 DEF Exists, Reported
<1>4. mine \subseteq new /\ mine = {r \in new : journal[r].kind = "apierror" /\ r <= stored}
      /\ new \in SUBSET (1..Len(journal))
  OBVIOUS
<1> HIDE DEF mine, new
<1>5. /\ \A r \in Ids : reported'[r] = IF r \in new THEN reported[r] + 1 ELSE reported[r]
      /\ linked' = linked \cup mine
  BY <1>1 DEF Write
<1>6. RecordsKept'
  <2> SUFFICES ASSUME NEW r \in 1..stored, IsRecord(r)
               PROVE  /\ reported'[r] = 0 => r \in failed
                      /\ reported'[r] > 1 => r \in ahead \cup again
    BY <1>1 DEF RecordsKept, IsRecord
  <2>1. r \in Ids /\ r \in 1..Len(journal) /\ r <= stored
    BY <1>0
  <2>2. reported[r] \in Nat
    BY <1>2, <2>1
  <2>3. CASE r \in new
    <3>1. CASE reported[r] = 0
      BY <1>5, <2>1, <2>3, <3>1
    <3>2. CASE reported[r] > 0
      BY <1>0, <1>3, <1>5, <2>1, <2>2, <2>3, <3>2 DEF Unread
    <3> QED
      BY <2>2, <3>1, <3>2
  <2>4. CASE r \notin new
    BY <1>0, <1>5, <2>1, <2>4 DEF RecordsKept
  <2> QED
    BY <2>3, <2>4
<1>7. Unread'
  <2> SUFFICES ASSUME NEW r \in 1..Len(journal), IsRecord(r)
               PROVE  /\ r > stored => reported'[r] <= 1
                      /\ r > stored /\ reported'[r] > 0 => r \in ahead'
                      /\ r <= stored /\ journal[r].kind = "apierror" /\ r \notin linked'
                           /\ reported'[r] > 0 => r \in ahead'
    BY <1>1 DEF Unread, IsRecord
  <2>1. r \in Ids /\ r \in Nat /\ stored \in Nat
    BY <1>0
  <2>2. CASE r \in new
    <3>1. r > stored => reported'[r] = 1 /\ r \in ahead'
      BY <1>1, <1>3, <1>5, <2>1, <2>2
    <3>2. r <= stored /\ journal[r].kind = "apierror" => r \in linked'
      BY <1>4, <1>5, <2>2
    <3> QED
      BY <3>1, <3>2
  <2>3. CASE r \notin new
    BY <1>0, <1>1, <1>5, <2>1, <2>3 DEF Unread
  <2> QED
    BY <2>2, <2>3
<1>8. ahead' \subseteq Ids
  BY <1>1, <1>2, <1>3
<1> QED
  BY <1>1, <1>2, <1>b, <1>4, <1>6, <1>7, <1>8, WriteStep

(* A scan starts.                                                          *)
LEMMA TickStep ==
  ASSUME IInv, Tick
  PROVE  IInv'
<1>1. op' = [op EXCEPT !["worker"] = [Idle EXCEPT !.pc = "read"]] /\ op["worker"] = Idle
  <2>1. op' = [op EXCEPT !["worker"].pc = "read"] /\ op["worker"] = Idle
    BY DEF Tick
  <2> QED
    BY <2>1 DEF IInv, Ground
<1>2. LET o == [Idle EXCEPT !.pc = "read"] IN o \in Shape /\ o.pc = "read" /\ o.from = 0 /\ o.rows = {}
  BY IdleShape DEF Shape
<1>3. torn \in BOOLEAN /\ posts \in 0..MaxPosts /\ rereads \in 0..MaxRereads /\ 0 <= stored /\ failures \in 0..MaxFailures /\ "worker" \in Procs
  BY Numbers DEF IInv, Ground, Procs
<1> QED
  BY <1>1, <1>2, <1>3, IdleShape, OnlyMoves DEF Tick, history, bounds

LEMMA PostStep ==
  ASSUME IInv, Post
  PROVE  IInv'
<1>1. PICK pc \in {"read", "wipe"}, drain \in BOOLEAN :
        op' = [op EXCEPT !["web"] = [Idle EXCEPT !.pc = pc, !.drain = drain]]
  BY DEF Post
<1> DEFINE o == [Idle EXCEPT !.pc = pc, !.drain = drain]
<1>2. o \in Shape /\ o.pc \in {"read", "wipe"} /\ o.from = 0 /\ o.rows = {}
  BY IdleShape DEF Shape
<1> HIDE DEF o
<1>3. torn \in BOOLEAN /\ posts' \in 0..MaxPosts /\ rereads \in 0..MaxRereads /\ 0 <= stored
      /\ failures \in 0..MaxFailures /\ "web" \in Procs
  BY ConstantsAssumption, Numbers, SMTT(30) DEF IInv, Ground, Procs, Post
<1>4. op["web"].pc = "idle"
  BY IdleShape DEF Post
<1> QED
  <2>1. op' = [op EXCEPT !["web"] = o]
    BY <1>1 DEF o
  <2>2. o.pc \notin {"select", "write", "zero"} /\ torn' = torn
        /\ UNCHANGED <<journal, session, stored, events, cursor, late, ahead, again, failed,
                      rereads, failures>>
    BY <1>2 DEF Post, history
  <2> QED
    BY <1>2, <1>3, <1>4, <2>1, <2>2, OnlyMoves

LEMMA AbortStep ==
  ASSUME IInv, NEW p \in Procs, Abort(p)
  PROVE  IInv'
<1>1. torn \in BOOLEAN /\ posts \in 0..MaxPosts /\ rereads \in 0..MaxRereads
      /\ failures' \in 0..MaxFailures /\ 0 <= stored
  BY ConstantsAssumption, Numbers DEF IInv, Ground, Abort
<1>2. torn' \in BOOLEAN /\ (torn => torn') /\ (op[p].pc = "zero" => torn')
  BY <1>1 DEF Abort
<1> QED
  BY <1>1, <1>2, IdleShape, OnlyMoves DEF Abort

(* From scratch.  Between the two statements nothing is promised of what   *)
(* the cursor has passed, and a batch read before the second is stale.     *)
LEMMA WipeStep ==
  ASSUME IInv, NEW p \in Procs, Wipe(p)
  PROVE  IInv'
<1> DEFINE o == [op[p] EXCEPT !.pc = "zero"]
<1>1. op[p] \in Shape /\ op \in [Procs -> Shape]
  BY DEF IInv, Ground
<1>2. o \in Shape /\ o.pc = "zero" /\ o.from = op[p].from /\ o.rows = op[p].rows
  BY <1>1 DEF Shape
<1>3. /\ op' = [op EXCEPT ![p] = o] /\ scanned' = {} /\ late' = {}
      /\ UNCHANGED <<journal, session, stored, reported, loose, linked, cursor, ahead, again,
                    failed, torn, bounds>>
  BY <1>1 DEF Wipe
<1> HIDE DEF o
<1>4. op' \in [Procs -> Shape] /\ \A q \in Procs : op'[q] = IF q = p THEN o ELSE op[q]
  BY <1>1, <1>2, <1>3
<1>5. Texts' = Texts /\ Reported' = Reported
  BY <1>3 DEF Texts, IsText, Reported
<1>6. Ground'
  <2>1. \A q \in Procs : op'[q].rows \subseteq Texts' /\ op'[q].from <= stored'
    BY <1>2, <1>3, <1>4, <1>5 DEF IInv, Ground
  <2> QED
    BY <1>3, <1>4, <1>5, <2>1 DEF IInv, Ground, bounds
<1>7. Zeroing' /\ op'[p].pc = "zero"
  BY <1>2, <1>4 DEF Zeroing
<1>8. Writers'
  <2> SUFFICES ASSUME NEW q \in Procs, op'[q].pc \in {"select", "write"} PROVE Complete(q)'
    BY DEF Writers, Complete
  <2>1. op'[q] = op[q] /\ Complete(q)
    BY <1>2, <1>4 DEF IInv, Writers
  <2> QED
    BY <1>7, <2>1 DEF Complete
<1>9. PassedIsKnown' /\ DoubleOnlyIfLate'
  BY <1>3, <1>7 DEF PassedIsKnown, DoubleOnlyIfLate
<1>10. RecordsKept' /\ Unread'
  BY <1>3 DEF IInv, RecordsKept, Unread, IsRecord
<1> QED
  BY <1>6, <1>8, <1>9, <1>10 DEF IInv

LEMMA ZeroStep ==
  ASSUME IInv, NEW p \in Procs, Zero(p)
  PROVE  IInv'
<1> DEFINE o(q) == IF q = p THEN [op[p] EXCEPT !.pc = "read"]
                            ELSE [op[q] EXCEPT !.stale = op[q].pc \in {"select", "write"}]
<1>1. \A q \in Procs : op[q] \in Shape
  BY DEF IInv, Ground
<1>2. \A q \in Procs : /\ o(q) \in Shape /\ o(q).from = op[q].from /\ o(q).rows = op[q].rows
                       /\ o(q).pc \in {"select", "write"} => o(q).stale /\ op[q].pc = o(q).pc
  <2> SUFFICES ASSUME NEW q \in Procs
               PROVE  /\ o(q) \in Shape /\ o(q).from = op[q].from /\ o(q).rows = op[q].rows
                      /\ o(q).pc \in {"select", "write"} => o(q).stale /\ op[q].pc = o(q).pc
    OBVIOUS
  <2>1. CASE q = p
    BY <1>1, <2>1 DEF Shape
  <2>2. CASE q # p
    <3>1. (op[q].pc \in {"select", "write"}) \in BOOLEAN
      OBVIOUS
    <3>2. o(q) = [op[q] EXCEPT !.stale = op[q].pc \in {"select", "write"}]
      BY <2>2
    <3> QED
      BY <1>1, <3>1, <3>2 DEF Shape
  <2> QED
    BY <2>1, <2>2
<1>3. /\ op' = [q \in Procs |-> o(q)] /\ cursor' = 0 /\ torn' = FALSE
      /\ UNCHANGED <<journal, session, stored, scanned, reported, loose, linked, late, ahead,
                    again, failed, bounds>>
  BY DEF Zero, events
<1> HIDE DEF o
<1>4. op' \in [Procs -> Shape] /\ \A q \in Procs : op'[q] = o(q)
  BY <1>2, <1>3
<1>5. Texts' = Texts /\ Reported' = Reported
  BY <1>3 DEF Texts, IsText, Reported
<1>6. Ground'
  <2>1. \A q \in Procs : op'[q].rows \subseteq Texts' /\ op'[q].from <= stored'
    BY <1>2, <1>3, <1>4, <1>5 DEF IInv, Ground
  <2>2. cursor' \in 0..stored'
    BY <1>3, Numbers DEF IInv
  <2> QED
    BY <1>3, <1>4, <1>5, <2>1, <2>2 DEF IInv, Ground, bounds
<1>7. PassedIsKnown'
  BY <1>3, <1>5, Numbers DEF IInv, PassedIsKnown
<1>8. Writers'
  <2> SUFFICES ASSUME NEW q \in Procs, op'[q].pc \in {"select", "write"} PROVE Complete(q)'
    BY DEF Writers, Complete
  <2>1. op'[q].stale /\ op[q].pc = op'[q].pc /\ op'[q].rows = op[q].rows
    BY <1>2, <1>4
  <2>2. op[q].pc = "write" => op[q].rows # {}
    BY <2>1 DEF IInv, Writers, Complete
  <2> QED
    BY <2>1, <2>2 DEF Complete
<1>9. DoubleOnlyIfLate' /\ RecordsKept' /\ Unread'
  BY <1>3, <1>5 DEF IInv, DoubleOnlyIfLate, RecordsKept, Unread, IsRecord, Near
<1> QED
  BY <1>6, <1>7, <1>8, <1>9 DEF IInv

(* The cursor is read, or a batch of rows behind it: one process moves,    *)
(* and what it holds is complete.                                          *)
LEMMA ReadsOnly ==
  ASSUME IInv, NEW p \in Procs, NEW o \in Shape, op' = [op EXCEPT ![p] = o],
         op[p].pc # "zero", o.pc # "zero", o.rows \subseteq Texts, o.from <= stored,
         Complete(p)',
         UNCHANGED <<journal, session, stored, events, cursor, history, bounds>>
  PROVE  IInv'
<1>1. /\ op' \in [Procs -> Shape] /\ \A q \in Procs : op'[q] = IF q = p THEN o ELSE op[q]
      /\ UNCHANGED <<journal, session, stored, scanned, reported, loose, linked, cursor,
                    history, bounds>>
  BY DEF IInv, Ground, events
<1>2. Texts' = Texts /\ Reported' = Reported /\ \A b : Known(b)' = Known(b)
  BY <1>1 DEF Texts, IsText, Reported, Known, Covered, Near
<1>3. Ground'
  <2>1. \A q \in Procs : op'[q].rows \subseteq Texts' /\ op'[q].from <= stored'
    BY <1>1, <1>2 DEF IInv, Ground
  <2> QED
    BY <1>1, <1>2, <2>1 DEF IInv, Ground, history, bounds
<1>4. Zeroing' = Zeroing
  BY <1>1 DEF Zeroing
<1>5. PassedIsKnown'
  BY <1>1, <1>2, <1>4 DEF IInv, PassedIsKnown, Zeroing, Known, history
<1>6. Writers'
  <2> SUFFICES ASSUME NEW q \in Procs, q # p PROVE Complete(q)'
    BY DEF Writers
  <2>1. op'[q] = op[q] /\ Complete(q)
    BY <1>1 DEF IInv, Writers
  <2> QED
    BY <1>1, <1>2, <1>4, <2>1 DEF Complete, history
<1>7. DoubleOnlyIfLate' /\ RecordsKept' /\ Unread'
  BY <1>1, <1>2 DEF IInv, DoubleOnlyIfLate, RecordsKept, Unread, IsRecord, Near, history
<1> QED
  BY <1>3, <1>5, <1>6, <1>7 DEF IInv

(* What the cursor has passed is known when it is read.                    *)
LEMMA ReadCursorStep ==
  ASSUME IInv, NEW p \in Procs, ReadCursor(p)
  PROVE  IInv'
<1> DEFINE o == [op[p] EXCEPT !.pc = "select", !.from = cursor]
<1>1. /\ op[p] \in Shape /\ op \in [Procs -> Shape] /\ op[p].pc = "read"
      /\ op[p].rows \subseteq Texts /\ cursor \in Nat /\ cursor <= stored
  BY Numbers DEF IInv, Ground, ReadCursor
<1>2. o \in Shape /\ o.pc = "select" /\ o.from = cursor /\ o.rows = op[p].rows
  BY <1>1 DEF Shape
<1>3. /\ op' = [op EXCEPT ![p] = o]
      /\ UNCHANGED <<journal, session, stored, events, cursor, history, bounds>>
  BY <1>1 DEF ReadCursor
<1> HIDE DEF o
<1>4. op'[p] = o /\ \A q \in Procs : q # p => op'[q] = op[q]
  BY <1>1, <1>3
<1>5. Zeroing' = Zeroing
  BY <1>1, <1>2, <1>4 DEF Zeroing
<1>6. Texts' = Texts /\ (\A b : Known(b)' = Known(b)) /\ torn' = torn
  BY <1>3 DEF Texts, IsText, Reported, Known, Covered, Near, events, history
<1>7. torn \/ Zeroing \/ \A b \in Texts : b <= cursor => Known(b)
  BY DEF IInv, PassedIsKnown, Zeroing, Known
<1>8. Complete(p)'
  BY <1>2, <1>4, <1>5, <1>6, <1>7 DEF Complete
<1> QED
  BY <1>1, <1>2, <1>3, <1>8, ReadsOnly

(* A batch is read: what lies up to its last row was known, or is in it.   *)
LEMMA SelectStep ==
  ASSUME IInv, NEW p \in Procs, Select(p)
  PROVE  IInv'
<1> DEFINE from == op[p].from
<1>1. /\ op[p] \in Shape /\ op \in [Procs -> Shape] /\ op[p].pc = "select" /\ torn \in BOOLEAN
      /\ posts \in 0..MaxPosts /\ rereads \in 0..MaxRereads /\ failures \in 0..MaxFailures
      /\ from \in Nat /\ from <= stored /\ 0 <= stored
  BY Numbers DEF IInv, Ground, Select, Shape
<1>2. CASE Batch(from) = {}
  <2>1. op' = [op EXCEPT ![p] = Idle]
    BY <1>1, <1>2 DEF Select
  <2> QED
    BY <1>1, <2>1, IdleShape, OnlyMoves DEF Select, history, bounds
<1>3. CASE Batch(from) # {}
  <2> DEFINE o == [op[p] EXCEPT !.pc = "write", !.rows = Batch(from)]
  <2>1. Batch(from) \in SUBSET Ids /\ Batch(from) \subseteq Texts
    BY Numbers DEF Batch, IInv
  <2>2. o \in Shape /\ o.pc = "write" /\ o.rows = Batch(from) /\ o.from = from
        /\ o.stale = op[p].stale
    BY <1>1, <2>1 DEF Shape
  <2>3. /\ op' = [op EXCEPT ![p] = o]
        /\ UNCHANGED <<journal, session, stored, events, cursor, history, bounds>>
    BY <1>1, <1>3 DEF Select
  <2> HIDE DEF o
  <2>4. op'[p] = o /\ \A q \in Procs : q # p => op'[q] = op[q]
    BY <1>1, <2>3
  <2>5. Zeroing' = Zeroing
    BY <1>1, <2>2, <2>4 DEF Zeroing
  <2>6. Texts' = Texts /\ (\A b : Known(b)' = Known(b)) /\ torn' = torn
    BY <2>3 DEF Texts, IsText, Reported, Known, Covered, Near, events, history
  <2>7. Last(Batch(from)) \in Batch(from)
    BY <1>3, <2>1, LastIsLargest
  <2>8. ASSUME ~torn, ~Zeroing, ~op[p].stale, NEW b \in Texts, b <= Last(Batch(from))
        PROVE  b \in Batch(from) \/ Known(b)
    <3>1. CASE b <= from
      BY <1>1, <2>8, <3>1 DEF IInv, Writers, Complete
    <3>2. CASE b > from
      BY <1>1, <2>7, <2>8, <3>2, BatchIsPrefix DEF IInv
    <3>3. b \in Nat
      BY Numbers DEF IInv
    <3> QED
      BY <1>1, <3>1, <3>2, <3>3
  <2>9. Complete(p)'
    BY <1>3, <2>2, <2>4, <2>5, <2>6, <2>8 DEF Complete
  <2> QED
    BY <1>1, <2>1, <2>2, <2>3, <2>9, ReadsOnly
<1> QED
  BY <1>2, <1>3

(* What was found is written with the cursor.                              *)
LEMMA WriteFoundStep ==
  ASSUME IInv, NEW p \in Procs, WriteFound(p)
  PROVE  IInv'
<1> DEFINE o   == op[p]
           x   == IF o.drain THEN [Idle EXCEPT !.pc = "read", !.drain = TRUE] ELSE Idle
           add == {b \in o.rows : ~Covered(b)}
<1>1. /\ o \in Shape /\ op \in [Procs -> Shape] /\ o.pc = "write" /\ o.rows \subseteq Texts
      /\ o.rows # {} /\ Complete(p) /\ torn \in BOOLEAN /\ o.stale \in BOOLEAN
  BY DEF IInv, Ground, Writers, Complete, WriteFound, Shape
<1>2. /\ scanned' = scanned \cup add /\ cursor' = Last(o.rows) /\ torn' = (torn \/ o.stale)
      /\ op' = [op EXCEPT ![p] = x]
      /\ UNCHANGED <<journal, session, stored, reported, loose, linked, late, ahead, again,
                    failed, bounds>>
  BY DEF WriteFound
<1>3. x \in Shape /\ x.pc \in {"idle", "read"} /\ x.from = 0 /\ x.rows = {}
  <2>1. LET y == [Idle EXCEPT !.pc = "read", !.drain = TRUE]
        IN y \in Shape /\ y.pc = "read" /\ y.from = 0 /\ y.rows = {}
    BY IdleShape DEF Shape
  <2> QED
    BY <2>1, IdleShape
<1> HIDE DEF x
<1>4. op' \in [Procs -> Shape] /\ \A q \in Procs : op'[q] = IF q = p THEN x ELSE op[q]
  BY <1>1, <1>2, <1>3
<1>5. Texts' = Texts /\ Reported' = Reported /\ \A b : Covered(b)' = Covered(b)
  BY <1>2 DEF Texts, IsText, Reported, Covered, Near
<1>6. Last(o.rows) \in Texts
  <2>1. o.rows \in SUBSET Ids /\ o.rows # {}
    BY <1>1 DEF Shape
  <2> QED
    BY <1>1, <2>1, LastIsLargest
<1>7. Ground'
  <2>1. \A q \in Procs : op'[q].rows \subseteq Texts' /\ op'[q].from <= stored'
    BY <1>2, <1>3, <1>4, <1>5, Numbers DEF IInv, Ground
  <2>2. cursor' \in 0..stored' /\ torn' \in BOOLEAN
    BY <1>1, <1>2, <1>6, Numbers DEF IInv
  <2>3. scanned' \subseteq Texts'
    BY <1>1, <1>2, <1>5 DEF IInv, Ground
  <2> QED
    BY <1>2, <1>4, <1>5, <2>1, <2>2, <2>3 DEF IInv, Ground, bounds
<1>8. Zeroing' = Zeroing
  BY <1>1, <1>3, <1>4 DEF Zeroing
<1>9. PassedIsKnown'
  <2> SUFFICES ASSUME ~torn', ~Zeroing, NEW b \in Texts, b <= Last(o.rows)
               PROVE  b \in scanned' \/ Covered(b)
    BY <1>2, <1>5, <1>8 DEF PassedIsKnown, Zeroing
  <2>1. b \in o.rows \/ Known(b)
    BY <1>1, <1>2 DEF Complete
  <2> QED
    BY <1>2, <2>1 DEF Known
<1>10. Writers'
  <2> SUFFICES ASSUME NEW q \in Procs, op'[q].pc \in {"select", "write"} PROVE Complete(q)'
    BY DEF Writers, Complete
  <2>1. op'[q] = op[q] /\ Complete(q)
    BY <1>3, <1>4 DEF IInv, Writers
  <2> QED
    BY <1>1, <1>2, <1>5, <1>8, <2>1 DEF Complete, Known
<1>11. DoubleOnlyIfLate'
  BY <1>2, <1>5 DEF IInv, DoubleOnlyIfLate, Near, Covered
<1>12. RecordsKept' /\ Unread'
  BY <1>2 DEF IInv, RecordsKept, Unread, IsRecord
<1> QED
  BY <1>7, <1>9, <1>10, <1>11, <1>12 DEF IInv

------------------------------------------------------------------------------
LEMMA InitInv == Init => IInv
<1> SUFFICES ASSUME Init PROVE IInv
  OBVIOUS
<1>1. journal \in Journals /\ Len(journal) \in Nat /\ Len(journal) <= MaxItems
  BY ConstantsAssumption DEF Init
<1>2. Texts = {} /\ Reported = {}
  <2>1. 1..Len(journal) \subseteq Ids /\ \A r \in Ids : reported[r] = 0
    BY <1>1, ConstantsAssumption DEF Init, Ids
  <2>2. stored = 0 /\ Reported = {}
    BY <2>1 DEF Init, Reported
  <2> QED
    BY <2>2 DEF Texts
<1>3. Ground
  <2>1. op \in [Procs -> Shape] /\ \A p \in Procs : op[p].rows = {} /\ op[p].from = 0
    BY IdleShape DEF Init
  <2>2. posts \in 0..MaxPosts /\ rereads \in 0..MaxRereads /\ failures \in 0..MaxFailures
    BY ConstantsAssumption DEF Init
  <2>3. reported \in [Ids -> Nat] /\ stored \in 0..Len(journal) /\ cursor \in 0..stored
    BY <1>1 DEF Init
  <2>4. \A p \in Procs : op[p].rows \subseteq Texts /\ op[p].from <= stored
    BY <2>1 DEF Init
  <2>5. /\ session \in BOOLEAN /\ scanned = {} /\ linked = {} /\ loose = {} /\ late = {}
        /\ ahead = {} /\ again = {} /\ failed = {} /\ torn \in BOOLEAN
    BY DEF Init
  <2> QED
    BY <1>1, <1>2, <2>1, <2>2, <2>3, <2>4, <2>5 DEF Ground
<1>4. Writers
  BY IdleShape DEF Init, Writers, Complete
<1>5. PassedIsKnown /\ DoubleOnlyIfLate
  BY <1>2 DEF PassedIsKnown, DoubleOnlyIfLate, Init
<1>6. RecordsKept /\ Unread
  BY <1>1, ConstantsAssumption DEF RecordsKept, Unread, Init, Ids
<1> QED
  BY <1>3, <1>4, <1>5, <1>6 DEF IInv

LEMMA NextStep ==
  ASSUME IInv, [Next]_vars
  PROVE  IInv'
<1>1. CASE UNCHANGED vars
  <2>1. UNCHANGED <<journal, session, stored, scanned, reported, loose, linked, cursor, op, late,
                    ahead, again, failed, torn, posts, rereads, failures>>
    BY <1>1 DEF vars, events, history, bounds
  <2>2. Texts' = Texts /\ Reported' = Reported /\ \A b : Known(b)' = Known(b)
    BY <2>1 DEF Texts, IsText, Reported, Known, Covered, Near
  <2>3. Ground' /\ PassedIsKnown'
    BY <2>1, <2>2 DEF IInv, Ground, PassedIsKnown, Known
  <2>4. Writers'
    BY <2>1, <2>2 DEF IInv, Writers, Complete, Zeroing
  <2>5. DoubleOnlyIfLate' /\ RecordsKept' /\ Unread'
    BY <2>1, <2>2 DEF IInv, DoubleOnlyIfLate, RecordsKept, Unread, IsRecord, Near
  <2> QED
    BY <2>3, <2>4, <2>5 DEF IInv
<1>2. ASSUME NEW p \in Procs, Step(p) \/ Abort(p)  PROVE IInv'
  BY <1>2, WipeStep, ZeroStep, ReadCursorStep, SelectStep, WriteFoundStep, AbortStep DEF Step
<1> QED
  BY <1>1, <1>2, OpenSessionStep, StoreItemStep, RereadStep, TickStep, PostStep, BackfillStep
     DEF Next

LEMMA Invariant == Spec => []IInv
<1>1. IInv /\ [Next]_vars => IInv'
  BY NextStep
<1> QED
  BY InitInv, <1>1, PTL DEF Spec

(* Every variable keeps its type; the cursor never leaves the blocks that  *)
(* are stored.                                                             *)
THEOREM TypeCorrect == Spec => []TypeOK
<1>1. IInv => TypeOK
  <2> SUFFICES ASSUME IInv PROVE TypeOK
    OBVIOUS
  <2> DEFINE T == [pc : {"idle", "wipe", "zero", "read", "select", "write"}, drain : BOOLEAN,
                   from : 0..stored, rows : SUBSET Texts, stale : BOOLEAN]
  <2>1. \A p \in Procs : op[p] \in T
    <3> SUFFICES ASSUME NEW p \in Procs PROVE op[p] \in T
      OBVIOUS
    <3>1. op[p] \in Shape /\ op[p].rows \subseteq Texts /\ op[p].from \in 0..stored
      BY Numbers DEF IInv, Ground, Shape
    <3> QED
      BY <3>1 DEF Shape
  <2>2. op \in [Procs -> T]
    BY <2>1 DEF IInv, Ground
  <2> QED
    BY <2>2 DEF IInv, Ground, TypeOK
<1> QED
  BY Invariant, <1>1, PTL

(* rate-limits.ts: what the cursor has passed is an event, or is covered   *)
(* by the record of the harness, whatever two scanners interleave.         *)
THEOREM NothingPassedOver == Spec => []PassedIsKnown
<1>1. IInv => PassedIsKnown
  BY DEF IInv
<1> QED
  BY Invariant, <1>1, PTL

(* A refusal is in twice only when its record came after its text had been *)
(* scanned.                                                                *)
THEOREM DoubleOnlyByLateRecord == Spec => []DoubleOnlyIfLate
<1>1. IInv => DoubleOnlyIfLate
  BY DEF IInv
<1> QED
  BY Invariant, <1>1, PTL

(* The events of records survive every rescan and rebuild, and a record    *)
(* with more than one was read again, or by a rebuild ahead of ingest.     *)
THEOREM RecordsSurvive == Spec => []RecordsKept
<1>1. IInv => RecordsKept
  BY DEF IInv
<1> QED
  BY Invariant, <1>1, PTL

(* What only the web server undoes: no request, no tear.                   *)
Untouched ==
  /\ ~torn /\ ahead = {} /\ posts = 0
  /\ \A p \in Procs : op[p].pc \in {"idle", "read", "select", "write"} /\ ~op[p].stale

LEMMA UntouchedStep ==
  ASSUME MaxPosts = 0, IInv, Untouched, [Next]_vars
  PROVE  Untouched'
<1>1. op \in [Procs -> Shape] /\ "worker" \in Procs
  BY DEF IInv, Ground, Procs
<1>2. Idle.pc = "idle" /\ ~Idle.stale
  BY DEF Idle
<1>3. CASE OpenSession \/ StoreItem \/ (\E r \in Ids : Reread(r)) \/ UNCHANGED vars
  BY <1>3 DEF OpenSession, StoreItem, Reread, Write, Untouched, vars, history, bounds
<1>4. CASE Tick
  <2>1. op' = [op EXCEPT !["worker"].pc = "read"] /\ UNCHANGED <<torn, ahead, posts>>
    BY <1>4 DEF Tick, history, bounds
  <2>2. op'["worker"].pc = "read" /\ op'["worker"].stale = op["worker"].stale
    BY <1>1, <2>1 DEF Shape
  <2>3. \A p \in Procs : p # "worker" => op'[p] = op[p]
    BY <1>1, <2>1
  <2> QED
    BY <1>1, <2>1, <2>2, <2>3 DEF Untouched
<1>5. ~Post /\ ~Backfill
  BY DEF Post, Backfill, Untouched
<1>6. ASSUME NEW p \in Procs, Wipe(p) \/ Zero(p)  PROVE FALSE
  BY <1>6 DEF Wipe, Zero, Untouched
<1>7. ASSUME NEW p \in Procs, NEW new, op' = [op EXCEPT ![p] = new],
             new.pc \in {"idle", "read", "select", "write"}, ~new.stale, ~torn', UNCHANGED <<ahead, posts>>
      PROVE  Untouched'
  BY <1>1, <1>7 DEF Untouched
<1>8. \A p \in Procs : op[p] \in Shape /\ op[p].pc \in {"idle", "read", "select", "write"} /\ ~op[p].stale
  BY <1>1 DEF Untouched
<1>12. ASSUME NEW p \in Procs, ReadCursor(p)  PROVE Untouched'
  <2> DEFINE o == [op[p] EXCEPT !.pc = "select", !.from = cursor]
  <2>1. op' = [op EXCEPT ![p] = o] /\ ~torn' /\ UNCHANGED <<ahead, posts>>
    BY <1>1, <1>12 DEF ReadCursor, Untouched, history, bounds
  <2>2. o.pc = "select" /\ ~o.stale
    BY <1>8 DEF Shape
  <2> QED
    BY <1>7, <2>1, <2>2
<1>9. ASSUME NEW p \in Procs, Select(p)  PROVE Untouched'
  <2> DEFINE o == [op[p] EXCEPT !.pc = "write", !.rows = Batch(op[p].from)]
  <2>1. /\ op' = [op EXCEPT ![p] = Idle] \/ op' = [op EXCEPT ![p] = o]
        /\ ~torn' /\ UNCHANGED <<ahead, posts>>
    BY <1>9 DEF Select, Untouched, history, bounds
  <2>2. o.pc = "write" /\ ~o.stale
    BY <1>8 DEF Shape
  <2> QED
    BY <1>2, <1>7, <2>1, <2>2
<1>10. ASSUME NEW p \in Procs, WriteFound(p)  PROVE Untouched'
  <2> DEFINE o == [Idle EXCEPT !.pc = "read", !.drain = TRUE]
  <2>1. /\ op' = [op EXCEPT ![p] = Idle] \/ op' = [op EXCEPT ![p] = o]
        /\ torn' = (torn \/ op[p].stale) /\ UNCHANGED <<ahead, posts>>
    BY <1>10 DEF WriteFound, bounds
  <2>2. o.pc = "read" /\ ~o.stale
    BY DEF Idle
  <2>3. ~torn'
    BY <1>8, <2>1 DEF Untouched
  <2> QED
    BY <1>2, <1>7, <2>1, <2>2, <2>3
<1>11. ASSUME NEW p \in Procs, Abort(p)  PROVE Untouched'
  <2>1. /\ op' = [op EXCEPT ![p] = Idle] /\ UNCHANGED <<ahead, posts>>
        /\ torn' = (torn \/ op[p].pc = "zero")
    BY <1>11 DEF Abort
  <2>2. ~torn'
    BY <1>8, <2>1 DEF Untouched
  <2> QED
    BY <1>2, <1>7, <2>1, <2>2
<1> QED
  BY <1>3, <1>4, <1>5, <1>6, <1>9, <1>10, <1>11, <1>12 DEF Next, Step

(* As long as the web server starts no rescan and no rebuild, the worker's *)
(* cursor passes nothing that is not an event, without exception, and only *)
(* a throttle line that ingest reads again is an event twice, whatever     *)
(* ingest fails to write and however often the worker dies.                *)
THEOREM NothingPassedOverUndisturbed ==
  ASSUME MaxPosts = 0
  PROVE  Spec => [](/\ \A b \in Texts : b <= cursor => b \in scanned \/ Covered(b)
                    /\ \A r \in 1..stored : IsRecord(r) /\ reported[r] > 1 => r \in again)
<1>1. Init => Untouched
  BY DEF Init, Idle, Untouched
<1>2. IInv /\ Untouched /\ [Next]_vars => Untouched'
  BY UntouchedStep
<1>3. IInv /\ Untouched => /\ \A b \in Texts : b <= cursor => b \in scanned \/ Covered(b)
                          /\ \A r \in 1..stored : IsRecord(r) /\ reported[r] > 1 => r \in again
  <2> SUFFICES ASSUME IInv, Untouched
               PROVE  /\ \A b \in Texts : b <= cursor => b \in scanned \/ Covered(b)
                      /\ \A r \in 1..stored : IsRecord(r) /\ reported[r] > 1 => r \in again
    OBVIOUS
  <2>1. \A b \in Texts : b <= cursor => b \in scanned \/ Covered(b)
    BY DEF IInv, PassedIsKnown, Untouched
  <2>2. \A r \in 1..stored : IsRecord(r) /\ reported[r] > 1 => r \in again
    BY DEF IInv, RecordsKept, Untouched
  <2> QED
    BY <2>1, <2>2
<1> QED
  BY <1>1, <1>2, <1>3, Invariant, PTL DEF Spec

==============================================================================
