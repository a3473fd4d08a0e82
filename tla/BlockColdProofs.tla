--------------------------- MODULE BlockColdProofs ---------------------------
(***************************************************************************)
(* Theorems about BlockCold, for every number of messages, batches,        *)
(* windows, days and crashes: a text is in one place, readers see the      *)
(* behaviour BlockText promises, the running total counts the cold rows,   *)
(* and the walk leaves nothing behind.                                     *)
(***************************************************************************)
EXTENDS BlockCold, SequenceTheorems, FiniteSetTheorems, WellFoundedInduction, TLAPS

(* What the steps need of the types: where a walk may be is left out.  A   *)
(* block that is not stored yet has no text and no row.                    *)
Stored ==
  /\ messages \in Seq([at : Days, large : BOOLEAN]) /\ maxId <= MaxMessages
  /\ hot \in [Ids -> Texts \cup {None}] /\ packed \in [Ids -> Texts \cup {None}]
  /\ cold \subseteq Known /\ today \in Days
  /\ \A b \in Ids \ Known : hot[b] = None /\ packed[b] = None

IInv == Stored /\ OnePlace

LEMMA InitInv == Init => IInv
<1> SUFFICES ASSUME Init PROVE IInv
  OBVIOUS
<1>1. messages = <<>> /\ maxId = 0 /\ Known = {}
  BY DEF Init, maxId, Known
<1>2. messages \in Seq([at : Days, large : BOOLEAN])
  BY <1>1
<1> QED
  BY <1>1, <1>2, ConstantsAssumption DEF Init, IInv, Stored, OnePlace, Days

(* A step that leaves messages and the store alone.                        *)
LEMMA Untouched ==
  ASSUME IInv, UNCHANGED <<messages, store>>, today' \in Days
  PROVE  IInv' /\ \A b \in Ids : Read(b)' = Read(b)
BY DEF IInv, Stored, OnePlace, Known, maxId, store, Read

LEMMA StoreStep ==
  ASSUME IInv, Store
  PROVE  IInv' /\ \E b \in Ids, t \in Texts : Promise!Store(b, t)
<1> USE ConstantsAssumption DEF IInv, Stored, OnePlace, Known, maxId, Ids
<1>1. PICK at \in 0..today, large \in BOOLEAN, t \in Fresh :
        /\ messages' = Append(messages, [at |-> at, large |-> large])
        /\ hot' = [hot EXCEPT ![Len(messages) + 1] = t]
  BY DEF Store
<1> DEFINE n == Len(messages) + 1
<1>2. /\ n \in Ids /\ t \in Texts /\ t # None
      /\ UNCHANGED <<cold, packed, today>>
  BY <1>1 DEF Store
<1>3. messages' \in Seq([at : Days, large : BOOLEAN]) /\ Len(messages') = n
  BY <1>1, AppendProperties DEF Days
<1>4. IInv'
  BY <1>1, <1>2, <1>3
<1>5. Promise!Store(n, t)
  <2>1. n \notin cold /\ Read(n) = None
    BY <1>2 DEF Read
  <2>2. \A b \in Ids : Read(b)' = IF b = n THEN t ELSE Read(b)
    BY <1>1, <1>2, <2>1 DEF Read
  <2> QED
    BY <1>2, <2>1, <2>2 DEF Promise!Store
<1> QED
  BY <1>2, <1>4, <1>5

(* Freezing and thawing move a text; neither changes what is read.         *)
LEMMA MoveStep ==
  ASSUME IInv, NEW moved, moved \subseteq {b \in Known : Eligible(b)}, Move(moved),
         UNCHANGED <<messages, today>>
  PROVE  IInv' /\ \A b \in Ids : Read(b)' = Read(b)
BY ConstantsAssumption DEF IInv, Stored, OnePlace, Known, maxId, Ids, Move, Eligible, Read

LEMMA ThawStep ==
  ASSUME IInv, Thaw
  PROVE  IInv' /\ \A b \in Ids : Read(b)' = Read(b)
<1>1. PICK back \in SUBSET cold :
        /\ hot' = [b \in Ids |-> IF b \in back THEN packed[b] ELSE hot[b]]
        /\ packed' = [b \in Ids |-> IF b \in back THEN None ELSE packed[b]]
        /\ cold' = cold \ back
  BY DEF Thaw
<1>2. UNCHANGED <<messages, today>>
  BY DEF Thaw
<1> QED
  BY <1>1, <1>2, ConstantsAssumption DEF IInv, Stored, OnePlace, Known, maxId, Ids, Read

LEMMA Resized ==
  ASSUME Stored, NEW b \in Known, Resize(b)
  PROVE  /\ messages' \in Seq([at : Days, large : BOOLEAN]) /\ maxId' = maxId
         /\ \A c \in Known : messages'[c].at = messages[c].at
         /\ \A c \in Known : messages'[c].large => messages[c].large \/ c \in grown'
         /\ grown \subseteq grown'
<1>1. PICK large \in BOOLEAN :
        /\ messages' = [messages EXCEPT ![b].large = large]
        /\ grown' = IF large /\ ~messages[b].large THEN grown \cup {b} ELSE grown
  BY DEF Resize
<1> DEFINE e == [messages[b] EXCEPT !.large = large]
<1>2. messages[b] \in [at : Days, large : BOOLEAN]
  BY ElementOfSeq DEF Stored, Known, maxId
<1>3. e \in [at : Days, large : BOOLEAN] /\ e.at = messages[b].at /\ e.large = large
  BY <1>2
<1>4. messages' = [messages EXCEPT ![b] = e]
  BY <1>1
<1> HIDE DEF e
<1>5. /\ messages' \in Seq([at : Days, large : BOOLEAN]) /\ Len(messages') = Len(messages)
      /\ \A c \in 1..Len(messages) : messages'[c] = IF c = b THEN e ELSE messages[c]
  BY <1>3, <1>4, ExceptSeq DEF Stored, Known, maxId
<1> QED
  BY <1>1, <1>3, <1>5 DEF Known, maxId

LEMMA RewriteStep ==
  ASSUME IInv, NEW b \in Known, NEW t \in Texts, Rewrite(b, t)
  PROVE  IInv' /\ Promise!Rewrite(b, t)
<1>0. messages' \in Seq([at : Days, large : BOOLEAN]) /\ Len(messages') = Len(messages)
  BY Resized DEF Rewrite, IInv, maxId
<1> USE ConstantsAssumption DEF IInv, Stored, OnePlace, Known, maxId, Ids
<1>1. t # None /\ b \in Ids /\ UNCHANGED <<cold, today>>
  BY DEF Rewrite
<1>2. Read(b) # None
  BY <1>1 DEF Read
<1>3. \/ b \in cold /\ packed' = [packed EXCEPT ![b] = t] /\ UNCHANGED hot
      \/ b \notin cold /\ hot' = [hot EXCEPT ![b] = t] /\ UNCHANGED packed
  BY DEF Rewrite
<1>4. IInv'
  <2>1. /\ hot' \in [Ids -> Texts \cup {None}] /\ packed' \in [Ids -> Texts \cup {None}]
        /\ \A c \in Ids \ Known : hot'[c] = None /\ packed'[c] = None
    BY <1>1, <1>3
  <2>2. \A c \in Known : IF c \in cold THEN hot'[c] = None /\ packed'[c] # None
                         ELSE hot'[c] # None /\ packed'[c] = None
    BY <1>1, <1>3
  <2> QED
    BY <1>0, <1>1, <2>1, <2>2
<1>5. \A c \in Ids : Read(c)' = IF c = b THEN t ELSE Read(c)
  BY <1>1, <1>3 DEF Read
<1> QED
  BY <1>1, <1>2, <1>4, <1>5 DEF Promise!Rewrite

(* What a batch freezes, and where it leaves the cursor.                   *)
LEMMA FreezeParts ==
  ASSUME FreezeBatch
  PROVE  LET c     == Walk
             late  == First(BatchSize, Late(c), ById)
             full  == Cardinality(late) = BatchSize
             walk  == First(BatchSize - Cardinality(late), Ahead(c), InTime)
             moved == {b \in late \cup walk : Eligible(b)}
         IN /\ late \subseteq Late(c) /\ walk \subseteq Ahead(c)
            /\ moved \in SUBSET {b \in Known : Eligible(b)}
            /\ tick # NoTick /\ tick' \in {tick, NoTick}
            /\ Move(moved)
            /\ cursor' = [window |-> tick.window,
                          ts     |-> IF walk = {} THEN c.ts ELSE messages[Last(walk, InTime)].at,
                          id     |-> IF walk = {} THEN c.id ELSE Last(walk, InTime),
                          maxId  |-> IF full THEN Last(late, ById) ELSE maxId]
            /\ IF moved = {} THEN UNCHANGED <<totals, recount>>
               ELSE Bump(cold \cup moved, Cardinality(moved)) /\ Overtaken
            /\ thawed' = IF c = cursor THEN thawed ELSE {}
            /\ grown' = IF c = cursor THEN grown ELSE {}
            /\ UNCHANGED <<messages, window, today, drifted, acts>>
<1> DEFINE c     == Walk
           late  == First(BatchSize, Late(c), ById)
           full  == Cardinality(late) = BatchSize
           walk  == First(BatchSize - Cardinality(late), Ahead(c), InTime)
           moved == {b \in late \cup walk : Eligible(b)}
<1>1. late \subseteq Late(c) /\ walk \subseteq Ahead(c)
  BY Zenon DEF First
<1>2. Late(c) \subseteq Known /\ Ahead(c) \subseteq Known
  BY Zenon DEF Late, Ahead
<1>3. moved \in SUBSET {b \in Known : Eligible(b)}
  <2> HIDE DEF late, walk
  <2> QED
    BY <1>1, <1>2
<1>4. tick' \in {tick, NoTick}
  BY Zenon DEF FreezeBatch
<1> QED
  BY <1>1, <1>3, <1>4, Zenon DEF FreezeBatch

(* Every step keeps the invariant and is a step of BlockText, or none.     *)
LEMMA NextStep ==
  ASSUME IInv, [Next]_vars
  PROVE  IInv' /\ [Promise!Next]_([b \in Ids |-> Read(b)])
<1> DEFINE text == [b \in Ids |-> Read(b)]
<1>1. ASSUME \A b \in Ids : Read(b)' = Read(b)  PROVE text' = text
  BY <1>1
<1>2. CASE Store
  BY <1>2, StoreStep DEF Promise!Next
<1>3. CASE FreezeBatch
  <2>1. PICK moved \in SUBSET {b \in Known : Eligible(b)} :
          Move(moved) /\ UNCHANGED <<messages, today>>
    BY <1>3, FreezeParts
  <2> QED
    BY <1>1, <2>1, MoveStep
<1>4. CASE Thaw
  BY <1>1, <1>4, ThawStep
<1>5. CASE \E b \in Known, t \in Texts : Rewrite(b, t)
  <2>1. PICK b \in Known, t \in Texts : Rewrite(b, t)
    BY <1>5
  <2>2. b \in Ids
    BY ConstantsAssumption DEF IInv, Stored, Known, Ids, maxId
  <2> QED
    BY <2>1, <2>2, RewriteStep DEF Promise!Next
<1>6. CASE \/ NextDay \/ SetWindow \/ BeginTick \/ Crash \/ UNCHANGED vars
           \/ \E p \in Processes : RecountRead(p) \/ RecountWrite(p) \/ RecountFails(p)
  <2>1. UNCHANGED <<messages, store>>
    BY <1>6 DEF NextDay, SetWindow, RecountRead, RecountWrite, RecountFails, BeginTick, Crash, vars
  <2>2. today' \in Days
    <3>1. UNCHANGED today \/ NextDay
      BY <1>6 DEF SetWindow, RecountRead, RecountWrite, RecountFails, BeginTick, Crash, vars
    <3> QED
      BY <3>1, ConstantsAssumption DEF NextDay, IInv, Stored, Days
  <2> QED
    BY <1>1, <2>1, <2>2, Untouched
<1> QED
  BY <1>2, <1>3, <1>4, <1>5, <1>6 DEF Next

THEOREM OneOfTwoPlaces == Spec => []OnePlace
<1>1. IInv /\ [Next]_vars => IInv'
  BY NextStep
<1>2. IInv => OnePlace
  BY DEF IInv
<1> QED
  BY InitInv, <1>1, <1>2, PTL DEF Spec

THEOREM NobodyNotices == Spec => TextKept
<1> DEFINE text == [b \in Ids |-> Read(b)]
<1>1. Init => Promise!Init
  BY DEF Init, Promise!Init, Read
<1>2. IInv /\ [Next]_vars => IInv' /\ [Promise!Next]_text
  BY NextStep
<1> QED
  BY InitInv, <1>1, <1>2, PTL DEF Spec, TextKept, Promise!Spec

------------------------------------------------------------------------------
(* The running total.  Every block of a batch was hot, every block thawed  *)
(* was cold, and the first total counts the change in.  A count that waits *)
(* to be written is right until something is moved.                        *)
CountRight ==
  /\ recount \in [Processes -> [count : Nat \cup {None}, stale : BOOLEAN]]
  /\ \A p \in Processes :
       Counting(p) /\ ~recount[p].stale => recount[p].count = Cardinality(cold)

LEMMA ColdIsFinite ==
  ASSUME IInv
  PROVE  /\ IsFiniteSet(cold) /\ Cardinality(cold) \in Nat /\ IsFiniteSet(Known)
         /\ cold \subseteq Known
<1>1. maxId \in Nat
  BY LenProperties DEF IInv, Stored, maxId
<1>2. IsFiniteSet(Known)
  BY <1>1, FS_Interval DEF Known
<1> QED
  BY <1>2, FS_Subset, FS_CardinalityType DEF IInv, Stored

LEMMA PackedAreCold ==
  ASSUME IInv
  PROVE  {b \in Ids : packed[b] # None} = cold
<1>1. cold \subseteq Ids /\ Known \subseteq Ids
  BY LenProperties, ConstantsAssumption DEF IInv, Stored, Known, Ids, maxId
<1>2. \A b \in Ids : packed[b] # None <=> b \in cold
  BY <1>1 DEF IInv, Stored, OnePlace
<1> QED
  BY <1>1, <1>2

LEMMA OvertakenCounts ==
  ASSUME CountRight, Overtaken
  PROVE  CountRight'
<1>1. \A p \in Processes : recount'[p] = [recount[p] EXCEPT !.stale = Counting(p)]
  BY DEF Overtaken
<1>2. recount' \in [Processes -> [count : Nat \cup {None}, stale : BOOLEAN]]
  BY DEF Overtaken, CountRight, Counting
<1>3. \A p \in Processes : recount'[p].count = recount[p].count /\ recount'[p].stale = Counting(p)
  BY <1>1 DEF CountRight
<1> QED
  BY <1>2, <1>3 DEF CountRight, Counting

LEMMA TotalsStep ==
  ASSUME IInv, CountRight, TotalsExact, [Next]_vars
  PROVE  CountRight' /\ TotalsExact'
<1>1. /\ IsFiniteSet(cold) /\ IsFiniteSet(Known) /\ cold \subseteq Known
      /\ Cardinality(cold) \in Nat
  BY ColdIsFinite
<1>2. CASE FreezeBatch
  <2>1. PICK moved \in SUBSET {b \in Known : Eligible(b)} :
          /\ Move(moved) /\ UNCHANGED drifted
          /\ IF moved = {} THEN UNCHANGED <<totals, recount>>
             ELSE Bump(cold \cup moved, Cardinality(moved)) /\ Overtaken
    BY <1>2, FreezeParts
  <2>2. cold' = cold \cup moved /\ cold \cap moved = {} /\ IsFiniteSet(moved)
    BY <1>1, <2>1, FS_Subset DEF Move, Eligible
  <2>3. /\ Cardinality(cold') = Cardinality(cold) + Cardinality(moved)
        /\ Cardinality(moved) \in Nat
    <3>1. /\ Cardinality(cold \cup moved) =
               Cardinality(cold) + Cardinality(moved) - Cardinality(cold \cap moved)
          /\ Cardinality(moved) \in Nat
      BY <1>1, <2>2, FS_Union, FS_CardinalityType, Zenon
    <3>2. Cardinality(cold \cap moved) = 0
      BY <2>2, FS_EmptySet, Zenon
    <3> QED
      BY <1>1, <2>2, <3>1, <3>2
  <2>4. CASE moved = {}
    BY <2>1, <2>2, <2>4 DEF TotalsExact, CountRight, Counting
  <2>5. CASE moved # {}
    <3>1. Bump(cold \cup moved, Cardinality(moved)) /\ Overtaken
      BY <2>1, <2>5
    <3>2. TotalsExact'
      BY <1>1, <2>1, <2>2, <2>3, <3>1 DEF TotalsExact, Bump
    <3> QED
      BY <3>1, <3>2, OvertakenCounts
  <2> QED
    BY <2>4, <2>5
<1>3. CASE Thaw
  <2>1. PICK back \in SUBSET cold :
          /\ cold' = cold \ back /\ Bump(cold \ back, -Cardinality(back))
          /\ Overtaken /\ UNCHANGED drifted
    BY <1>3 DEF Thaw
  <2>2. /\ Cardinality(cold') = Cardinality(cold) - Cardinality(back)
        /\ Cardinality(back) \in Nat /\ Cardinality(cold') \in Nat
    <3>1. IsFiniteSet(back) /\ IsFiniteSet(cold') /\ cold \cap back = back
      BY <1>1, <2>1, FS_Subset
    <3>2. /\ Cardinality(cold') = Cardinality(cold) - Cardinality(cold \cap back)
          /\ Cardinality(back) \in Nat /\ Cardinality(cold') \in Nat
      BY <1>1, <2>1, <3>1, FS_Difference, FS_CardinalityType, Zenon
    <3> QED
      BY <3>1, <3>2, Zenon
  <2>3. TotalsExact'
    BY <1>1, <2>1, <2>2 DEF TotalsExact, Bump
  <2> QED
    BY <2>1, <2>3, OvertakenCounts
<1>4. ASSUME NEW p \in Processes, RecountRead(p)  PROVE CountRight' /\ TotalsExact'
  <2>1. /\ recount' = [recount EXCEPT ![p].count = Cardinality(cold)]
        /\ UNCHANGED <<cold, totals, drifted>>
    BY <1>4, PackedAreCold DEF RecountRead, store, settings
  <2> QED
    BY <1>1, <2>1 DEF CountRight, Counting, TotalsExact
<1>5. ASSUME NEW p \in Processes, RecountWrite(p)  PROVE CountRight' /\ TotalsExact'
  <2>1. /\ totals' = recount[p].count /\ drifted' = recount[p].stale /\ Counting(p)
        /\ recount' = [recount EXCEPT ![p] = NoCount] /\ UNCHANGED cold
    BY <1>5 DEF RecountWrite, store
  <2>2. CountRight'
    BY <2>1 DEF CountRight, Counting, NoCount
  <2> QED
    BY <2>1, <2>2 DEF CountRight, TotalsExact
<1>6. ASSUME NEW p \in Processes, RecountFails(p)  PROVE CountRight' /\ TotalsExact'
  <2>1. recount' = [recount EXCEPT ![p] = NoCount] /\ UNCHANGED <<cold, totals, drifted>>
    BY <1>6 DEF RecountFails, store, settings
  <2> QED
    BY <2>1 DEF CountRight, Counting, NoCount, TotalsExact
<1>7. CASE Store \/ NextDay \/ SetWindow \/ BeginTick \/ Crash \/ UNCHANGED vars
           \/ \E b \in Known, t \in Texts : Rewrite(b, t)
  <2>1. UNCHANGED <<cold, totals, recount, drifted>>
    BY <1>7 DEF Store, NextDay, SetWindow, BeginTick, Crash, Rewrite, vars, store, settings
  <2> QED
    BY <2>1 DEF TotalsExact, CountRight, Counting
<1> QED
  BY <1>2, <1>3, <1>4, <1>5, <1>6, <1>7 DEF Next

(* The running total is the number of cold rows: batch after batch, thaw   *)
(* after thaw, with recounts of two processes at any moment, it is off only*)
(* while the last count written is one a freeze or thaw overtook, and its  *)
(* floor at zero never hides anything.                                     *)
THEOREM RunningTotal == Spec => []TotalsExact
<1>1. Init => IInv /\ CountRight /\ TotalsExact
  BY InitInv DEF Init, TotalsExact, CountRight, Counting, NoCount
<1>2. IInv /\ CountRight /\ TotalsExact /\ [Next]_vars => (IInv /\ CountRight /\ TotalsExact)'
  BY NextStep, TotalsStep
<1> QED
  BY <1>1, <1>2, PTL DEF Spec

------------------------------------------------------------------------------
(* The walk.  First, what ORDER BY ... LIMIT gives, for an order in which  *)
(* every set of rows that is not empty has a first and a last row.         *)
Orders(R, S) ==
  /\ \A x \in S : <<x, x>> \notin R
  /\ \A x, y, z \in S : <<x, y>> \in R /\ <<y, z>> \in R => <<x, z>> \in R
  /\ \A T \in SUBSET S : T # {} =>
       /\ \E m \in T : \A x \in T \ {m} : <<m, x>> \in R
       /\ \E m \in T : \A x \in T \ {m} : <<x, m>> \in R

(* Of a set of numbers that is not empty, one is the smallest; if it has a *)
(* bound, one is the largest.                                              *)
LEMMA Smallest ==
  ASSUME NEW S \in SUBSET Nat, S # {}
  PROVE  \E n \in S : \A m \in S : n <= m
<1> DEFINE R == {p \in Nat \X Nat : p[1] < p[2]}
<1>1. IsWellFoundedOn(R, Nat)
  BY NatLessThanWellFounded, Zenon DEF OpToRel
<1>2. PICK n \in S : \A m \in S : <<m, n>> \notin R
  BY <1>1, WFMin, Zenon
<1>3. ASSUME NEW m \in S, m < n  PROVE FALSE
  <2>1. <<m, n>> \in R
    BY <1>3
  <2> QED
    BY <1>2, <2>1
<1> QED
  BY <1>3

LEMMA Largest ==
  ASSUME NEW S \in SUBSET Nat, S # {}, NEW bound \in Nat, \A m \in S : m <= bound
  PROVE  \E n \in S : \A m \in S : m <= n
<1> DEFINE D == {n \in Nat : \A m \in S : m <= n}
<1>1. D \in SUBSET Nat /\ bound \in D
  OBVIOUS
<1>2. PICK n \in D : \A m \in D : n <= m
  BY <1>1, Smallest
<1>3. n \in S
  <2> SUFFICES ASSUME n \notin S PROVE FALSE
    OBVIOUS
  <2>1. \A x \in S : x <= n - 1 /\ x \in Nat
    BY <1>2
  <2>2. n - 1 \in Nat
    <3>1. PICK x \in S : TRUE
      OBVIOUS
    <3>2. x <= n - 1 /\ x \in Nat /\ n \in Nat
      BY <1>2, <2>1, <3>1
    <3> QED
      BY <3>2
  <2>3. n - 1 \in D
    BY <2>1, <2>2
  <2> QED
    BY <1>2, <2>3
<1> QED
  BY <1>2, <1>3

LEMMA LastIsLast ==
  ASSUME NEW R, NEW S, Orders(R, S), NEW T \in SUBSET S, T # {}
  PROVE  Last(T, R) \in T /\ \A x \in T \ {Last(T, R)} : <<x, Last(T, R)>> \in R
<1>1. \E m \in T : \A x \in T \ {m} : <<x, m>> \in R
  BY DEF Orders
<1> QED
  BY <1>1, Zenon DEF Last

(* A row before a row of the batch is in the batch.                        *)
LEMMA FirstIsPrefix ==
  ASSUME NEW R, NEW S, IsFiniteSet(S), Orders(R, S), NEW n \in Int,
         NEW c \in First(n, S, R), NEW b \in S, <<b, c>> \in R
  PROVE  b \in First(n, S, R)
<1> DEFINE B == {a \in S : <<a, b>> \in R}
           C == {a \in S : <<a, c>> \in R}
<1>1. c \in S /\ Cardinality(C) < n
  BY DEF First
<1>2. B \subseteq C /\ C \subseteq S
  BY <1>1 DEF Orders
<1>3. Cardinality(B) <= Cardinality(C) /\ Cardinality(B) \in Nat /\ Cardinality(C) \in Nat
  BY <1>2, FS_Subset, FS_CardinalityType
<1>4. Cardinality(B) < n
  BY <1>1, <1>3
<1> QED
  BY <1>4 DEF First

(* A batch that leaves a row out is full.                                  *)
LEMMA LeftOutMeansFull ==
  ASSUME NEW R, NEW S, IsFiniteSet(S), Orders(R, S), NEW n \in Nat,
         NEW b \in S, b \notin First(n, S, R)
  PROVE  Cardinality(First(n, S, R)) = n
<1> DEFINE F == First(n, S, R)
           Pred(x) == {a \in S : <<a, x>> \in R}
<1>1. F \subseteq S /\ IsFiniteSet(F) /\ Cardinality(F) \in Nat
  <2>1. F \subseteq S
    BY DEF First
  <2> QED
    BY <2>1, FS_Subset, FS_CardinalityType
<1>2. \A x \in S : (x \in F <=> Cardinality(Pred(x)) < n) /\ Cardinality(Pred(x)) \in Nat
                   /\ IsFiniteSet(Pred(x))
  <2>1. \A x \in S : Pred(x) \in SUBSET S
    OBVIOUS
  <2>2. \A x \in S : IsFiniteSet(Pred(x))
    BY <2>1, FS_Subset, Zenon
  <2>3. \A x \in S : Cardinality(Pred(x)) \in Nat
    BY <2>2, FS_CardinalityType, Zenon
  <2> QED
    BY <2>2, <2>3 DEF First
<1>3. n <= Cardinality(F)
  <2>1. PICK m \in S \ F : \A x \in (S \ F) \ {m} : <<m, x>> \in R
    <3>1. S \ F \in SUBSET S /\ S \ F # {}
      OBVIOUS
    <3> QED
      BY <3>1, Zenon DEF Orders
  <2>2. Pred(m) \subseteq F
    <3> SUFFICES ASSUME NEW x \in Pred(m), x \notin F PROVE FALSE
      OBVIOUS
    <3>1. x \in S /\ <<x, m>> \in R
      OBVIOUS
    <3>2. x # m
      BY <3>1 DEF Orders
    <3>3. <<m, x>> \in R
      BY <2>1, <3>1, <3>2
    <3>4. <<m, m>> \in R
      BY <2>1, <3>1, <3>3 DEF Orders
    <3> QED
      BY <2>1, <3>4 DEF Orders
  <2>3. Cardinality(Pred(m)) <= Cardinality(F)
    BY <1>1, <2>2, FS_Subset
  <2>4. ~(Cardinality(Pred(m)) < n) /\ Cardinality(Pred(m)) \in Nat
    BY <1>2, <2>1
  <2> HIDE DEF F, Pred
  <2> QED
    BY <1>1, <2>3, <2>4
<1>4. Cardinality(F) <= n
  <2>1. CASE F = {}
    BY <2>1, FS_EmptySet
  <2>2. CASE F # {}
    <3>1. PICK l \in F : \A x \in F \ {l} : <<x, l>> \in R
      BY <1>1, <2>2, Zenon DEF Orders
    <3>2. F \subseteq Pred(l) \cup {l}
      BY <1>1, <3>1
    <3>3. /\ IsFiniteSet(Pred(l) \cup {l})
          /\ Cardinality(Pred(l) \cup {l}) <= Cardinality(Pred(l)) + 1
      <4>1. l \in S /\ IsFiniteSet(Pred(l)) /\ Cardinality(Pred(l)) \in Nat
        BY <1>1, <1>2, <3>1
      <4> HIDE DEF Pred
      <4> QED
        <5>1. /\ IsFiniteSet(Pred(l) \cup {l})
              /\ Cardinality(Pred(l) \cup {l}) =
                   IF l \in Pred(l) THEN Cardinality(Pred(l)) ELSE Cardinality(Pred(l)) + 1
          BY <4>1, FS_AddElement, Zenon
        <5> QED
          BY <4>1, <5>1
    <3>4. Cardinality(F) <= Cardinality(Pred(l) \cup {l})
      BY <3>2, <3>3, FS_Subset
    <3>5. Cardinality(Pred(l)) < n /\ Cardinality(Pred(l)) \in Nat
      BY <1>1, <1>2, <3>1
    <3>6. Cardinality(Pred(l) \cup {l}) \in Nat
      BY <3>3, FS_CardinalityType
    <3> HIDE DEF F, Pred
    <3> QED
      BY <1>1, <3>3, <3>4, <3>5, <3>6
  <2> QED
    BY <2>1, <2>2
<1> QED
  BY <1>1, <1>3, <1>4

LEMMA MessageTimes ==
  ASSUME Stored
  PROVE  /\ maxId \in Nat /\ Known \subseteq Nat /\ \A b \in Known : b <= maxId
         /\ \A b \in Known : messages[b].at \in Days
<1>1. maxId \in Nat
  BY LenProperties DEF Stored, maxId
<1>2. \A b \in Known : messages[b] \in [at : Days, large : BOOLEAN]
  BY ElementOfSeq DEF Stored, Known, maxId
<1> QED
  BY <1>1, <1>2 DEF Known

(* Both orders of freezeBatch are such orders.                             *)
LEMMA ByIdOrders ==
  ASSUME Stored
  PROVE  Orders(ById, Known) /\ \A a, b \in Known : <<a, b>> \in ById <=> a < b
<1>1. maxId \in Nat /\ Known \subseteq Nat /\ \A b \in Known : b <= maxId
  BY LenProperties DEF Stored, maxId, Known
<1>2. \A a, b \in Known : <<a, b>> \in ById <=> a < b
  BY DEF ById
<1>3. ASSUME NEW T \in SUBSET Known, T # {}
      PROVE  /\ \E m \in T : \A x \in T \ {m} : <<m, x>> \in ById
             /\ \E m \in T : \A x \in T \ {m} : <<x, m>> \in ById
  <2>1. PICK m \in T : \A x \in T : m <= x
    BY <1>1, <1>3, Smallest
  <2>2. PICK n \in T : \A x \in T : x <= n
    BY <1>1, <1>3, Largest
  <2>3. \A x \in T \ {m} : m < x
    BY <1>1, <2>1
  <2>4. \A x \in T \ {n} : x < n
    BY <1>1, <2>2
  <2> QED
    BY <1>2, <2>3, <2>4
<1>4. \A x \in Known : <<x, x>> \notin ById
  BY <1>1, <1>2
<1>5. \A x, y, z \in Known : <<x, y>> \in ById /\ <<y, z>> \in ById => <<x, z>> \in ById
  BY <1>1, <1>2
<1> QED
  BY <1>2, <1>3, <1>4, <1>5 DEF Orders

LEMMA InTimeOrders ==
  ASSUME Stored
  PROVE  /\ Orders(InTime, Known)
         /\ \A a, b \in Known : <<a, b>> \in InTime <=>
              \/ messages[a].at < messages[b].at
              \/ messages[a].at = messages[b].at /\ a < b
<1>1. /\ maxId \in Nat /\ Known \subseteq Nat /\ \A b \in Known : b <= maxId
      /\ MaxDay \in Nat /\ \A b \in Known : messages[b].at \in Nat /\ messages[b].at <= MaxDay
  BY ConstantsAssumption, MessageTimes DEF Days
<1>2. \A a, b \in Known : <<a, b>> \in InTime <=>
        \/ messages[a].at < messages[b].at
        \/ messages[a].at = messages[b].at /\ a < b
  BY DEF InTime
<1>3. ASSUME NEW T \in SUBSET Known, T # {}
      PROVE  /\ \E m \in T : \A x \in T \ {m} : <<m, x>> \in InTime
             /\ \E m \in T : \A x \in T \ {m} : <<x, m>> \in InTime
  <2> DEFINE Times == {messages[x].at : x \in T}
             At(d) == {x \in T : messages[x].at = d}
  <2>1. Times \in SUBSET Nat /\ Times # {} /\ \A d \in Times : d <= MaxDay
    BY <1>1, <1>3
  <2>2. \A d \in Times : At(d) \in SUBSET Nat /\ At(d) # {} /\ \A x \in At(d) : x <= maxId
    BY <1>1
  <2>3. PICK d \in Times : \A e \in Times : d <= e
    BY <2>1, Smallest
  <2>4. PICK m \in At(d) : \A x \in At(d) : m <= x
    BY <2>2, Smallest
  <2>5. \A x \in T \ {m} : <<m, x>> \in InTime
    <3> SUFFICES ASSUME NEW x \in T \ {m} PROVE <<m, x>> \in InTime
      OBVIOUS
    <3>1. d <= messages[x].at /\ messages[m].at = d /\ m \in Known /\ x \in Known
      BY <2>3, <2>4
    <3>2. messages[x].at = d => m < x
      BY <1>1, <2>4, <3>1
    <3> QED
      BY <1>1, <1>2, <3>1, <3>2
  <2>6. PICK e \in Times : \A o \in Times : o <= e
    BY <1>1, <2>1, Largest
  <2>7. PICK n \in At(e) : \A x \in At(e) : x <= n
    BY <1>1, <2>2, Largest
  <2>8. \A x \in T \ {n} : <<x, n>> \in InTime
    <3> SUFFICES ASSUME NEW x \in T \ {n} PROVE <<x, n>> \in InTime
      OBVIOUS
    <3>1. messages[x].at <= e /\ messages[n].at = e /\ n \in Known /\ x \in Known
      BY <2>6, <2>7
    <3>2. messages[x].at = e => x < n
      BY <1>1, <2>7, <3>1
    <3> QED
      BY <1>1, <1>2, <3>1, <3>2
  <2> QED
    BY <2>4, <2>5, <2>7, <2>8
<1>4. \A x \in Known : <<x, x>> \notin InTime
  BY <1>1, <1>2
<1>5. \A x, y, z \in Known : <<x, y>> \in InTime /\ <<y, z>> \in InTime => <<x, z>> \in InTime
  BY <1>1, <1>2
<1> QED
  BY <1>2, <1>3, <1>4, <1>5 DEF Orders

LEMMA PartOrders ==
  ASSUME NEW R, NEW S, Orders(R, S), NEW T \in SUBSET S
  PROVE  Orders(R, T)
BY DEF Orders

(* The walk never gets ahead of the cutoff it runs with, and days only     *)
(* pass: what came late is behind the cutoff of the tick that looks for it.*)
Passed(c, b) == messages[b].at < c.ts \/ (messages[b].at = c.ts /\ b <= c.id)

Reached ==
  /\ cursor \in [window : Windows \cup {Off}, ts : {Start} \cup Days,
                 id : 0..MaxMessages, maxId : 0..MaxMessages]
  /\ tick \in [window : Windows \cup {Off}, day : Days] /\ window \in Windows \cup {Off}
  /\ cursor.maxId <= maxId /\ cursor.id <= maxId
  /\ cursor.ts # Start => cursor.ts < today - cursor.window
  /\ tick.day <= today
  /\ tick # NoTick /\ cursor.window = tick.window /\ cursor.ts # Start =>
       cursor.ts < tick.day - tick.window

WInv == Reached /\ NothingLeftBehind

(* What the steps compute with.                                            *)
LEMMA Numbers ==
  ASSUME Stored, Reached
  PROVE  /\ maxId \in Nat /\ Known \subseteq Nat /\ \A b \in Known : b <= maxId
         /\ MaxDay \in Nat /\ today \in Nat /\ MaxMessages \in Nat /\ BatchSize \in Nat \ {0}
         /\ \A b \in Known : messages[b].at \in Nat /\ messages[b].at \in Days
         /\ cursor.ts \in Int /\ cursor.id \in Nat /\ cursor.maxId \in Nat /\ cursor.window \in Nat
         /\ tick.day \in Nat /\ tick.window \in Nat
<1>1. Windows \cup {Off} \subseteq Nat /\ {Start} \cup Days \subseteq Int
  BY ConstantsAssumption DEF Off, Start, Days
<1>2. \A b \in Known : messages[b].at \in Nat /\ messages[b].at \in Days
  BY MessageTimes DEF Days
<1> QED
  BY <1>1, <1>2, ConstantsAssumption, MessageTimes DEF Stored, Reached, Days

(* A batch: whatever of a row the walk has passed now and a look behind    *)
(* has covered now was in the batch, or passed and covered before.         *)
LEMMA FreezeStep ==
  ASSUME IInv, WInv, FreezeBatch
  PROVE  WInv'
<1> DEFINE c     == Walk
           late  == First(BatchSize, Late(c), ById)
           full  == Cardinality(late) = BatchSize
           room  == BatchSize - Cardinality(late)
           walk  == First(room, Ahead(c), InTime)
           moved == {b \in late \cup walk : Eligible(b)}
           last  == Last(walk, InTime)
<1> USE Numbers
<1>0. Stored /\ Reached /\ NothingLeftBehind
  BY DEF IInv, WInv
<1>1. /\ late \subseteq Late(c) /\ walk \subseteq Ahead(c)
      /\ Late(c) \subseteq Known /\ Ahead(c) \subseteq Known
      /\ tick # NoTick /\ tick' \in {tick, NoTick} /\ Move(moved)
      /\ cursor' = [window |-> tick.window,
                    ts     |-> IF walk = {} THEN c.ts ELSE messages[last].at,
                    id     |-> IF walk = {} THEN c.id ELSE last,
                    maxId  |-> IF full THEN Last(late, ById) ELSE maxId]
      /\ thawed' = IF c = cursor THEN thawed ELSE {}
      /\ grown' = IF c = cursor THEN grown ELSE {}
      /\ UNCHANGED <<messages, window, today>>
  BY FreezeParts, Zenon DEF Late, Ahead
<1>2. /\ IsFiniteSet(Late(c)) /\ IsFiniteSet(Ahead(c))
      /\ Orders(ById, Late(c)) /\ Orders(InTime, Ahead(c))
      /\ \A a, b \in Known : <<a, b>> \in ById <=> a < b
      /\ \A a, b \in Known : <<a, b>> \in InTime <=>
           \/ messages[a].at < messages[b].at
           \/ messages[a].at = messages[b].at /\ a < b
  <2>1. IsFiniteSet(Known)
    <3>1. maxId \in Int /\ 1 \in Int
      BY <1>0
    <3> QED
      BY <3>1, FS_Interval, Zenon DEF Known
  <2>2. /\ Orders(ById, Known) /\ Orders(InTime, Known)
        /\ \A a, b \in Known : <<a, b>> \in ById <=> a < b
        /\ \A a, b \in Known : <<a, b>> \in InTime <=>
             \/ messages[a].at < messages[b].at
             \/ messages[a].at = messages[b].at /\ a < b
    BY <1>0, ByIdOrders, InTimeOrders
  <2>3. Orders(ById, Late(c)) /\ Orders(InTime, Ahead(c))
    BY <1>1, <2>2, PartOrders
  <2> QED
    BY <1>1, <2>1, <2>2, <2>3, FS_Subset
<1>3. /\ c.ts \in {Start} \cup Days /\ c.ts \in Int /\ c.id \in Nat /\ c.id <= maxId
      /\ c.maxId \in Nat /\ c.maxId <= maxId /\ c.window = tick.window
      /\ c.ts # Start => c = cursor /\ cursor.window = tick.window /\ c.ts < tick.day - tick.window
      /\ c # cursor => c.ts = Start
  <2>1. CASE cursor.window = tick.window
    <3>1. c = cursor
      BY <2>1 DEF Walk
    <3> HIDE DEF c
    <3> QED
      BY <1>0, <1>1, <2>1, <3>1 DEF Reached
  <2>2. CASE cursor.window # tick.window
    <3>1. c = [window |-> tick.window, ts |-> Start, id |-> 0, maxId |-> maxId]
      BY <2>2 DEF Walk
    <3> HIDE DEF c
    <3> QED
      BY <1>0, <3>1 DEF Start
  <2> QED
    BY <2>1, <2>2
<1>4. /\ \A b : b \in Late(c) <=> /\ b \in Known /\ c.ts # Start /\ b > c.maxId
                                  /\ messages[b].at <= c.ts
                                  /\ messages[b].at < tick.day - tick.window
      /\ \A b : b \in Ahead(c) <=> /\ b \in Known
                                   /\ messages[b].at > c.ts \/ (messages[b].at = c.ts /\ b > c.id)
                                   /\ messages[b].at < tick.day - tick.window
  BY DEF Late, Ahead, Before
<1>5. Cardinality(late) \in Nat /\ room \in Int
  <2>1. IsFiniteSet(late)
    BY <1>1, <1>2, FS_Subset
  <2> QED
    BY <1>0, <2>1, FS_CardinalityType
<1>6. walk # {} => last \in walk /\ \A x \in walk \ {last} : <<x, last>> \in InTime
  BY <1>1, <1>2, LastIsLast
<1>7. full => Last(late, ById) \in late /\ \A x \in late \ {Last(late, ById)} : <<x, Last(late, ById)>> \in ById
  <2>1. full => late # {}
    BY <1>0, FS_EmptySet
  <2> QED
    BY <1>1, <1>2, <2>1, LastIsLast
<1> HIDE DEF c, late, walk, last
<1>8. Reached'
  <2>1. /\ cursor'.window = tick.window /\ tick.window \in Windows \cup {Off}
        /\ cursor'.ts = IF walk = {} THEN c.ts ELSE messages[last].at
        /\ cursor'.id = IF walk = {} THEN c.id ELSE last
        /\ cursor'.maxId = IF full THEN Last(late, ById) ELSE maxId
        /\ maxId' = maxId /\ today' = today
    BY <1>0, <1>1 DEF Reached, maxId
  <2>2. walk # {} => /\ last \in Known /\ last \in Nat /\ last <= maxId
                     /\ messages[last].at \in Days
                     /\ messages[last].at < tick.day - tick.window
    BY <1>0, <1>1, <1>4, <1>6
  <2>3. full => Last(late, ById) \in Nat /\ Last(late, ById) <= maxId
    BY <1>0, <1>1, <1>7
  <2>4. maxId <= MaxMessages
    BY <1>0 DEF Stored
  <2>5. /\ cursor'.ts \in {Start} \cup Days /\ cursor'.id \in 0..MaxMessages
        /\ cursor'.maxId \in 0..MaxMessages
        /\ cursor'.maxId <= maxId /\ cursor'.id <= maxId
    BY <1>0, <1>3, <2>1, <2>2, <2>3, <2>4
  <2>6. cursor' \in [window : Windows \cup {Off}, ts : {Start} \cup Days,
                     id : 0..MaxMessages, maxId : 0..MaxMessages]
    BY <1>1, <2>1, <2>5
  <2>7. cursor'.ts # Start => cursor'.ts < tick.day - tick.window
    BY <1>3, <2>1, <2>2
  <2>8. /\ tick' \in [window : Windows \cup {Off}, day : Days] /\ tick'.day <= today
        /\ tick' # NoTick => tick' = tick
        /\ window' \in Windows \cup {Off}
    BY <1>0, <1>1, ConstantsAssumption DEF Reached, NoTick, Days
  <2>9. cursor'.ts # Start => cursor'.ts < today - tick.window
    <3>1. tick.day <= today /\ cursor'.ts \in Int
      BY <1>0, <2>5, ConstantsAssumption DEF Reached, Start, Days
    <3> QED
      BY <1>0, <2>7, <3>1
  <2> QED
    BY <2>1, <2>5, <2>6, <2>7, <2>8, <2>9 DEF Reached
<1>9. NothingLeftBehind'
  <2> SUFFICES ASSUME NEW b \in Known, cursor'.window # Off, b <= cursor'.maxId,
                      Eligible(b)', Passed(cursor', b)
               PROVE  b \in thawed' \cup grown'
    BY <1>1 DEF NothingLeftBehind, Passed, Known, maxId
  <2>1. b \notin moved /\ Eligible(b)
    BY <1>1 DEF Eligible, Move
  <2>2. b \notin late /\ b \notin walk
    BY <2>1
  <2>3. CASE Passed(c, b) /\ b <= c.maxId
    <3>1. c.ts # Start /\ c = cursor /\ cursor.window = tick.window
      BY <1>0, <1>3, <2>3 DEF Passed, Start
    <3> QED
      BY <1>0, <1>1, <2>1, <2>3, <3>1 DEF NothingLeftBehind, Passed
  <2>4. CASE Passed(c, b) /\ b > c.maxId
    <3>1. b \in Late(c)
      <4>1. messages[b].at <= c.ts /\ c.ts # Start
        BY <1>0, <1>3, <2>4 DEF Passed, Start
      <4>2. messages[b].at < tick.day - tick.window
        BY <1>0, <1>3, <4>1
      <4> QED
        BY <1>4, <2>4, <4>1, <4>2
    <3>2. full
      BY <1>0, <1>2, <2>2, <3>1, LeftOutMeansFull DEF late
    <3>3. cursor'.maxId = Last(late, ById) /\ Last(late, ById) \in late
      BY <1>1, <1>7, <3>2
    <3>4. b # Last(late, ById) /\ b < Last(late, ById)
      BY <1>0, <1>1, <2>2, <3>3
    <3>5. <<b, Last(late, ById)>> \in ById
      BY <1>1, <1>2, <3>3, <3>4
    <3>6. b \in late
      BY <1>0, <1>2, <3>1, <3>3, <3>5, FirstIsPrefix DEF late
    <3> QED
      BY <2>2, <3>6
  <2>5. CASE ~Passed(c, b)
    <3>1. walk # {} /\ cursor'.ts = messages[last].at /\ cursor'.id = last
      BY <1>1, <2>5 DEF Passed
    <3>2. last \in walk /\ last \in Ahead(c) /\ last \in Known /\ b # last
      BY <1>1, <1>6, <2>2, <3>1
    <3>3. <<b, last>> \in InTime
      BY <1>0, <1>2, <3>1, <3>2 DEF Passed
    <3>4. b \in Ahead(c)
      <4>1. messages[b].at > c.ts \/ (messages[b].at = c.ts /\ b > c.id)
        BY <1>0, <1>3, <2>5 DEF Passed
      <4>2. messages[b].at <= messages[last].at
        BY <1>0, <3>1, <3>2 DEF Passed
      <4>3. messages[last].at < tick.day - tick.window
        BY <1>4, <3>2
      <4> QED
        BY <1>0, <1>4, <3>2, <4>1, <4>2, <4>3
    <3>5. b \in walk
      BY <1>2, <1>5, <3>2, <3>3, <3>4, FirstIsPrefix DEF walk
    <3> QED
      BY <2>2, <3>5
  <2> QED
    BY <1>0, <1>3, <2>3, <2>4, <2>5
<1> QED
  BY <1>8, <1>9 DEF WInv

LEMMA WalkStep == IInv /\ WInv /\ [Next]_vars => WInv'
<1> SUFFICES ASSUME IInv, WInv, [Next]_vars PROVE WInv'
  OBVIOUS
<1> USE Numbers
<1>0. Stored /\ Reached /\ NothingLeftBehind
  BY DEF IInv, WInv
<1>1. CASE FreezeBatch
  BY <1>1, FreezeStep
<1>2. CASE Store
  <2>1. PICK at \in 0..today, large \in BOOLEAN :
          messages' = Append(messages, [at |-> at, large |-> large])
    BY <1>2 DEF Store
  <2>2. /\ maxId' = maxId + 1 /\ \A b \in Known : messages'[b] = messages[b]
        /\ UNCHANGED <<cold, window, cursor, today, tick, thawed, grown>>
    BY <1>0, <1>2, <2>1, AppendProperties
       DEF Store, Stored, maxId, Known, Days, store, settings
  <2>3. Reached'
    BY <1>0, <2>2 DEF Reached
  <2>4. NothingLeftBehind'
    <3> SUFFICES ASSUME NEW b \in Known', b <= cursor.maxId, NothingLeftBehind
                 PROVE  b \in Known
      BY <1>0, <2>2 DEF NothingLeftBehind, Eligible
    <3> QED
      BY <1>0, <2>2 DEF Reached, Known
  <2> QED
    BY <2>3, <2>4 DEF WInv
<1>3. CASE Thaw
  <2>1. PICK back \in SUBSET cold : cold' = cold \ back /\ thawed' = thawed \cup back
    BY <1>3 DEF Thaw
  <2>2. UNCHANGED <<messages, window, cursor, today, tick, grown>>
    BY <1>3 DEF Thaw
  <2>3. Reached'
    BY <2>2 DEF WInv, Reached, maxId
  <2>4. NothingLeftBehind'
    BY <2>1, <2>2 DEF WInv, NothingLeftBehind, Eligible, Known, maxId
  <2> QED
    BY <2>3, <2>4 DEF WInv
<1>4. CASE NextDay
  <2>1. today' = today + 1 /\ UNCHANGED <<messages, cold, window, cursor, tick, thawed, grown>>
    BY <1>4 DEF NextDay, store, settings
  <2>2. Reached'
    BY <1>0, <2>1, SMTT(30) DEF Reached, maxId
  <2> QED
    BY <1>0, <2>1, <2>2 DEF WInv, NothingLeftBehind, Eligible, Known, maxId
<1>5. CASE BeginTick
  <2>1. /\ tick' = [window |-> window, day |-> today]
        /\ UNCHANGED <<messages, cold, window, cursor, today, thawed, grown>>
    BY <1>5 DEF BeginTick, store, settings
  <2>2. Reached'
    BY <1>0, <2>1 DEF Reached, maxId, Stored
  <2> QED
    BY <1>0, <2>1, <2>2 DEF WInv, NothingLeftBehind, Eligible, Known, maxId
<1>6. CASE SetWindow \/ Crash
  <2>1. /\ tick' \in {tick, NoTick} /\ window' \in Windows \cup {Off}
        /\ UNCHANGED <<messages, cold, cursor, today, thawed, grown>>
    BY <1>0, <1>6 DEF SetWindow, Crash, store, settings, Reached
  <2>2. /\ NoTick.day <= today
        /\ NoTick \in [window : Windows \cup {Off}, day : Days]
    BY <1>0, ConstantsAssumption DEF NoTick, Days
  <2>3. Reached'
    BY <1>0, <2>1, <2>2 DEF Reached, maxId
  <2> QED
    BY <1>0, <2>1, <2>3 DEF WInv, NothingLeftBehind, Eligible, Known, maxId
<1>7. CASE UNCHANGED vars \/ \E p \in Processes : RecountRead(p) \/ RecountWrite(p) \/ RecountFails(p)
  <2>1. UNCHANGED <<messages, cold, window, cursor, today, tick, thawed, grown>>
    BY <1>7 DEF RecountRead, RecountWrite, RecountFails, vars, store, settings
  <2> QED
    BY <1>0, <2>1 DEF WInv, Reached, NothingLeftBehind, Eligible, Known, maxId
<1>8. ASSUME NEW b \in Known, NEW t \in Texts, Rewrite(b, t)  PROVE WInv'
  <2>1. UNCHANGED <<cold, window, cursor, today, tick, thawed>>
    BY <1>8 DEF Rewrite, settings
  <2>2. /\ maxId' = maxId /\ \A c \in Known : messages'[c].at = messages[c].at
        /\ \A c \in Known : messages'[c].large => messages[c].large \/ c \in grown'
        /\ grown \subseteq grown'
    BY <1>0, <1>8, Resized DEF Rewrite
  <2>3. Reached'
    BY <1>0, <2>1, <2>2 DEF Reached
  <2> QED
    BY <1>0, <2>1, <2>2, <2>3 DEF WInv, NothingLeftBehind, Eligible, Known
<1> QED
  BY <1>1, <1>2, <1>3, <1>4, <1>5, <1>6, <1>7, <1>8 DEF Next

LEMMA WalkInit == Init => WInv
<1> SUFFICES ASSUME Init PROVE WInv
  OBVIOUS
<1>1. maxId = 0 /\ Known = {}
  BY DEF Init, maxId, Known
<1>2. Reached
  BY <1>1, ConstantsAssumption DEF Init, Reached, NoCursor, NoTick, Start, Off, Days
<1> QED
  BY <1>1, <1>2 DEF WInv, NothingLeftBehind

(* The walk leaves nothing behind, whatever the size of a batch, however   *)
(* late and out of order messages are stored, and wherever the worker dies:*)
(* a batch that fills up with late messages looks behind again from the    *)
(* last of them.                                                           *)
THEOREM WalkComplete == Spec => []NothingLeftBehind
<1>1. Init => IInv /\ WInv
  BY InitInv, WalkInit
<1>2. IInv /\ WInv /\ [Next]_vars => (IInv /\ WInv)'
  BY NextStep, WalkStep
<1>3. IInv /\ WInv => NothingLeftBehind
  BY DEF WInv
<1> QED
  BY <1>1, <1>2, <1>3, PTL DEF Spec
==============================================================================
