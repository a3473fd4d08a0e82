------------------------- MODULE JournalIngestProofs -------------------------
(***************************************************************************)
(* Theorems about JournalIngest, for every number of passes, processes,    *)
(* lines, crashes and statements that throw: its variables keep their      *)
(* types, no complete line that starts below the stored offset is missing  *)
(* from the database unless its own insert threw, a message with an id is  *)
(* stored and counted once, and between races the offset stays at a line   *)
(* end and the verifier never records a break.                             *)
(***************************************************************************)
EXTENDS JournalIngest, SequenceTheorems, TLAPS

(* The variables a step of the journal, of a pass or of a crash changes    *)
(* keep their types.  WriteNewline stays within MaxLines because a tail    *)
(* only ever starts below it.                                              *)

TailFits == tailWhole => PartialWrites /\ Len(ends) < MaxLines

TInv == TypeOK /\ TailFits

LEMMA LastEndType == ASSUME TypeOK PROVE LastEnd \in Nat
BY ElementOfSeq DEF TypeOK, LastEnd

LEMMA WriterTypes ==
  ASSUME TInv, WriteLine \/ WriteText \/ WriteNewline
  PROVE  TInv'
<1> USE ConstantsAssumption DEF TInv, TailFits, TypeOK
<1>1. CASE WriteLine
  <2>1. PICK n \in 1..MaxText : /\ size' = size + n + 1
                                /\ ends' = Append(ends, size + n + 1)
    BY <1>1 DEF WriteLine
  <2>2. ends' \in Seq(Nat) /\ Len(ends') = Len(ends) + 1 /\ size' \in Nat
    BY <2>1, AppendProperties
  <2> QED
    BY <1>1, <2>2 DEF WriteLine, database, cursor, losses
<1>2. CASE WriteText
  <2>1. size' \in Nat /\ tailWhole' \in BOOLEAN /\ Len(ends) < MaxLines
    BY <1>2 DEF WriteText
  <2> QED
    BY <1>2, <2>1 DEF WriteText, database, cursor, losses
<1>3. CASE WriteNewline
  <2>1. ends' \in Seq(Nat) /\ Len(ends') = Len(ends) + 1 /\ size' \in Nat
    BY <1>3, AppendProperties DEF WriteNewline
  <2>2. tailWhole' \in BOOLEAN /\ ~tailWhole' /\ tailWhole
    BY <1>3 DEF WriteNewline
  <2> QED
    BY <1>3, <2>1, <2>2 DEF WriteNewline, database, cursor, losses
<1> QED
  BY <1>1, <1>2, <1>3

(* StoreLines: rows and usage never shrink, and the types are kept.        *)
LEMMA StoreTypes ==
  ASSUME TypeOK, NEW p \in Passes, NEW lo, NEW up, StoreLines(p, lo, up)
  PROVE  /\ rows' \in [Lines -> Nat] /\ usage' \in [Lines -> Nat]
         /\ lost' \subseteq Faulty /\ uncounted' \subseteq Faulty /\ faults' \in 0..MaxFaults
         /\ delegated' \in [Passes -> BOOLEAN]
         /\ tracker' \in [Passes -> [live : BOOLEAN, last : Nat, broken : BOOLEAN]]
<1>1. Seen(lo, up) \subseteq Nat
  BY DEF Seen, Lines
<1>2. tracker' \in [Passes -> [live : BOOLEAN, last : Nat, broken : BOOLEAN]]
  <2>1. CASE UNCHANGED tracker
    BY <2>1 DEF TypeOK
  <2>2. ASSUME NEW last \in Nat, NEW broken \in BOOLEAN,
               tracker' = [tracker EXCEPT ![p] = [live |-> TRUE, last |-> last, broken |-> broken]]
        PROVE  tracker' \in [Passes -> [live : BOOLEAN, last : Nat, broken : BOOLEAN]]
    BY <2>2 DEF TypeOK
  <2> QED
    BY <1>1, <2>1, <2>2 DEF StoreLines, Feed
<1>3. /\ rows' \in [Lines -> Nat] /\ usage' \in [Lines -> Nat]
      /\ lost' \subseteq Faulty /\ uncounted' \subseteq Faulty /\ faults' \in 0..MaxFaults
  <2>1. \E failing \in SUBSET (New(lo, up) \cap Faulty) :
        \E cut \in SUBSET ((New(lo, up) \cap Faulty) \ failing) :
          /\ rows' = [i \in Lines |-> rows[i] + (IF i \in New(lo, up) \ failing THEN 1 ELSE 0)]
          /\ usage' = [i \in Lines |-> usage[i] +
               (IF i \in New(lo, up) \ (failing \cup cut) /\ HasUsage(i) /\ ~Named(p, lo, up, i)
                THEN 1 ELSE 0)]
          /\ lost' = lost \cup failing /\ uncounted' = uncounted \cup cut
          /\ \/ failing = {} /\ cut = {} /\ UNCHANGED faults
             \/ failing \cup cut # {} /\ faults < MaxFaults /\ faults' = faults + 1
    BY Zenon DEF StoreLines
  <2>2. rows' \in [Lines -> Nat]
    BY <2>1 DEF TypeOK
  <2>3. usage' \in [Lines -> Nat]
    BY <2>1 DEF TypeOK
  <2>4. lost' \subseteq Faulty /\ uncounted' \subseteq Faulty /\ faults' \in 0..MaxFaults
    BY <2>1, ConstantsAssumption DEF TypeOK
  <2> QED
    BY <2>2, <2>3, <2>4
<1>4. delegated' \in [Passes -> BOOLEAN]
  <2>1. PICK b \in BOOLEAN : delegated' = [delegated EXCEPT ![p] = b]
    BY Zenon DEF StoreLines
  <2> QED
    BY <2>1 DEF TypeOK
<1> QED
  BY <1>2, <1>3, <1>4

LEMMA PassTypes ==
  ASSUME TInv, NEW p \in Passes, PassStep(p)
  PROVE  TInv'
<1> USE ConstantsAssumption DEF TInv, TailFits, TypeOK, Goto, Labels, InSync, NoSnapshot, losses
<1>1. CASE Begin(p)
  <2>1. raced' \in BOOLEAN
    BY <1>1, Zenon DEF Begin
  <2>2. snapshot' \in [Processes -> [taken : BOOLEAN, at : Int]] /\ pc' \in [Passes -> Labels]
    BY <1>1 DEF Begin
  <2>3. UNCHANGED <<journal, database, cursor, faults, losses>>
    BY <1>1 DEF Begin
  <2> QED
    BY <2>1, <2>2, <2>3 DEF journal, database, cursor
<1>2. CASE Visit(p)
  BY <1>2 DEF Visit, journal, database
<1>3. CASE Open(p)
  BY <1>3 DEF Open, Resume, Idle, NoChain, journal
<1>4. CASE OpenThrows(p)
  BY <1>4 DEF OpenThrows, journal, database, cursor
<1>5. CASE ReadChunk(p)
  BY <1>5, SMTT(30) DEF ReadChunk, journal, database
<1>6. CASE CommitBatch(p)
  <2>1. PICK k \in 1..Len(ends) : /\ StoreLines(p, done[p], ends[k])
                                  /\ done' = [done EXCEPT ![p] = ends[k]]
    BY <1>6 DEF CommitBatch
  <2>2. done' \in [Passes -> Int]
    BY <2>1, ElementOfSeq, SMTT(30)
  <2>3. PICK lo, up : StoreLines(p, lo, up)
    BY <2>1
  <2> QED
    BY <1>6, <2>2, <2>3, StoreTypes DEF CommitBatch, journal
<1>7. CASE EndOfStream(p)
  <2>1. raced' \in BOOLEAN
    BY <1>7, Zenon DEF EndOfStream
  <2>2. \A i \in 1..(Len(ends) + 1) : LineStart(i) \in Int
    BY ElementOfSeq, SMTT(30) DEF LineStart
  <2>3. /\ pc' \in [Passes -> Labels]
        /\ UNCHANGED <<journal, database, snapshot, stat, done, delegated, tracker, faults, losses>>
    BY <1>7 DEF EndOfStream
  <2>4. pos' \in [Passes -> Int] /\ tail' \in [Passes -> Int]
    <3> DEFINE terminated == ends # <<>> /\ pos[p] = LastEnd
               heldLine   == IF terminated THEN Len(ends) ELSE Len(ends) + 1
               heldFrom   == IF LineStart(heldLine) < done[p] THEN done[p] ELSE LineStart(heldLine)
    <3>1. heldLine \in 1..(Len(ends) + 1)
      BY DEF TypeOK
    <3>2. heldFrom \in Int
      BY <2>2, <3>1
    <3> QED
      BY <1>7, <3>2, SMTT(30) DEF EndOfStream
  <2> QED
    BY <2>1, <2>3, <2>4 DEF journal, database
<1>8. CASE LastBatch(p)
  <2>1. StoreLines(p, done[p], pos[p])
    BY <1>8 DEF LastBatch
  <2> QED
    BY <1>8, <2>1, StoreTypes DEF LastBatch, journal
<1>9. CASE FlushChain(p)
  BY <1>9 DEF FlushChain, journal, cursor
<1>10. CASE LinkParent(p)
  BY <1>10 DEF LinkParent, journal, cursor
<1>11. CASE CommitOffset(p)
  <2>1. offset' \in Int /\ pc' \in [Passes -> Labels]
    BY <1>11 DEF CommitOffset
  <2> QED
    BY <1>11, <2>1 DEF CommitOffset, journal, cursor
<1>12. CASE End(p)
  BY <1>12 DEF End, Forget, Idle, journal, database
<1> QED
  BY <1>1, <1>2, <1>3, <1>4, <1>5, <1>6, <1>7, <1>8, <1>9, <1>10, <1>11, <1>12 DEF PassStep

LEMMA ThrowTypes ==
  ASSUME TInv, NEW p \in Passes, Throw(p)
  PROVE  TInv'
<1> USE ConstantsAssumption DEF TInv, TailFits, TypeOK
<1>1. raced' \in BOOLEAN
  BY Zenon DEF Throw
<1>2. /\ pc' \in [Passes -> Labels] /\ faults' \in 0..MaxFaults
      /\ UNCHANGED <<journal, database, snapshot, losses>>
  BY DEF Throw, Goto, Labels
<1>3. stat' \in [Passes -> Nat] /\ tail' \in [Passes -> Int]
  BY DEF Throw, Forget, Idle
<1>4. done' \in [Passes -> Int] /\ pos' \in [Passes -> Int]
  BY DEF Throw, Forget, Idle
<1>5. /\ delegated' \in [Passes -> BOOLEAN]
      /\ tracker' \in [Passes -> [live : BOOLEAN, last : Nat, broken : BOOLEAN]]
  BY DEF Throw, Forget, Idle
<1> QED
  BY <1>1, <1>2, <1>3, <1>4, <1>5 DEF journal, database, losses

LEMMA CrashTypes ==
  ASSUME TInv, NEW r \in Processes, Crash(r)
  PROVE  TInv'
<1> USE ConstantsAssumption DEF TInv, TailFits, TypeOK
<1>1. raced' \in BOOLEAN
  BY Zenon DEF Crash
<1>2. /\ snapshot' \in [Processes -> [taken : BOOLEAN, at : Int]]
      /\ pc' \in [Passes -> Labels] /\ faults' \in 0..MaxFaults
      /\ UNCHANGED <<journal, database, losses>>
  BY DEF Crash, NoSnapshot, Labels
<1>3. /\ stat' \in [Passes -> Nat] /\ tail' \in [Passes -> Int]
      /\ done' \in [Passes -> Int] /\ pos' \in [Passes -> Int]
      /\ delegated' \in [Passes -> BOOLEAN]
      /\ tracker' \in [Passes -> [live : BOOLEAN, last : Nat, broken : BOOLEAN]]
  <2>1. stat' \in [Passes -> Nat] /\ tail' \in [Passes -> Int]
    BY DEF Crash, Forget, Idle
  <2>2. done' \in [Passes -> Int] /\ pos' \in [Passes -> Int]
    BY DEF Crash, Forget, Idle
  <2>3. delegated' \in [Passes -> BOOLEAN]
    BY DEF Crash, Forget, Idle
  <2>4. tracker' \in [Passes -> [live : BOOLEAN, last : Nat, broken : BOOLEAN]]
    BY DEF Crash, Forget, Idle
  <2> QED
    BY <2>1, <2>2, <2>3, <2>4
<1> QED
  BY <1>1, <1>2, <1>3 DEF journal, database, losses

LEMMA TypeStep == TInv /\ [Next]_vars => TInv'
<1> SUFFICES ASSUME TInv, [Next]_vars PROVE TInv'
  OBVIOUS
<1>1. CASE UNCHANGED vars
  BY <1>1 DEF TInv, TailFits, TypeOK, vars, journal, database, cursor, losses
<1>2. CASE Next
  BY <1>2, WriterTypes, PassTypes, ThrowTypes, CrashTypes DEF Next
<1> QED
  BY <1>1, <1>2

LEMMA TypeInit == Init => TInv
<1> SUFFICES ASSUME Init PROVE TInv
  OBVIOUS
<1> USE ConstantsAssumption DEF Init, Labels
<1>1. reader \in AllReaders
  OBVIOUS
<1>2. /\ ends \in Seq(Nat) /\ Len(ends) <= MaxLines
      /\ size \in Nat /\ offset \in Int /\ faults \in 0..MaxFaults
      /\ lost \subseteq Faulty /\ uncounted \subseteq Faulty
  OBVIOUS
<1>3. tailWhole \in BOOLEAN /\ ~tailWhole /\ parent \in BOOLEAN /\ raced \in BOOLEAN
  OBVIOUS
<1>4. /\ rows \in [Lines -> Nat] /\ usage \in [Lines -> Nat]
      /\ chain \in [last : Nat, broken : BOOLEAN]
      /\ snapshot \in [Processes -> [taken : BOOLEAN, at : Int]]
      /\ pc \in [Passes -> Labels]
  BY DEF NoChain, NoSnapshot
<1>5. /\ stat \in [Passes -> Nat] /\ tail \in [Passes -> Int]
      /\ done \in [Passes -> Int] /\ pos \in [Passes -> Int]
      /\ delegated \in [Passes -> BOOLEAN]
      /\ tracker \in [Passes -> [live : BOOLEAN, last : Nat, broken : BOOLEAN]]
  BY DEF Idle
<1> QED
  BY <1>1, <1>2, <1>3, <1>4, <1>5 DEF TInv, TailFits, TypeOK

(* Type correctness: whatever the writer, the passes and the crashes do,   *)
(* every variable keeps its type; a pass that throws at createReadStream   *)
(* returns to a label it can go on from.                                   *)
THEOREM TypeCorrect == Spec => []TypeOK
<1>1. TInv => TypeOK
  BY DEF TInv
<1> QED
  BY <1>1, TypeInit, TypeStep, PTL DEF Spec

------------------------------------------------------------------------------
(* No line is lost.  The inductive invariant says of every offset that is  *)
(* in use somewhere -- stored, in a snapshot, in the locals of a pass --   *)
(* that the lines starting below it are stored already, or will be by the  *)
(* batch the pass is about to commit.  The operators take the journal's    *)
(* ends as a parameter, so that the same facts serve a step's two states.  *)

\* The lines the offset may pass: stored, or lost when their insert threw.
Kept == {i \in Lines : rows[i] > 0 \/ i \in lost}

Begins(e, i) == IF i = 1 THEN 0 ELSE e[i - 1]
FinalEnd(e)  == IF Len(e) = 0 THEN 0 ELSE e[Len(e)]

\* Every line has text and a newline.
Ordered(e) ==
  \A j \in 1..Len(e) : /\ 2 <= e[j]
                       /\ \A i \in 1..(j - 1) : e[i] + 2 <= e[j]

Covered(e, kept, o) ==
  /\ o <= FinalEnd(e)
  /\ \A i \in 1..Len(e) : Begins(e, i) < o => i \in kept

\* As Covered, once the lines within (lo, up] are stored.
Pending(e, kept, o, lo, up) ==
  /\ o <= FinalEnd(e)
  /\ \A i \in 1..Len(e) :
       Begins(e, i) < o => i \in kept \/ (lo <= Begins(e, i) /\ e[i] <= up)

JournalOK ==
  /\ Ordered(ends)
  /\ FinalEnd(ends) <= size
  /\ tailWhole => FinalEnd(ends) < size

PassOK(p) ==
  /\ stat[p] <= size
  /\ pc[p] \in {"open", "stream"} => Covered(ends, Kept, done[p])
  /\ pc[p] = "last" => Pending(ends, Kept, stat[p] - tail[p], done[p], pos[p])
  /\ pc[p] \in {"flush", "link", "offset"} => Covered(ends, Kept, stat[p] - tail[p])

IInv ==
  /\ TInv
  /\ JournalOK
  /\ Covered(ends, Kept, offset)
  /\ \A r \in Processes : snapshot[r].taken => Covered(ends, Kept, snapshot[r].at)
  /\ \A p \in Passes : PassOK(p)

(* What the lemmas need of a sequence of positions: SMT gets further with  *)
(* it than with membership in Seq(Nat).                                    *)
Positions(e) == Len(e) \in Nat /\ \A i \in 1..Len(e) : e[i] \in Nat

(* Where lines begin.                                                      *)
LEMMA BeginsFacts ==
  ASSUME NEW e, Positions(e), Ordered(e)
  PROVE  /\ FinalEnd(e) \in Nat
         /\ \A i \in 1..Len(e) : /\ Begins(e, i) \in Nat
                                 /\ Begins(e, i) + 2 <= e[i]
                                 /\ e[i] <= FinalEnd(e)
         /\ \A i, k \in 1..Len(e) : Begins(e, i) < e[k] => e[i] <= e[k]
<1>1. Len(e) \in Nat /\ \A i \in 1..Len(e) : e[i] \in Nat
  BY DEF Positions
<1>2. \A i, k \in 1..Len(e) : i < k => e[i] + 2 <= e[k]
  BY <1>1 DEF Ordered
<1>3. \A i \in 1..Len(e) : Begins(e, i) \in Nat /\ Begins(e, i) + 2 <= e[i]
  <2> SUFFICES ASSUME NEW i \in 1..Len(e)
               PROVE  Begins(e, i) \in Nat /\ Begins(e, i) + 2 <= e[i]
    OBVIOUS
  <2>1. CASE i = 1
    BY <1>1, <2>1 DEF Begins, Ordered
  <2>2. CASE i # 1
    BY <1>1, <1>2, <2>2 DEF Begins
  <2> QED
    BY <2>1, <2>2
<1>4. FinalEnd(e) \in Nat /\ \A i \in 1..Len(e) : e[i] <= FinalEnd(e)
  <2>1. CASE Len(e) = 0
    BY <2>1 DEF FinalEnd
  <2>2. CASE Len(e) # 0
    <3>1. Len(e) \in 1..Len(e)
      BY <1>1, <2>2
    <3> QED
      BY <1>1, <1>2, <2>2, <3>1 DEF FinalEnd
  <2> QED
    BY <2>1, <2>2
<1>5. \A i, k \in 1..Len(e) : Begins(e, i) < e[k] => e[i] <= e[k]
  <2> SUFFICES ASSUME NEW i \in 1..Len(e), NEW k \in 1..Len(e), Begins(e, i) < e[k]
               PROVE  e[i] <= e[k]
    OBVIOUS
  <2>1. CASE i <= k
    BY <1>1, <1>2, <2>1
  <2>2. CASE k < i
    <3>1. i # 1 /\ i - 1 \in 1..Len(e) /\ Begins(e, i) = e[i - 1]
      BY <2>2 DEF Begins
    <3>2. CASE k = i - 1
      BY <1>1, <3>1, <3>2
    <3>3. CASE k < i - 1
      <4>1. e[k] + 2 <= e[i - 1]
        BY <1>2, <3>1, <3>3
      <4> QED
        BY <1>1, <3>1, <4>1
    <3> QED
      BY <2>2, <3>2, <3>3
  <2> QED
    BY <2>1, <2>2
<1> QED
  BY <1>3, <1>4, <1>5

(* A journal only grows at its end, above every offset in use.             *)
Grows(e, f) ==
  /\ Len(f) = Len(e) + 1
  /\ \A i \in 1..Len(e) : f[i] = e[i]
  /\ FinalEnd(e) + 2 <= f[Len(f)]

LEMMA GrownOrdered ==
  ASSUME NEW e, NEW f, Positions(e), Positions(f), Ordered(e), Grows(e, f)
  PROVE  Ordered(f) /\ FinalEnd(f) = f[Len(f)]
<1>1. /\ \A i \in 1..Len(e) : e[i] \in Nat /\ e[i] <= FinalEnd(e)
      /\ FinalEnd(e) \in Nat /\ Len(e) \in Nat /\ Len(f) = Len(e) + 1
      /\ \A i \in 1..Len(f) : f[i] \in Nat
      /\ \A i \in 1..Len(e) : f[i] = e[i]
      /\ FinalEnd(e) + 2 <= f[Len(f)]
  BY BeginsFacts DEF Positions, Grows
<1>2. ASSUME NEW j \in 1..Len(e)
      PROVE  2 <= f[j] /\ \A i \in 1..(j - 1) : f[i] + 2 <= f[j]
  <2>1. f[j] = e[j] /\ \A i \in 1..(j - 1) : f[i] = e[i]
    BY <1>1
  <2> QED
    BY <2>1 DEF Ordered
<1>3. 2 <= f[Len(f)] /\ \A i \in 1..Len(e) : f[i] + 2 <= f[Len(f)]
  BY <1>1, SMTT(30)
<1>4. Ordered(f)
  <2> SUFFICES ASSUME NEW j \in 1..Len(f)
               PROVE  2 <= f[j] /\ \A i \in 1..(j - 1) : f[i] + 2 <= f[j]
    BY DEF Ordered
  <2>1. CASE j \in 1..Len(e)
    BY <1>2, <2>1
  <2>2. CASE j = Len(f)
    <3>1. \A i \in 1..(j - 1) : i \in 1..Len(e)
      BY <1>1, <2>2
    <3> QED
      BY <1>3, <2>2, <3>1
  <2> QED
    BY <1>1, <2>1, <2>2
<1> QED
  BY <1>1, <1>4 DEF FinalEnd

LEMMA GrownBegins ==
  ASSUME NEW e, NEW f, Positions(e), Positions(f), Grows(e, f),
         NEW i \in 1..Len(f)
  PROVE  \/ i \in 1..Len(e) /\ f[i] = e[i] /\ Begins(f, i) = Begins(e, i)
         \/ i = Len(f) /\ Begins(f, i) = FinalEnd(e)
<1>1. Len(e) \in Nat /\ Len(f) = Len(e) + 1 /\ \A j \in 1..Len(e) : f[j] = e[j]
  BY DEF Grows, Positions
<1>2. CASE i = 1
  BY <1>1, <1>2 DEF Begins, FinalEnd
<1>3. CASE i # 1
  <2>1. i - 1 \in 1..Len(e) /\ f[i - 1] = e[i - 1] /\ Len(e) # 0
    BY <1>1, <1>3
  <2> QED
    BY <1>1, <1>3, <2>1 DEF Begins, FinalEnd
<1> QED
  BY <1>2, <1>3

LEMMA GrownCovered ==
  ASSUME NEW e, NEW f, Positions(e), Positions(f), Ordered(e), Grows(e, f),
         NEW kept, NEW o \in Int, Covered(e, kept, o)
  PROVE  Covered(f, kept, o)
<1>1. FinalEnd(e) \in Nat /\ FinalEnd(f) \in Nat /\ FinalEnd(e) <= FinalEnd(f)
  <2>1. FinalEnd(f) = f[Len(f)] /\ Ordered(f)
    BY GrownOrdered
  <2>2. FinalEnd(e) \in Nat /\ FinalEnd(f) \in Nat
    BY <2>1, BeginsFacts
  <2> QED
    BY <2>1, <2>2 DEF Grows
<1>2. ASSUME NEW i \in 1..Len(f), Begins(f, i) < o
      PROVE  i \in kept
  BY <1>1, <1>2, GrownBegins DEF Covered
<1> QED
  BY <1>1, <1>2 DEF Covered

LEMMA GrownPending ==
  ASSUME NEW e, NEW f, Positions(e), Positions(f), Ordered(e), Grows(e, f),
         NEW kept, NEW o \in Int, NEW lo, NEW up, Pending(e, kept, o, lo, up)
  PROVE  Pending(f, kept, o, lo, up)
<1>1. FinalEnd(e) \in Nat /\ FinalEnd(f) \in Nat /\ FinalEnd(e) <= FinalEnd(f)
  <2>1. FinalEnd(f) = f[Len(f)] /\ Ordered(f)
    BY GrownOrdered
  <2>2. FinalEnd(e) \in Nat /\ FinalEnd(f) \in Nat
    BY <2>1, BeginsFacts
  <2> QED
    BY <2>1, <2>2 DEF Grows
<1>2. ASSUME NEW i \in 1..Len(f), Begins(f, i) < o
      PROVE  i \in kept \/ (lo <= Begins(f, i) /\ f[i] <= up)
  <2>1. i \in 1..Len(e) /\ f[i] = e[i] /\ Begins(f, i) = Begins(e, i)
    BY <1>1, <1>2, GrownBegins DEF Pending
  <2> QED
    BY <1>2, <2>1 DEF Pending
<1> QED
  BY <1>1, <1>2 DEF Pending

(* A committed batch keeps what was stored and stores the lines it has     *)
(* from beginning to end.                                                  *)
LEMMA BatchStores ==
  ASSUME TypeOK, JournalOK, NEW p \in Passes, NEW lo \in Int, NEW up \in Int,
         StoreLines(p, lo, up)
  PROVE  \A i \in 1..Len(ends) :
           \/ i \in Kept
           \/ lo <= Begins(ends, i) /\ ends[i] <= up
           => i \in Kept'
<1> SUFFICES ASSUME NEW i \in 1..Len(ends),
                    i \in Kept \/ (lo <= Begins(ends, i) /\ ends[i] <= up)
             PROVE  i \in Kept'
  OBVIOUS
<1>1. /\ i \in Lines /\ rows[i] \in Nat /\ ends[i] \in Nat
      /\ Begins(ends, i) \in Nat /\ Begins(ends, i) + 2 <= ends[i]
  <2>1. Positions(ends)
    BY LenProperties, ElementOfSeq DEF TypeOK, Positions
  <2>2. ends[i] \in Nat /\ i \in Lines
    <3>1. Len(ends) <= MaxLines /\ MaxLines \in Nat
      BY ConstantsAssumption DEF TypeOK
    <3> QED
      BY <2>1, <3>1 DEF Lines, Positions
  <2>3. Ordered(ends) /\ rows \in [Lines -> Nat]
    BY DEF TypeOK, JournalOK
  <2> QED
    BY <2>1, <2>2, <2>3, BeginsFacts
<1>2. PICK failing : /\ rows' = [j \in Lines |-> rows[j] +
                                  (IF j \in New(lo, up) \ failing THEN 1 ELSE 0)]
                     /\ lost' = lost \cup failing
  BY Zenon DEF StoreLines
<1>3. CASE i \in Kept
  BY <1>1, <1>2, <1>3 DEF Kept
<1>4. CASE i \notin Kept
  <2>1. lo <= Begins(ends, i) /\ ends[i] <= up /\ rows[i] = 0
    BY <1>1, <1>4 DEF Kept
  <2>2. i \in Whole(lo, up)
    BY <1>1, <2>1 DEF Whole, Seen, Finished, TextEnd, LineStart, Begins
  <2>3. i \in New(lo, up)
    BY <2>1, <2>2 DEF New
  <2> QED
    BY <1>1, <1>2, <2>1, <2>3 DEF Kept
<1> QED
  BY <1>3, <1>4

(* Facts of the invariant in the form the steps cite.                      *)
LEMMA JournalFacts ==
  ASSUME TypeOK, JournalOK
  PROVE  /\ Positions(ends) /\ Ordered(ends)
         /\ FinalEnd(ends) \in Nat /\ size \in Nat /\ FinalEnd(ends) <= size
         /\ LastEnd = FinalEnd(ends)
         /\ \A i : LineStart(i) = Begins(ends, i)
<1>1. Positions(ends)
  BY LenProperties, ElementOfSeq DEF TypeOK, Positions
<1>2. LastEnd = FinalEnd(ends)
  BY EmptySeq, LenProperties DEF TypeOK, LastEnd, FinalEnd
<1> QED
  BY <1>1, <1>2, BeginsFacts DEF TypeOK, JournalOK, LineStart, Begins

LEMMA PassInts ==
  ASSUME TypeOK
  PROVE  /\ offset \in Int /\ size \in Nat
         /\ \A r \in Processes : snapshot[r].taken \in BOOLEAN /\ snapshot[r].at \in Int
         /\ \A p \in Passes : /\ stat[p] \in Nat /\ tail[p] \in Int
                              /\ done[p] \in Int /\ pos[p] \in Int
                              /\ stat[p] - tail[p] \in Int
                              /\ ProcessOf[p] \in Processes
BY ConstantsAssumption DEF TypeOK

(* The writer: offsets in use stay covered by the longer journal.          *)
LEMMA WriterStep ==
  ASSUME IInv, WriteLine \/ WriteText \/ WriteNewline
  PROVE  IInv'
<1>1. TInv' /\ TypeOK /\ JournalOK
  BY WriterTypes DEF IInv, TInv
<1>2. /\ UNCHANGED <<Kept, offset, snapshot, pc, stat, done, pos, tail>>
  BY DEF WriteLine, WriteText, WriteNewline, database, cursor, losses, Kept
<1>3. size <= size' /\ size' \in Nat
  BY <1>1 DEF WriteLine, WriteText, WriteNewline, TInv, TypeOK
<1>4. CASE UNCHANGED ends
  <2>1. WriteText
    BY <1>1, <1>4, AppendProperties, LenProperties DEF WriteLine, WriteNewline, TypeOK
  <2>2. FinalEnd(ends) < size'
    BY <1>1, <2>1, JournalFacts DEF WriteText
  <2>3. JournalOK'
    BY <1>1, <1>4, <2>2, JournalFacts, <1>3 DEF JournalOK
  <2>4. \A p \in Passes : PassOK(p)'
    BY <1>1, <1>2, <1>3, <1>4, PassInts DEF IInv, PassOK
  <2> QED
    BY <1>1, <1>2, <1>4, <2>3, <2>4 DEF IInv
<1>5. CASE \E n \in Nat : /\ ends' = Append(ends, n) /\ FinalEnd(ends) + 2 <= n
                          /\ size' = n /\ ~tailWhole'
  <2>1. PICK n \in Nat : /\ ends' = Append(ends, n) /\ FinalEnd(ends) + 2 <= n
                         /\ size' = n /\ ~tailWhole'
    BY <1>5
  <2>2. Positions(ends) /\ Ordered(ends) /\ FinalEnd(ends) \in Nat
    BY <1>1, JournalFacts
  <2>3. Positions(ends') /\ Grows(ends, ends') /\ ends'[Len(ends')] = size'
    <3>1. /\ ends' \in Seq(Nat) /\ Len(ends') = Len(ends) + 1
          /\ ends'[Len(ends) + 1] = n
          /\ \A i \in 1..Len(ends) : ends'[i] = ends[i]
      BY <1>1, <2>1, AppendProperties DEF TypeOK
    <3>2. Positions(ends')
      BY <3>1, LenProperties, ElementOfSeq DEF Positions
    <3> QED
      BY <2>1, <3>1, <3>2 DEF Grows
  <2>4. Ordered(ends') /\ FinalEnd(ends') = size'
    BY <2>2, <2>3, GrownOrdered
  <2>5. JournalOK'
    BY <1>3, <2>1, <2>4 DEF JournalOK
  <2>6. \A o \in Int : Covered(ends, Kept, o) => Covered(ends', Kept', o)
    BY <1>2, <2>2, <2>3, GrownCovered
  <2>7. \A o \in Int : \A lo, up :
          Pending(ends, Kept, o, lo, up) => Pending(ends', Kept', o, lo, up)
    BY <1>2, <2>2, <2>3, GrownPending
  <2>8. \A p \in Passes : PassOK(p)'
    BY <1>1, <1>2, <1>3, <2>6, <2>7, PassInts DEF IInv, PassOK
  <2>9. /\ Covered(ends', Kept', offset')
        /\ \A r \in Processes : snapshot'[r].taken => Covered(ends', Kept', snapshot'[r].at)
    BY <1>1, <1>2, <2>6, PassInts DEF IInv
  <2> QED
    BY <1>1, <2>5, <2>8, <2>9 DEF IInv
<1>6. ASSUME WriteLine
      PROVE  \E n \in Nat : /\ ends' = Append(ends, n) /\ FinalEnd(ends) + 2 <= n
                            /\ size' = n /\ ~tailWhole'
  <2>1. PICK n \in 1..MaxText : size' = size + n + 1 /\ ends' = Append(ends, size + n + 1)
    BY <1>6 DEF WriteLine
  <2>2. ~tailWhole'
    BY <1>6 DEF WriteLine, IInv, TInv, TailFits
  <2>3. size + n + 1 \in Nat /\ FinalEnd(ends) + 2 <= size + n + 1
    BY <1>1, JournalFacts, ConstantsAssumption
  <2> QED
    BY <2>1, <2>2, <2>3
<1>7. ASSUME WriteNewline
      PROVE  \E n \in Nat : /\ ends' = Append(ends, n) /\ FinalEnd(ends) + 2 <= n
                            /\ size' = n /\ ~tailWhole'
  <2>1. size + 1 \in Nat /\ FinalEnd(ends) + 2 <= size + 1
    BY <1>1, <1>7, JournalFacts DEF WriteNewline, JournalOK
  <2> QED
    BY <1>7, <2>1 DEF WriteNewline
<1>8. CASE WriteText
  BY <1>4, <1>8 DEF WriteText
<1> QED
  BY <1>5, <1>6, <1>7, <1>8

(* What a step of pass p does to the others: nothing but more kept lines.  *)
KeptGrow == Kept \subseteq Kept'

LEMMA KeptGrows ==
  ASSUME TypeOK, NEW p \in Passes, NEW lo, NEW up, StoreLines(p, lo, up)
  PROVE  KeptGrow
<1>1. PICK failing : /\ rows' = [j \in Lines |-> rows[j] +
                                  (IF j \in New(lo, up) \ failing THEN 1 ELSE 0)]
                     /\ lost' = lost \cup failing
  BY Zenon DEF StoreLines
<1> QED
  BY <1>1 DEF KeptGrow, Kept, TypeOK

LEMMA OthersOK ==
  ASSUME IInv, NEW p \in Passes, KeptGrow, UNCHANGED <<ends, size>>,
         NEW q \in Passes, PassOK(q),
         pc'[q] = pc[q], stat'[q] = stat[q], done'[q] = done[q],
         pos'[q] = pos[q], tail'[q] = tail[q]
  PROVE  PassOK(q)'
BY DEF PassOK, KeptGrow, Covered, Pending

LEMMA SharedOK ==
  ASSUME IInv, KeptGrow, UNCHANGED <<journal, offset, snapshot>>
  PROVE  /\ JournalOK' /\ Covered(ends, Kept, offset)'
         /\ \A r \in Processes : snapshot'[r].taken => Covered(ends', Kept', snapshot'[r].at)
BY DEF IInv, JournalOK, KeptGrow, Covered, journal

(* The steps of a pass, by what they touch.                                *)
LEMMA BeginStep == ASSUME IInv, NEW p \in Passes, Begin(p) PROVE IInv'
<1>1. TInv'
  BY PassTypes DEF PassStep, IInv
<1>2. UNCHANGED <<ends, size, tailWhole, Kept, offset, stat, done, pos, tail>>
  BY DEF Begin, journal, database, cursor, losses, Kept
<1>3. JournalOK' /\ Covered(ends', Kept', offset')
  BY <1>2 DEF IInv, JournalOK
<1>4. \A r \in Processes : snapshot'[r].taken => Covered(ends', Kept', snapshot'[r].at)
  <2>1. \A r \in Processes : \/ snapshot'[r] = snapshot[r]
                             \/ snapshot'[r] = [taken |-> TRUE, at |-> offset]
                             \/ ~snapshot'[r].taken
    BY DEF Begin, IInv, TInv, TypeOK, NoSnapshot
  <2> QED
    BY <1>2, <2>1 DEF IInv
<1>5. \A q \in Passes : PassOK(q)'
  <2>1. \A q \in Passes : pc'[q] = pc[q] \/ pc'[q] = "visit"
    BY DEF Begin, Goto, IInv, TInv, TypeOK
  <2> QED
    BY <1>2, <2>1 DEF IInv, PassOK
<1> QED
  BY <1>1, <1>3, <1>4, <1>5 DEF IInv

LEMMA VisitStep == ASSUME IInv, NEW p \in Passes, Visit(p) PROVE IInv'
<1>1. TInv' /\ TypeOK
  BY PassTypes DEF PassStep, IInv, TInv
<1>2. UNCHANGED <<journal, Kept, offset, snapshot, pos, tail, ends, size>>
  BY DEF Visit, journal, database, losses, Kept
<1>3. \A q \in Passes \ {p} : PassOK(q)'
  BY <1>1, <1>2 DEF Visit, Goto, IInv, TypeOK, PassOK
<1>4. PassOK(p)'
  <2>1. Covered(ends, Kept, done'[p])
    BY <1>1, PassInts DEF Visit, IInv, TypeOK
  <2>2. stat'[p] = size /\ pc'[p] \in {"end", "open"}
    BY <1>1 DEF Visit, Goto, TypeOK
  <2> QED
    BY <1>1, <1>2, <2>1, <2>2, JournalFacts DEF PassOK, IInv
<1> QED
  BY <1>1, <1>2, <1>3, <1>4, SharedOK DEF IInv, KeptGrow

LEMMA OpenStep ==
  ASSUME IInv, NEW p \in Passes, Open(p) \/ OpenThrows(p) \/ ReadChunk(p) PROVE IInv'
<1>1. TInv' /\ TypeOK
  BY PassTypes DEF PassStep, IInv, TInv
<1>2. UNCHANGED <<journal, Kept, offset, snapshot, stat, done, tail, ends, size>>
  BY DEF Open, OpenThrows, ReadChunk, journal, database, cursor, losses, Kept
<1>3. \A q \in Passes \ {p} : PassOK(q)'
  BY <1>1, <1>2 DEF Open, OpenThrows, ReadChunk, Goto, cursor, IInv, TypeOK, PassOK
<1>4. PassOK(p)'
  <2>1. pc[p] \in {"open", "stream"} /\ pc'[p] \in {"stream", "end"}
    BY <1>1 DEF Open, OpenThrows, ReadChunk, Goto, TypeOK
  <2> QED
    BY <1>2, <2>1 DEF PassOK, IInv
<1> QED
  BY <1>1, <1>2, <1>3, <1>4, SharedOK DEF IInv, KeptGrow

LEMMA CommitBatchStep == ASSUME IInv, NEW p \in Passes, CommitBatch(p) PROVE IInv'
<1>1. TInv' /\ TypeOK /\ JournalOK
  BY PassTypes DEF PassStep, IInv, TInv
<1>2. UNCHANGED <<journal, offset, snapshot, pc, stat, pos, tail, ends, size>>
  BY DEF CommitBatch, journal
<1>3. PICK k \in 1..Len(ends) : /\ StoreLines(p, done[p], ends[k])
                                /\ done' = [done EXCEPT ![p] = ends[k]]
  BY DEF CommitBatch
<1>4. ends[k] \in Nat /\ done[p] \in Int
  BY <1>1, JournalFacts, PassInts DEF Positions
<1>5. \A i \in 1..Len(ends) :
        \/ i \in Kept
        \/ done[p] <= Begins(ends, i) /\ ends[i] <= ends[k]
        => i \in Kept'
  BY <1>1, <1>3, <1>4, BatchStores
<1>6. KeptGrow
  BY <1>1, <1>3, KeptGrows
<1>7. \A q \in Passes \ {p} : PassOK(q)'
  BY <1>1, <1>2, <1>3, <1>6, OthersOK DEF IInv, TypeOK
<1>8. PassOK(p)'
  <2>1. pc[p] = "stream" /\ done'[p] = ends[k] /\ Covered(ends, Kept, done[p])
    BY <1>1, <1>3 DEF CommitBatch, IInv, TypeOK, PassOK
  <2>2. Covered(ends, Kept', ends[k])
    <3>1. Positions(ends) /\ Ordered(ends)
      BY <1>1, JournalFacts
    <3>2. ends[k] <= FinalEnd(ends)
      BY <3>1, BeginsFacts
    <3>3. \A i \in 1..Len(ends) : Begins(ends, i) \in Nat /\
                                  (Begins(ends, i) < ends[k] => ends[i] <= ends[k])
      BY <3>1, BeginsFacts
    <3> QED
      BY <1>4, <1>5, <2>1, <3>2, <3>3 DEF Covered
  <2> QED
    BY <1>2, <2>1, <2>2 DEF PassOK, IInv
<1> QED
  BY <1>1, <1>2, <1>6, <1>7, <1>8, SharedOK DEF IInv

(* The end of the stream.  The last batch stores every line that starts    *)
(* below the offset the pass is going to write: when stat ended with a     *)
(* newline all lines are in it, else the offset is at most where the held  *)
(* line begins, whatever the file has grown by since stat.                 *)
LEMMA EndOfStreamStep == ASSUME IInv, NEW p \in Passes, EndOfStream(p) PROVE IInv'
<1>1. TInv' /\ TypeOK /\ JournalOK
  BY PassTypes DEF PassStep, IInv, TInv
<1>2. UNCHANGED <<journal, Kept, offset, snapshot, stat, done, ends, size>>
  BY DEF EndOfStream, journal, database, losses, Kept
<1>3. \A q \in Passes \ {p} : PassOK(q)'
  BY <1>1, <1>2 DEF EndOfStream, Goto, IInv, TypeOK, PassOK
<1>4. /\ pc'[p] = "last" /\ pos[p] = size /\ stat'[p] = stat[p] /\ done'[p] = done[p]
      /\ Covered(ends, Kept, done[p]) /\ stat[p] <= size
  BY <1>1, <1>2 DEF EndOfStream, Goto, IInv, TypeOK, PassOK
<1>5. /\ Positions(ends) /\ Ordered(ends) /\ FinalEnd(ends) \in Nat /\ size \in Nat
      /\ FinalEnd(ends) <= size /\ stat[p] \in Nat /\ done[p] \in Int /\ Len(ends) \in Nat
  BY <1>1, JournalFacts, PassInts DEF Positions
<1>6. \A i \in 1..Len(ends) : /\ Begins(ends, i) \in Nat /\ ends[i] \in Nat
                              /\ Begins(ends, i) + 2 <= ends[i]
                              /\ ends[i] <= FinalEnd(ends)
  BY <1>5, BeginsFacts DEF Positions
<1>7. \A i, k \in 1..Len(ends) : Begins(ends, i) < ends[k] => ends[i] <= ends[k]
  BY <1>5, BeginsFacts
<1>8. Pending(ends, Kept, stat[p] - tail'[p], done[p], pos'[p])
  <2>1. CASE \E k \in 1..Len(ends) : ends[k] = stat[p]
    <3>1. pos'[p] = size /\ tail'[p] = 0
      BY <1>1, <1>4, <2>1 DEF EndOfStream, TypeOK
    <3> QED
      BY <1>4, <1>5, <1>6, <1>7, <2>1, <3>1, SMTT(30) DEF Pending, Covered
  <2>2. CASE ~\E k \in 1..Len(ends) : ends[k] = stat[p]
    <3> DEFINE terminated == ends # <<>> /\ pos[p] = LastEnd
               heldLine   == IF terminated THEN Len(ends) ELSE Len(ends) + 1
               begins     == Begins(ends, heldLine)
               heldFrom   == IF begins < done[p] THEN done[p] ELSE begins
               heldTo     == IF terminated THEN pos[p] - 1 ELSE pos[p]
    <3>1. pos'[p] = heldFrom /\ tail'[p] = heldTo - heldFrom
      <4>1. LineStart(heldLine) = begins
        BY <1>1, JournalFacts
      <4> QED
        BY <1>1, <2>2, <4>1 DEF EndOfStream, TypeOK
    <3>2. terminated => Len(ends) # 0
      BY <1>1, EmptySeq DEF TypeOK
    <3>3. /\ begins \in Nat /\ begins <= FinalEnd(ends)
          /\ \A i \in 1..Len(ends) : Begins(ends, i) < begins => ends[i] <= begins
      <4>1. CASE heldLine = 1
        <5>1. begins = 0
          BY <4>1 DEF Begins
        <5> HIDE DEF begins
        <5> QED
          BY <1>5, <1>6, <5>1
      <4>2. CASE heldLine # 1
        <5>1. heldLine \in 1..(Len(ends) + 1)
          BY <1>5, <3>2
        <5> HIDE DEF heldLine
        <5>2. heldLine - 1 \in 1..Len(ends) /\ begins = ends[heldLine - 1]
          BY <1>5, <4>2, <5>1 DEF Begins
        <5> QED
          BY <1>6, <1>7, <5>2
      <4> QED
        BY <4>1, <4>2
    <3>4. stat[p] <= heldTo /\ heldTo \in Int
      <4>1. CASE terminated
        <5>1. FinalEnd(ends) = ends[Len(ends)] /\ Len(ends) \in 1..Len(ends)
          BY <1>5, <3>2, <4>1 DEF FinalEnd
        <5>2. stat[p] # size
          BY <1>1, <1>4, <2>2, <4>1, <5>1, JournalFacts
        <5> QED
          BY <1>4, <1>5, <4>1, <5>2
      <4>2. CASE ~terminated
        BY <1>4, <1>5, <4>2
      <4> QED
        BY <4>1, <4>2
    <3>5. heldFrom \in Int /\ heldFrom <= FinalEnd(ends) /\ begins <= heldFrom
      BY <1>4, <1>5, <3>3 DEF Covered
    <3>6. stat[p] - tail'[p] \in Int /\ stat[p] - tail'[p] <= heldFrom
      <4> HIDE DEF heldFrom, heldTo
      <4> QED
        BY <1>5, <3>1, <3>4, <3>5
    <3>7. ASSUME NEW i \in 1..Len(ends), Begins(ends, i) < heldFrom
          PROVE  i \in Kept \/ (done[p] <= Begins(ends, i) /\ ends[i] <= heldFrom)
      <4>1. CASE Begins(ends, i) < done[p]
        BY <1>4, <4>1 DEF Covered
      <4>2. CASE done[p] <= Begins(ends, i)
        <5>1. heldFrom = begins
          BY <1>5, <1>6, <3>3, <3>7, <4>2
        <5> QED
          BY <3>3, <3>7, <4>2, <5>1
      <4> QED
        BY <1>5, <1>6, <4>1, <4>2
    <3> HIDE DEF heldFrom
    <3> QED
      BY <1>5, <1>6, <3>1, <3>5, <3>6, <3>7 DEF Pending
  <2> QED
    BY <2>1, <2>2
<1>9. PassOK(p)'
  BY <1>2, <1>4, <1>8 DEF PassOK
<1> QED
  BY <1>1, <1>2, <1>3, <1>9, SharedOK DEF IInv, KeptGrow

LEMMA LastBatchStep == ASSUME IInv, NEW p \in Passes, LastBatch(p) PROVE IInv'
<1>1. TInv' /\ TypeOK /\ JournalOK
  BY PassTypes DEF PassStep, IInv, TInv
<1>2. /\ UNCHANGED <<journal, offset, snapshot, stat, pos, tail, ends, size>>
      /\ StoreLines(p, done[p], pos[p])
  BY DEF LastBatch, journal
<1>3. \A i \in 1..Len(ends) :
        \/ i \in Kept
        \/ done[p] <= Begins(ends, i) /\ ends[i] <= pos[p]
        => i \in Kept'
  BY <1>1, <1>2, BatchStores, PassInts
<1>4. KeptGrow
  BY <1>1, <1>2, KeptGrows
<1>5. \A q \in Passes \ {p} : PassOK(q)'
  BY <1>1, <1>2, <1>4, OthersOK DEF LastBatch, Goto, IInv, TypeOK
<1>6. PassOK(p)'
  <2>1. pc'[p] = "flush" /\ Pending(ends, Kept, stat[p] - tail[p], done[p], pos[p])
    BY <1>1 DEF LastBatch, Goto, IInv, TypeOK, PassOK
  <2>2. Covered(ends, Kept', stat[p] - tail[p])
    BY <1>3, <2>1 DEF Pending, Covered
  <2> QED
    BY <1>2, <2>1, <2>2 DEF PassOK, IInv
<1> QED
  BY <1>1, <1>2, <1>4, <1>5, <1>6, SharedOK DEF IInv

LEMMA FlushStep ==
  ASSUME IInv, NEW p \in Passes, FlushChain(p) \/ LinkParent(p) PROVE IInv'
<1>1. TInv' /\ TypeOK
  BY PassTypes DEF PassStep, IInv, TInv
<1>2. UNCHANGED <<journal, Kept, offset, snapshot, stat, done, pos, tail, ends, size>>
  BY DEF FlushChain, LinkParent, journal, cursor, losses, Kept
<1>3. \A q \in Passes \ {p} : PassOK(q)'
  BY <1>1, <1>2 DEF FlushChain, LinkParent, Goto, IInv, TypeOK, PassOK
<1>4. PassOK(p)'
  <2>1. pc[p] \in {"flush", "link"} /\ pc'[p] \in {"link", "offset"}
    BY <1>1 DEF FlushChain, LinkParent, Goto, TypeOK
  <2> QED
    BY <1>2, <2>1 DEF PassOK, IInv
<1> QED
  BY <1>1, <1>2, <1>3, <1>4, SharedOK DEF IInv, KeptGrow

LEMMA CommitOffsetStep == ASSUME IInv, NEW p \in Passes, CommitOffset(p) PROVE IInv'
<1>1. TInv' /\ TypeOK
  BY PassTypes DEF PassStep, IInv, TInv
<1>2. UNCHANGED <<journal, Kept, snapshot, stat, done, pos, tail, ends, size, tailWhole>>
  BY DEF CommitOffset, journal, cursor, losses, Kept
<1>3. \A q \in Passes : PassOK(q)'
  <2>1. \A q \in Passes : pc'[q] = pc[q] \/ pc'[q] = "end"
    BY <1>1 DEF CommitOffset, Goto, TypeOK
  <2> QED
    BY <1>2, <2>1 DEF IInv, PassOK
<1>4. Covered(ends, Kept, offset')
  BY DEF CommitOffset, IInv, PassOK
<1> QED
  BY <1>1, <1>2, <1>3, <1>4 DEF IInv, JournalOK

LEMMA EndStep == ASSUME IInv, NEW p \in Passes, End(p) PROVE IInv'
<1>1. TInv' /\ TypeOK
  BY PassTypes DEF PassStep, IInv, TInv
<1>2. UNCHANGED <<journal, Kept, offset, ends, size, tailWhole>>
  BY DEF End, journal, database, losses, Kept
<1>3. \A q \in Passes : PassOK(q)'
  <2>1. /\ pc'[p] = "idle" /\ stat'[p] = 0
        /\ \A q \in Passes \ {p} : /\ pc'[q] = pc[q] /\ stat'[q] = stat[q]
                                   /\ done'[q] = done[q] /\ pos'[q] = pos[q]
                                   /\ tail'[q] = tail[q]
    BY <1>1 DEF End, Goto, Forget, TypeOK
  <2>2. 0 <= size
    BY <1>1 DEF TypeOK
  <2> QED
    BY <1>2, <2>1, <2>2 DEF IInv, PassOK
<1>4. \A r \in Processes : snapshot'[r].taken => Covered(ends', Kept', snapshot'[r].at)
  BY <1>1, <1>2 DEF End, IInv, TypeOK, NoSnapshot
<1> QED
  BY <1>1, <1>2, <1>3, <1>4 DEF IInv, JournalOK

(* A pass that throws leaves what it stored, and its offset unwritten.     *)
LEMMA ThrowStep == ASSUME IInv, NEW p \in Passes, Throw(p) PROVE IInv'
<1>1. TInv' /\ TypeOK
  BY ThrowTypes DEF IInv, TInv
<1>2. UNCHANGED <<journal, Kept, offset, snapshot, ends, size, tailWhole>>
  BY DEF Throw, journal, database, losses, Kept
<1>3. \A q \in Passes : PassOK(q)'
  <2>1. /\ pc'[p] = "end" /\ stat'[p] = 0
        /\ \A q \in Passes \ {p} : /\ pc'[q] = pc[q] /\ stat'[q] = stat[q]
                                   /\ done'[q] = done[q] /\ pos'[q] = pos[q]
                                   /\ tail'[q] = tail[q]
    BY <1>1 DEF Throw, Goto, Forget, TypeOK
  <2>2. 0 <= size
    BY <1>1 DEF TypeOK
  <2> QED
    BY <1>2, <2>1, <2>2 DEF IInv, PassOK
<1> QED
  BY <1>1, <1>2, <1>3 DEF IInv, JournalOK

LEMMA CrashStep == ASSUME IInv, NEW c \in Processes, Crash(c) PROVE IInv'
<1>1. TInv' /\ TypeOK
  BY CrashTypes DEF IInv, TInv
<1>2. UNCHANGED <<journal, Kept, offset, ends, size, tailWhole>>
  BY DEF Crash, journal, database, losses, Kept
<1>3. \A q \in Passes : PassOK(q)'
  <2>1. \A q \in Passes :
          \/ pc'[q] = "idle" /\ stat'[q] = 0
          \/ /\ pc'[q] = pc[q] /\ stat'[q] = stat[q] /\ done'[q] = done[q]
             /\ pos'[q] = pos[q] /\ tail'[q] = tail[q]
    BY <1>1 DEF Crash, Forget
  <2>2. 0 <= size
    BY <1>1 DEF TypeOK
  <2> QED
    BY <1>2, <2>1, <2>2 DEF IInv, PassOK
<1>4. \A r \in Processes : snapshot'[r].taken => Covered(ends', Kept', snapshot'[r].at)
  BY <1>1, <1>2 DEF Crash, IInv, TypeOK, NoSnapshot
<1> QED
  BY <1>1, <1>2, <1>3, <1>4 DEF IInv, JournalOK

LEMMA InvariantStep == IInv /\ [Next]_vars => IInv'
<1> SUFFICES ASSUME IInv, [Next]_vars PROVE IInv'
  OBVIOUS
<1>1. ASSUME NEW p \in Passes, PassStep(p) PROVE IInv'
  BY <1>1, BeginStep, VisitStep, OpenStep, CommitBatchStep, EndOfStreamStep,
     LastBatchStep, FlushStep, CommitOffsetStep, EndStep DEF PassStep
<1>2. CASE UNCHANGED vars
  <2>1. TInv'
    BY <1>2, TypeStep DEF IInv
  <2> QED
    BY <1>2, <2>1 DEF IInv, JournalOK, PassOK, vars, journal, database, cursor, losses, Kept
<1> QED
  BY <1>1, <1>2, WriterStep, ThrowStep, CrashStep DEF Next

LEMMA InvariantInit == Init => IInv
<1> SUFFICES ASSUME Init PROVE IInv
  OBVIOUS
<1>1. TInv
  BY TypeInit
<1>2. ends = <<>> /\ Len(ends) = 0 /\ size = 0 /\ ~tailWhole /\ offset = 0
  BY DEF Init
<1>3. FinalEnd(ends) = 0 /\ JournalOK
  BY <1>2 DEF FinalEnd, JournalOK, Ordered
<1>4. Covered(ends, Kept, 0)
  BY <1>2, <1>3 DEF Covered
<1>5. \A p \in Passes : PassOK(p)
  <2> SUFFICES ASSUME NEW p \in Passes PROVE PassOK(p)
    OBVIOUS
  <2>1. pc[p] = "idle" /\ stat[p] = 0
    BY DEF Init
  <2>2. stat[p] <= size
    BY <1>2, <2>1
  <2> QED
    BY <2>1, <2>2 DEF PassOK
<1>6. \A r \in Processes : ~snapshot[r].taken
  BY DEF Init, NoSnapshot
<1> QED
  BY <1>1, <1>2, <1>3, <1>4, <1>5, <1>6 DEF IInv

(* No complete line that starts below the stored offset is missing from    *)
(* the database, unless its own insert threw and the catch in the loop     *)
(* over the lines went on: however many passes of however many processes   *)
(* overlap, wherever they die or throw, and whatever part of a line the    *)
(* writer appends between two of their statements, ingestJsonlSource       *)
(* commits the lines first and the offset last.                            *)
THEOREM NoLineLost == Spec => []NothingSkipped
<1>1. IInv => NothingSkipped
  BY JournalFacts DEF IInv, TInv, Covered, Kept, NothingSkipped
<1> QED
  BY <1>1, InvariantInit, InvariantStep, PTL DEF Spec

------------------------------------------------------------------------------
(* Stored once, counted once.  For a native journal no pass ever takes a   *)
(* line for the parent of a delegated session, so each message's tokens    *)
(* are counted in the transaction that stores it.                          *)

OnceInv ==
  /\ TInv
  /\ CountedOnce
  /\ reader = "native" => \A p \in Passes : ~delegated[p]

LEMMA BatchCounts ==
  ASSUME OnceInv, NEW p \in Passes, NEW lo, NEW up, StoreLines(p, lo, up),
         UNCHANGED reader
  PROVE  /\ CountedOnce'
         /\ reader = "native" => \A q \in Passes : ~delegated'[q]
<1>1. PICK failing, cut :
        /\ rows' = [i \in Lines |-> rows[i] + (IF i \in New(lo, up) \ failing THEN 1 ELSE 0)]
        /\ usage' = [i \in Lines |-> usage[i] +
             (IF i \in New(lo, up) \ (failing \cup cut) /\ HasUsage(i) /\ ~Named(p, lo, up, i)
              THEN 1 ELSE 0)]
        /\ uncounted' = uncounted \cup cut
        /\ delegated' = [delegated EXCEPT ![p] = @ \/ \E j \in Whole(lo, up) : NamesParent(j)]
  BY ZenonT(90) DEF StoreLines
<1>2. reader = "native" => \A i : ~NamesParent(i)
  BY DEF NamesParent
<1>3. reader = "native" => ~delegated[p] /\ \A i : ~Named(p, lo, up, i)
  BY <1>2 DEF OnceInv, Named
<1>4. ASSUME reader = "native", NEW q \in Passes PROVE ~delegated'[q]
  BY <1>1, <1>2, <1>4 DEF OnceInv, TInv, TypeOK
<1>5. ASSUME NEW i \in Lines, Identified(i)
      PROVE  /\ rows'[i] <= 1 /\ usage'[i] <= rows'[i]
             /\ reader = "native" /\ HasUsage(i) => usage'[i] = rows'[i] \/ i \in uncounted'
  <2>1. rows[i] \in Nat /\ usage[i] \in Nat /\ rows[i] <= 1 /\ usage[i] <= rows[i]
    BY <1>5 DEF OnceInv, TInv, TypeOK, CountedOnce
  <2>2. reader = "native" /\ HasUsage(i) => usage[i] = rows[i] \/ i \in uncounted
    BY <1>5 DEF OnceInv, CountedOnce
  <2>3. CASE i \in New(lo, up) \ failing
    <3>1. rows[i] = 0 /\ usage[i] = 0
      BY <1>5, <2>1, <2>3 DEF New
    <3>2. rows'[i] = 1
      BY <1>1, <2>3, <3>1
    <3>3. usage'[i] = IF i \notin cut /\ HasUsage(i) /\ ~Named(p, lo, up, i) THEN 1 ELSE 0
      BY <1>1, <2>3, <3>1
    <3> QED
      BY <1>1, <1>3, <3>2, <3>3
  <2>4. CASE i \notin New(lo, up) \ failing
    <3>1. rows'[i] = rows[i] /\ usage'[i] = usage[i]
      BY <1>1, <2>1, <2>4
    <3> QED
      BY <1>1, <2>1, <2>2, <3>1
  <2> QED
    BY <2>3, <2>4
<1> QED
  BY <1>4, <1>5 DEF CountedOnce, HasUsage, Identified

LEMMA OnceStep == OnceInv /\ [Next]_vars => OnceInv'
<1> SUFFICES ASSUME OnceInv, [Next]_vars PROVE OnceInv'
  OBVIOUS
<1>1. TInv' /\ TypeOK
  BY TypeStep DEF OnceInv, TInv
<1>2. CASE UNCHANGED <<reader, rows, usage, uncounted>> /\ \A p \in Passes : ~delegated[p] => ~delegated'[p]
  BY <1>1, <1>2 DEF OnceInv, CountedOnce, Identified, HasUsage
<1>3. CASE WriteLine \/ WriteText \/ WriteNewline \/ UNCHANGED vars
  BY <1>2, <1>3 DEF WriteLine, WriteText, WriteNewline, vars, journal, database, cursor, losses
<1>4. ASSUME NEW r \in Processes, Crash(r) PROVE OnceInv'
  BY <1>1, <1>2, <1>4 DEF Crash, Forget, journal, database, losses
<1>7. ASSUME NEW p \in Passes, Throw(p) PROVE OnceInv'
  BY <1>1, <1>2, <1>7 DEF Throw, Forget, journal, database, losses
<1>5. ASSUME NEW p \in Passes, NEW lo, NEW up, StoreLines(p, lo, up), UNCHANGED reader
      PROVE  OnceInv'
  BY <1>1, <1>5, BatchCounts DEF OnceInv
<1>6. ASSUME NEW p \in Passes, PassStep(p) PROVE OnceInv'
  <2>1. CASE CommitBatch(p)
    <3>1. PICK lo, up : StoreLines(p, lo, up)
      BY <2>1 DEF CommitBatch
    <3> QED
      BY <1>5, <2>1, <3>1 DEF CommitBatch, journal
  <2>2. CASE LastBatch(p)
    BY <1>5, <2>2 DEF LastBatch, journal
  <2>3. CASE Begin(p) \/ Visit(p) \/ OpenThrows(p) \/ ReadChunk(p) \/ EndOfStream(p)
    BY <1>2, <2>3 DEF Begin, Visit, OpenThrows, ReadChunk, EndOfStream, journal, database, cursor, losses
  <2>4. CASE FlushChain(p) \/ LinkParent(p) \/ CommitOffset(p)
    BY <1>2, <2>4 DEF FlushChain, LinkParent, CommitOffset, journal, cursor, losses
  <2>5. CASE Open(p)
    <3>1. \A q \in Passes : ~delegated[q] => ~delegated'[q]
      BY <1>1, <2>5 DEF Open, TypeOK
    <3> QED
      BY <1>2, <2>5, <3>1 DEF Open, journal, losses
  <2>6. CASE End(p)
    BY <1>1, <1>2, <2>6 DEF End, Forget, journal, database, losses
  <2> QED
    BY <1>6, <2>1, <2>2, <2>3, <2>4, <2>5, <2>6 DEF PassStep
<1> QED
  BY <1>3, <1>4, <1>6, <1>7 DEF Next

(* A message with an id is stored at most once and its tokens are counted  *)
(* at most once, however often its bytes are read; in a native journal     *)
(* they are counted exactly when it is stored (insertMessage with INSERT   *)
(* OR IGNORE and updateUsageMinutes in one transaction), unless a          *)
(* statement between the two threw and the line's catch kept the row.      *)
THEOREM StoredAndCountedOnce == Spec => []CountedOnce
<1>1. Init => OnceInv
  BY TypeInit DEF Init, OnceInv, CountedOnce
<1>2. OnceInv => CountedOnce
  BY DEF OnceInv
<1> QED
  BY <1>1, <1>2, OnceStep, PTL DEF Spec

------------------------------------------------------------------------------
(* Between races.  As long as the file did not grow under a pass, no two   *)
(* passes overlapped and no process died between flush and offset, one     *)
(* pass runs at a time, and offset, chain and the locals of that pass all  *)
(* stand at the same line end.                                             *)

\* Line n ends at o; line 0 is none, and ends where the file begins.
EndsAt(e, o, n) == n \in 0..Len(e) /\ o = IF n = 0 THEN 0 ELSE e[n]
AtLineEnd(e, o) == \E n \in Nat : EndsAt(e, o, n)

OneAtATime == \A p, q \in Passes : pc[p] # "idle" /\ pc[q] # "idle" => p = q

\* The chain on record, and the tracker of a pass, have come to the line that
\* ends at o.
Chained(o) == reader = "native" => EndsAt(ends, o, chain.last)
Tracked(p) ==
  /\ ~tracker[p].broken
  /\ IF reader = "native" THEN tracker[p].live /\ EndsAt(ends, done[p], tracker[p].last)
                          ELSE ~tracker[p].live

QuietPass(p) ==
  /\ pc[p] = "visit" => LET snap == snapshot[ProcessOf[p]] IN snap.taken => snap.at = offset
  /\ pc[p] = "open" => done[p] = offset /\ offset < stat[p]
  /\ pc[p] \in {"stream", "last", "flush"} =>
       Tracked(p) /\ AtLineEnd(ends, done[p]) /\ offset <= done[p]
  /\ pc[p] = "stream" => offset < stat[p]
  /\ pc[p] = "last" => done[p] <= pos[p] /\ pos[p] = stat[p] - tail[p] /\ AtLineEnd(ends, pos[p])
  /\ pc[p] = "flush" => done[p] = stat[p] - tail[p]
  /\ pc[p] \in {"link", "offset"} => AtLineEnd(ends, stat[p] - tail[p])
  /\ pc[p] = "offset" => Chained(stat[p] - tail[p])
  /\ pc[p] = "link" => reader # "native"

Quiet ==
  /\ OneAtATime
  /\ AtLineEnd(ends, offset)
  /\ ~chain.broken
  /\ (\A p \in Passes : pc[p] # "offset") => Chained(offset)
  /\ \A p \in Passes : QuietPass(p)

Quietly == ~raced => Quiet

LEMMA EndFacts ==
  ASSUME TypeOK, JournalOK
  PROVE  /\ \A o, n : EndsAt(ends, o, n) => o \in Nat /\ n \in Nat /\ n <= MaxLines /\ (n = 0 <=> o = 0)
         /\ \A o, n, u, m : EndsAt(ends, o, n) /\ EndsAt(ends, u, m) => (o < u <=> n < m)
         /\ EndsAt(ends, LastEnd, Len(ends))
<1>1. /\ Positions(ends) /\ Ordered(ends) /\ LastEnd = FinalEnd(ends)
      /\ Len(ends) \in Nat /\ Len(ends) <= MaxLines /\ MaxLines \in Nat
      /\ \A i \in 1..Len(ends) : ends[i] \in Nat
  BY JournalFacts, ConstantsAssumption DEF TypeOK, Positions
<1>2. \A i \in 1..Len(ends) : 2 <= ends[i]
  BY <1>1 DEF Ordered
<1>3. \A i, k \in 1..Len(ends) : i < k => ends[i] < ends[k]
  <2> SUFFICES ASSUME NEW i \in 1..Len(ends), NEW k \in 1..Len(ends), i < k
               PROVE  ends[i] < ends[k]
    OBVIOUS
  <2>1. i \in 1..(k - 1) /\ ends[i] + 2 <= ends[k]
    BY <1>1 DEF Ordered
  <2> QED
    BY <1>1, <2>1
<1>4. ASSUME NEW o, NEW n, NEW u, NEW m, EndsAt(ends, o, n), EndsAt(ends, u, m)
      PROVE  o < u <=> n < m
  <2>1. n \in 0..Len(ends) /\ m \in 0..Len(ends)
    BY <1>4 DEF EndsAt
  <2>2. CASE n = 0 \/ m = 0
    BY <1>1, <1>2, <1>4, <2>1, <2>2 DEF EndsAt
  <2>3. CASE n # 0 /\ m # 0
    <3>1. n \in 1..Len(ends) /\ m \in 1..Len(ends) /\ o = ends[n] /\ u = ends[m]
      BY <1>1, <1>4, <2>1, <2>3 DEF EndsAt
    <3> QED
      BY <1>1, <1>3, <3>1
  <2> QED
    BY <2>2, <2>3
<1>5. \A o, n : EndsAt(ends, o, n) => o \in Nat /\ n \in Nat /\ n <= MaxLines /\ (n = 0 <=> o = 0)
  BY <1>1, <1>2 DEF EndsAt
<1>6. EndsAt(ends, LastEnd, Len(ends))
  BY <1>1 DEF EndsAt, FinalEnd
<1> QED
  BY <1>4, <1>5, <1>6

(* Between the ends of two lines a reader gets the lines between, whole.   *)
LEMMA BatchLines ==
  ASSUME TypeOK, JournalOK, NEW lo, NEW up, NEW a, NEW b,
         EndsAt(ends, lo, a), EndsAt(ends, up, b), a <= b
  PROVE  Seen(lo, up) = (a + 1)..b /\ Whole(lo, up) = (a + 1)..b
<1>1. /\ Positions(ends) /\ Ordered(ends)
      /\ Len(ends) \in Nat /\ Len(ends) <= MaxLines /\ MaxLines \in Nat
      /\ \A i : LineStart(i) = Begins(ends, i)
      /\ FinalEnd(ends) <= size /\ size \in Nat /\ FinalEnd(ends) \in Nat
  BY JournalFacts, ConstantsAssumption DEF TypeOK, Positions
<1>2. a \in 0..Len(ends) /\ b \in 0..Len(ends) /\ lo \in Nat /\ up \in Nat
  BY EndFacts DEF EndsAt
<1>3. \A i \in 1..Len(ends) : /\ Begins(ends, i) \in Nat /\ ends[i] \in Nat
                              /\ Begins(ends, i) + 2 <= ends[i] /\ ends[i] <= FinalEnd(ends)
  BY <1>1, BeginsFacts DEF Positions
<1>4. \A i \in 1..Len(ends) : EndsAt(ends, ends[i], i) /\ EndsAt(ends, Begins(ends, i), i - 1)
  BY <1>1 DEF EndsAt, Begins
<1>5. ASSUME NEW i \in Lines, i <= Len(ends)
      PROVE  /\ i \in Seen(lo, up) <=> i \in (a + 1)..b
             /\ i \in (a + 1)..b => i \in Whole(lo, up)
  <2>1. i \in 1..Len(ends) /\ TextEnd(i) = ends[i] - 1
    BY <1>1, <1>5 DEF Lines, TextEnd
  <2>2. /\ (ends[i] > lo <=> i > a) /\ (Begins(ends, i) < up <=> i - 1 < b)
        /\ (Begins(ends, i) < lo <=> i - 1 < a) /\ (up < ends[i] <=> b < i)
    <3>1. EndsAt(ends, ends[i], i) /\ EndsAt(ends, Begins(ends, i), i - 1)
      BY <1>4, <2>1
    <3>2. ends[i] \in Nat /\ Begins(ends, i) \in Nat /\ i \in Nat
      BY <1>3, <2>1
    <3>3. lo < ends[i] <=> a < i
      BY <3>1, EndFacts
    <3>4. Begins(ends, i) < up <=> i - 1 < b
      BY <3>1, EndFacts
    <3>5. Begins(ends, i) < lo <=> i - 1 < a
      BY <3>1, EndFacts
    <3>6. up < ends[i] <=> b < i
      BY <3>1, EndFacts
    <3> QED
      BY <1>2, <3>2, <3>3, <3>4, <3>5, <3>6
  <2>3. lo < TextEnd(i) <=> i > a
    <3>1. ends[i] > lo => ends[i] >= lo + 2
      <4>1. CASE i > a
        <5>1. i - 1 >= a /\ ~(Begins(ends, i) < lo)
          BY <1>2, <2>1, <2>2, <4>1
        <5> QED
          BY <1>2, <1>3, <2>1, <5>1
      <4> QED
        BY <2>2, <4>1
    <3> QED
      BY <1>2, <1>3, <2>1, <2>2, <3>1, SMTT(30)
  <2>4. LineStart(i) < TextEnd(i)
    BY <1>1, <1>3, <2>1
  <2>5. i \in (a + 1)..b => lo < up
    <3>1. a < b => lo < up
      BY EndFacts
    <3> QED
      BY <1>2, <2>1, <3>1
  <2>6. i \in Seen(lo, up) <=> i \in (a + 1)..b
    BY <1>1, <1>2, <1>5, <2>1, <2>2, <2>3, <2>4, <2>5 DEF Seen
  <2>7. i \in (a + 1)..b => i \in Whole(lo, up)
    <3>1. i \in (a + 1)..b => lo <= LineStart(i) /\ TextEnd(i) <= up
      BY <1>1, <1>2, <1>3, <2>1, <2>2, SMTT(30)
    <3> QED
      BY <2>1, <2>6, <3>1 DEF Whole, Finished
  <2> QED
    BY <2>6, <2>7
<1>6. ASSUME NEW i \in Seen(lo, up) PROVE i <= Len(ends) /\ i \in Lines
  <2>1. i \in Lines /\ i <= Len(ends) + 1 /\ LineStart(i) < up
    BY DEF Seen
  <2>2. CASE i = Len(ends) + 1
    <3>1. Begins(ends, i) = LastEnd
      BY <1>1, <2>2, JournalFacts DEF Begins, FinalEnd
    <3>2. ~(LastEnd < up)
      <4>1. EndsAt(ends, LastEnd, Len(ends)) /\ ~(Len(ends) < b) /\ LastEnd \in Nat
        BY <1>1, <1>2, EndFacts, JournalFacts
      <4>2. LastEnd < up <=> Len(ends) < b
        BY <1>1, <1>2, <4>1, EndFacts
      <4> QED
        BY <4>1, <4>2
    <3> QED
      BY <1>1, <2>1, <3>1, <3>2
  <2> QED
    BY <1>1, <2>1, <2>2 DEF Lines
<1>7. \A i \in (a + 1)..b : i \in Lines /\ i <= Len(ends)
  BY <1>1, <1>2 DEF Lines
<1>8. Whole(lo, up) \subseteq Seen(lo, up)
  BY DEF Whole
<1> QED
  BY <1>5, <1>6, <1>7, <1>8

(* A batch of whole lines that follows the last one keeps the tracker.     *)
LEMMA BatchTracked ==
  ASSUME TypeOK, JournalOK, NEW p \in Passes, Tracked(p), NEW up,
         AtLineEnd(ends, done[p]), AtLineEnd(ends, up), done[p] <= up,
         StoreLines(p, done[p], up), UNCHANGED <<reader, ends>>, done'[p] = up
  PROVE  Tracked(p)'
<1>1. PICK b \in Nat : EndsAt(ends, up, b)
  BY DEF AtLineEnd
<1>2. Feed(p, done[p], up)
  BY DEF StoreLines
<1>3. CASE reader # "native"
  BY <1>2, <1>3 DEF Feed, Tracked
<1>4. CASE reader = "native"
  <2> DEFINE t == tracker[p]  lo == done[p]
  <2>1. t.live /\ ~t.broken /\ EndsAt(ends, lo, t.last) /\ t.last \in Nat
    BY <1>4, EndFacts DEF Tracked
  <2>2. lo \in Nat /\ up \in Nat /\ t.last <= b
    <3>1. lo \in Nat /\ up \in Nat
      BY <1>1, <2>1, EndFacts
    <3>2. up < lo <=> b < t.last
      BY <1>1, <2>1, <3>1, EndFacts
    <3> QED
      BY <1>1, <2>1, <3>1, <3>2
  <2>3. Seen(lo, up) = (t.last + 1)..b /\ Whole(lo, up) = (t.last + 1)..b
    <3>1. EndsAt(ends, lo, t.last) /\ EndsAt(ends, up, b) /\ t.last <= b
      BY <1>1, <2>1, <2>2
    <3> HIDE DEF t, lo
    <3> QED
      BY <3>1, BatchLines
  <2>4. CASE t.last = b
    <3>1. Seen(lo, up) = {}
      BY <2>1, <2>3, <2>4
    <3>2. UNCHANGED tracker
      BY <1>2, <3>1, <2>1 DEF Feed
    <3> QED
      BY <1>1, <1>4, <2>1, <2>4, <3>2 DEF Tracked
  <2>5. CASE t.last # b
    <3>1. t.last + 1 \in Seen(lo, up) /\ b \in Seen(lo, up)
      BY <1>1, <2>1, <2>2, <2>3, <2>5
    <3>2. PICK first \in Seen(lo, up), last \in Seen(lo, up) :
             /\ \A i \in Seen(lo, up) : first <= i /\ i <= last
             /\ tracker' = [tracker EXCEPT ![p] =
                  [live |-> TRUE, last |-> last,
                   broken |-> t.broken \/ Seen(lo, up) # Whole(lo, up) \/ first # t.last + 1]]
      BY <1>2, <2>1, <3>1, Zenon DEF Feed
    <3>3. first = t.last + 1 /\ last = b
      BY <1>1, <2>1, <2>3, <3>1, <3>2
    <3>4. tracker'[p] = [live |-> TRUE, last |-> b, broken |-> FALSE]
      BY <2>1, <2>3, <3>2, <3>3 DEF TypeOK
    <3> QED
      BY <1>1, <1>4, <3>4 DEF Tracked
  <2> QED
    BY <2>4, <2>5
<1> QED
  BY <1>3, <1>4

(* With one pass at a time, a step of it is all there is to look at.       *)
LEMMA OnlyThisPass ==
  ASSUME TypeOK, Quiet, NEW p \in Passes, NEW l,
         \A q \in Passes \ {p} : pc[q] = "idle",
         pc' = [pc EXCEPT ![p] = l], QuietPass(p)',
         AtLineEnd(ends', offset'), ~chain'.broken, l # "offset" => Chained(offset)'
  PROVE  Quiet'
<1>1. pc'[p] = l /\ \A q \in Passes \ {p} : pc'[q] = "idle"
  BY DEF TypeOK
<1>2. \A q \in Passes \ {p} : QuietPass(q)'
  BY <1>1 DEF QuietPass
<1>3. OneAtATime'
  BY <1>1 DEF OneAtATime
<1> QED
  BY <1>1, <1>2, <1>3 DEF Quiet

LEMMA OthersIdle ==
  ASSUME Quiet, NEW p \in Passes, pc[p] # "idle"
  PROVE  \A q \in Passes \ {p} : pc[q] = "idle"
BY DEF Quiet, OneAtATime

(* The writer: what ended a line still does.                               *)
LEMMA QuietWriter ==
  ASSUME IInv, Quiet, WriteLine \/ WriteText \/ WriteNewline
  PROVE  Quiet'
<1>1. /\ TypeOK /\ UNCHANGED <<reader, offset, chain, snapshot, pc, stat, done, pos, tail, tracker>>
  BY DEF WriteLine, WriteText, WriteNewline, database, cursor, IInv, TInv
<1>2. \A o, n : EndsAt(ends, o, n) => EndsAt(ends', o, n)
  <2>1. CASE UNCHANGED ends
    BY <2>1
  <2>2. CASE \E n \in Nat : ends' = Append(ends, n)
    <3>1. /\ Len(ends) \in Nat /\ Len(ends') = Len(ends) + 1
          /\ \A i \in 1..Len(ends) : ends'[i] = ends[i]
      BY <1>1, <2>2, AppendProperties, LenProperties DEF TypeOK
    <3> QED
      BY <3>1 DEF EndsAt
  <2>3. WriteLine => \E n \in Nat : ends' = Append(ends, n)
    BY <1>1, ConstantsAssumption DEF WriteLine, TypeOK
  <2>4. WriteNewline => \E n \in Nat : ends' = Append(ends, n)
    BY <1>1 DEF WriteNewline, TypeOK
  <2>5. WriteText => UNCHANGED ends
    BY DEF WriteText
  <2> QED
    BY <2>1, <2>2, <2>3, <2>4, <2>5
<1>3. \A o : AtLineEnd(ends, o) => AtLineEnd(ends', o)
  BY <1>2 DEF AtLineEnd
<1>4. \A o : Chained(o) => Chained(o)'
  BY <1>1, <1>2 DEF Chained
<1>5. \A p \in Passes : Tracked(p) => Tracked(p)'
  BY <1>1, <1>2 DEF Tracked
<1>6. ASSUME NEW p \in Passes PROVE QuietPass(p)'
  <2>1. QuietPass(p)
    BY DEF Quiet
  <2> QED
    BY <1>1, <1>3, <1>4, <1>5, <2>1 DEF QuietPass
<1> QED
  BY <1>1, <1>3, <1>4, <1>6 DEF Quiet, OneAtATime

(* What the steps need of the invariant.                                   *)
LEMMA QuietFacts ==
  ASSUME IInv, Quiet
  PROVE  /\ TypeOK /\ JournalOK /\ offset \in Nat
         /\ \A o, n : EndsAt(ends, o, n) => o \in Nat /\ n \in Nat /\ (n = 0 <=> o = 0)
         /\ \A o : AtLineEnd(ends, o) => o \in Nat /\ o <= LastEnd
<1>1. TypeOK /\ JournalOK
  BY DEF IInv, TInv
<1>2. /\ \A o, n : EndsAt(ends, o, n) => o \in Nat /\ n \in Nat /\ (n = 0 <=> o = 0)
      /\ EndsAt(ends, LastEnd, Len(ends)) /\ Len(ends) \in Nat
      /\ \A o, n, u, m : EndsAt(ends, o, n) /\ EndsAt(ends, u, m) => (o < u <=> n < m)
  BY <1>1, EndFacts
<1>3. \A o, n : EndsAt(ends, o, n) => ~(Len(ends) < n)
  BY <1>2 DEF EndsAt
<1>4. ASSUME NEW o, AtLineEnd(ends, o) PROVE o \in Nat /\ o <= LastEnd
  <2>1. PICK n \in Nat : EndsAt(ends, o, n)
    BY <1>4 DEF AtLineEnd
  <2>2. o \in Nat /\ LastEnd \in Nat /\ ~(Len(ends) < n)
    BY <1>2, <1>3, <2>1
  <2>3. LastEnd < o <=> Len(ends) < n
    BY <1>2, <2>1, <2>2
  <2> QED
    BY <2>2, <2>3
<1> QED
  BY <1>1, <1>2, <1>4 DEF Quiet

(* A pass begins only when no other runs: raced' would say otherwise.      *)
LEMMA QuietBegin == ASSUME IInv, Quiet, NEW p \in Passes, Begin(p), ~raced' PROVE Quiet'
<1>1. TypeOK /\ ProcessOf[p] \in Processes
  BY QuietFacts, ConstantsAssumption
<1>2. \A q \in Passes : pc[q] = "idle"
  BY Zenon DEF Begin
<1>3. pc' = [pc EXCEPT ![p] = "visit"] /\ UNCHANGED <<reader, ends, offset, chain>>
  BY DEF Begin, Goto, journal, database
<1>4. snapshot'[ProcessOf[p]].taken => snapshot'[ProcessOf[p]].at = offset'
  BY <1>1, <1>3 DEF Begin, TypeOK, NoSnapshot
<1>5. QuietPass(p)'
  BY <1>1, <1>3, <1>4 DEF QuietPass, TypeOK
<1>6. Chained(offset)'
  BY <1>2, <1>3 DEF Quiet, Chained
<1> QED
  BY <1>1, <1>2, <1>3, <1>5, <1>6, OnlyThisPass DEF Quiet

LEMMA QuietVisit == ASSUME IInv, Quiet, NEW p \in Passes, Visit(p) PROVE Quiet'
<1>1. TypeOK /\ offset \in Nat
  BY QuietFacts
<1>2. \A q \in Passes \ {p} : pc[q] = "idle"
  BY OthersIdle DEF Visit
<1>3. PICK l \in {"end", "open"} : pc' = [pc EXCEPT ![p] = l] /\ (l = "open" => offset < size)
                                   /\ done'[p] = offset /\ stat'[p] = size
  <2>1. /\ pc[p] = "visit" /\ size \in Nat
        /\ snapshot[ProcessOf[p]].taken => snapshot[ProcessOf[p]].at = offset
    BY <1>1 DEF Visit, Quiet, QuietPass, TypeOK
  <2>2. stat'[p] = size /\ done'[p] = offset
    BY <1>1, <2>1 DEF Visit, TypeOK
  <2>3. pc' = [pc EXCEPT ![p] = IF size <= offset THEN "end" ELSE "open"]
    BY <2>1 DEF Visit, Goto
  <2>4. CASE size <= offset
    BY <1>1, <2>1, <2>2, <2>3, <2>4
  <2>5. CASE ~(size <= offset)
    BY <1>1, <2>1, <2>2, <2>3, <2>5
  <2> QED
    BY <2>4, <2>5
<1>4. UNCHANGED <<reader, ends, offset, chain>> /\ Chained(offset)
  BY <1>2 DEF Visit, journal, database, Quiet
<1>5. pc'[p] = l
  BY <1>1, <1>3 DEF TypeOK
<1>6. QuietPass(p)'
  BY <1>3, <1>4, <1>5 DEF QuietPass
<1> QED
  BY <1>1, <1>2, <1>3, <1>4, <1>6, OnlyThisPass DEF Quiet, Chained

LEMMA QuietOpen ==
  ASSUME IInv, Quiet, NEW p \in Passes, Open(p) \/ OpenThrows(p)
  PROVE  Quiet'
<1>1. /\ TypeOK /\ offset \in Nat
      /\ \A o, n : EndsAt(ends, o, n) => o \in Nat /\ n \in Nat /\ (n = 0 <=> o = 0)
  BY QuietFacts
<1>2. \A q \in Passes \ {p} : pc[q] = "idle"
  BY OthersIdle DEF Open, OpenThrows
<1>3. pc[p] = "open" /\ done[p] = offset /\ offset < stat[p] /\ Chained(offset) /\ Open(p)
  BY <1>1, <1>2 DEF Open, OpenThrows, Quiet, QuietPass
<1>4. pc' = [pc EXCEPT ![p] = "stream"] /\ UNCHANGED <<reader, ends, offset, stat, done>>
  BY <1>3 DEF Open, Goto, journal
<1>5. tracker'[p] = Resume(done[p] = 0)
  BY <1>1, <1>3 DEF Open, TypeOK
<1>6. ~chain'.broken /\ Chained(offset)' /\ Tracked(p)'
  <2>1. CASE done[p] = 0
    <3>1. chain' = NoChain
      BY <1>3, <2>1 DEF Open
    <3>2. EndsAt(ends, 0, 0)
      BY <1>1, LenProperties DEF EndsAt, TypeOK
    <3> QED
      BY <1>3, <1>4, <1>5, <2>1, <3>1, <3>2 DEF NoChain, Chained, Tracked, Resume, Idle
  <2>2. CASE done[p] # 0
    <3>1. chain' = chain /\ ~chain.broken
      BY <1>3, <2>2 DEF Open, Quiet
    <3>2. reader = "native" => EndsAt(ends, offset, chain.last) /\ chain.last > 0
      BY <1>1, <1>3, <2>2 DEF Chained
    <3>3. tracker'[p] = IF reader # "native" THEN Idle
                        ELSE [live |-> chain.last > 0, last |-> chain.last, broken |-> chain.broken]
      BY <1>5, <2>2 DEF Resume
    <3>4. CASE reader = "native"
      <4>1. tracker'[p].live /\ ~tracker'[p].broken /\ tracker'[p].last = chain.last
        <5>1. tracker'[p] = [live |-> chain.last > 0, last |-> chain.last, broken |-> chain.broken]
          BY <3>3, <3>4, Zenon
        <5>2. tracker'[p].live = (chain.last > 0) /\ tracker'[p].broken = chain.broken
              /\ tracker'[p].last = chain.last
          BY <5>1
        <5> QED
          BY <3>1, <3>2, <3>4, <5>2, Zenon
      <4>2. EndsAt(ends', done'[p], tracker'[p].last) /\ EndsAt(ends', offset', chain'.last)
        <5>1. EndsAt(ends, offset, chain.last) /\ chain'.last = chain.last
          BY <3>1, <3>2, <3>4
        <5>2. done'[p] = offset /\ offset' = offset /\ ends' = ends
          BY <1>3, <1>4
        <5> QED
          BY <4>1, <5>1, <5>2, Zenon
      <4> QED
        BY <1>4, <3>1, <3>4, <4>1, <4>2, Zenon DEF Chained, Tracked
    <3>5. CASE reader # "native"
      BY <1>4, <3>1, <3>3, <3>5 DEF Chained, Tracked, Idle
    <3> QED
      BY <3>4, <3>5
  <2> QED
    BY <2>1, <2>2
<1>7. pc'[p] = "stream"
  BY <1>1, <1>4 DEF TypeOK
<1>8. QuietPass(p)'
  BY <1>1, <1>3, <1>4, <1>6, <1>7 DEF QuietPass, Quiet
<1> QED
  BY <1>1, <1>2, <1>4, <1>6, <1>8, OnlyThisPass DEF Quiet

LEMMA QuietReadChunk == ASSUME IInv, Quiet, NEW p \in Passes, ReadChunk(p) PROVE Quiet'
<1>1. pc[p] = "stream" /\ UNCHANGED <<reader, ends, offset, chain, snapshot, pc, stat, done, tail, tracker>>
  BY DEF ReadChunk, journal, database
<1>2. \A q \in Passes \ {p} : pc[q] = "idle"
  BY <1>1, OthersIdle
<1>3. QuietPass(p)'
  BY <1>1 DEF QuietPass, Quiet, Tracked
<1>4. \A q \in Passes \ {p} : QuietPass(q)'
  BY <1>1, <1>2 DEF QuietPass
<1> QED
  BY <1>1, <1>3, <1>4 DEF Quiet, OneAtATime, Chained

LEMMA QuietCommitBatch == ASSUME IInv, Quiet, NEW p \in Passes, CommitBatch(p) PROVE Quiet'
<1>1. /\ TypeOK /\ JournalOK
      /\ \A o : AtLineEnd(ends, o) => o \in Nat /\ o <= LastEnd
  BY QuietFacts
<1>2. pc[p] = "stream" /\ UNCHANGED <<reader, ends, offset, chain, snapshot, pc, stat, pos, tail>>
  BY DEF CommitBatch, journal
<1>3. \A q \in Passes \ {p} : pc[q] = "idle"
  BY <1>2, OthersIdle
<1>4. /\ Tracked(p) /\ AtLineEnd(ends, done[p]) /\ offset <= done[p] /\ offset < stat[p]
      /\ offset \in Nat /\ AtLineEnd(ends, offset)
  BY <1>1, <1>2 DEF Quiet, QuietPass
<1>5. PICK k \in 1..Len(ends) : /\ done[p] < ends[k] /\ StoreLines(p, done[p], ends[k])
                                /\ done' = [done EXCEPT ![p] = ends[k]]
  BY DEF CommitBatch
<1>6. AtLineEnd(ends, ends[k]) /\ done'[p] = ends[k]
  BY <1>1, <1>5, LenProperties DEF AtLineEnd, EndsAt, TypeOK
<1>7. done[p] \in Nat /\ ends[k] \in Nat
  BY <1>1, <1>4, <1>6
<1>8. Tracked(p)'
  <2>1. done[p] <= ends[k]
    BY <1>5, <1>7
  <2> QED
    BY <1>1, <1>2, <1>4, <1>5, <1>6, <2>1, BatchTracked
<1>9. QuietPass(p)'
  BY <1>2, <1>4, <1>5, <1>6, <1>7, <1>8 DEF QuietPass
<1>10. \A q \in Passes \ {p} : QuietPass(q)'
  BY <1>2, <1>3 DEF QuietPass
<1> QED
  BY <1>2, <1>9, <1>10 DEF Quiet, OneAtATime, Chained

(* What stat saw is all the stream gave; a partial line is held back.      *)
LEMMA QuietEndOfStream ==
  ASSUME IInv, Quiet, NEW p \in Passes, EndOfStream(p), ~raced'
  PROVE  Quiet'
<1>1. /\ TypeOK /\ JournalOK /\ offset \in Nat
      /\ \A o : AtLineEnd(ends, o) => o \in Nat /\ o <= LastEnd
  BY QuietFacts
<1>2. /\ pc[p] = "stream" /\ pc' = [pc EXCEPT ![p] = "last"]
      /\ UNCHANGED <<reader, ends, offset, chain, stat, done, tracker>>
      /\ pos[p] = size /\ pos[p] = stat[p]
  BY DEF EndOfStream, Goto, journal, database
<1>3. \A q \in Passes \ {p} : pc[q] = "idle"
  BY <1>2, OthersIdle
<1>4. Tracked(p) /\ AtLineEnd(ends, done[p]) /\ offset <= done[p] /\ Chained(offset)
  BY <1>2, <1>3 DEF Quiet, QuietPass
<1>5. /\ LastEnd = FinalEnd(ends) /\ FinalEnd(ends) <= size /\ FinalEnd(ends) \in Nat
      /\ size \in Nat /\ \A i : LineStart(i) = Begins(ends, i)
      /\ Len(ends) \in Nat /\ AtLineEnd(ends, LastEnd)
  BY <1>1, JournalFacts, EndFacts DEF Positions, AtLineEnd
<1>6. pos'[p] = stat[p] - tail'[p] /\ AtLineEnd(ends, pos'[p]) /\ done[p] <= pos'[p]
  <2>1. CASE \E k \in 1..Len(ends) : ends[k] = stat[p]
    <3>1. pos'[p] = size /\ tail'[p] = 0
      BY <1>1, <1>2, <2>1 DEF EndOfStream, TypeOK
    <3>2. AtLineEnd(ends, size)
      BY <1>2, <1>5, <2>1 DEF AtLineEnd, EndsAt
    <3>3. done[p] \in Nat /\ done[p] <= size
      BY <1>1, <1>4, <1>5
    <3> QED
      <4>1. pos'[p] = stat[p] - tail'[p]
        <5>1. stat[p] = size /\ size \in Int
          BY <1>2, <1>5
        <5> QED
          BY <3>1, <5>1
      <4>2. AtLineEnd(ends, pos'[p])
        BY <3>1, <3>2, Zenon
      <4> QED
        BY <3>1, <3>3, <4>1, <4>2
  <2>2. CASE ~\E k \in 1..Len(ends) : ends[k] = stat[p]
    <3>1. ~(ends # <<>> /\ pos[p] = LastEnd)
      <4>1. ends # <<>> => Len(ends) \in 1..Len(ends) /\ ends[Len(ends)] = LastEnd
        BY <1>1, <1>5, EmptySeq DEF TypeOK, LastEnd
      <4> QED
        BY <1>2, <2>2, <4>1
    <3>2. LineStart(Len(ends) + 1) = LastEnd
      BY <1>5 DEF Begins, FinalEnd
    <3>3. ~(LastEnd < done[p]) /\ done[p] \in Nat
      BY <1>1, <1>4, <1>5
    <3>4. pos'[p] = LastEnd /\ tail'[p] = pos[p] - LastEnd
      BY <1>1, <2>2, <3>1, <3>2, <3>3 DEF EndOfStream, TypeOK
    <3> QED
      BY <1>2, <1>5, <3>3, <3>4
  <2> QED
    BY <2>1, <2>2
<1>7. pc'[p] = "last"
  BY <1>1, <1>2 DEF TypeOK
<1>8. QuietPass(p)'
  BY <1>2, <1>4, <1>6, <1>7 DEF QuietPass, Tracked
<1> QED
  BY <1>1, <1>2, <1>3, <1>4, <1>8, OnlyThisPass DEF Quiet, Chained

LEMMA QuietLastBatch == ASSUME IInv, Quiet, NEW p \in Passes, LastBatch(p) PROVE Quiet'
<1>1. /\ TypeOK /\ JournalOK /\ offset \in Nat
      /\ \A o : AtLineEnd(ends, o) => o \in Nat /\ o <= LastEnd
  BY QuietFacts
<1>2. /\ pc[p] = "last" /\ pc' = [pc EXCEPT ![p] = "flush"]
      /\ UNCHANGED <<reader, ends, offset, chain, stat, pos, tail>>
      /\ StoreLines(p, done[p], pos[p]) /\ done' = [done EXCEPT ![p] = pos[p]]
  BY DEF LastBatch, Goto, journal
<1>3. \A q \in Passes \ {p} : pc[q] = "idle"
  BY <1>2, OthersIdle
<1>4. /\ Tracked(p) /\ AtLineEnd(ends, done[p]) /\ offset <= done[p] /\ Chained(offset)
      /\ done[p] <= pos[p] /\ pos[p] = stat[p] - tail[p] /\ AtLineEnd(ends, pos[p])
  BY <1>2, <1>3 DEF Quiet, QuietPass
<1>5. done'[p] = pos[p] /\ pc'[p] = "flush"
  BY <1>1, <1>2 DEF TypeOK
<1>6. Tracked(p)'
  BY <1>1, <1>2, <1>4, <1>5, BatchTracked
<1>7. offset' <= done'[p]
  BY <1>1, <1>2, <1>4, <1>5
<1>8. QuietPass(p)'
  BY <1>2, <1>4, <1>5, <1>6, <1>7 DEF QuietPass
<1> QED
  BY <1>1, <1>2, <1>3, <1>4, <1>8, OnlyThisPass DEF Quiet, Chained

(* A tracker that fed no line leaves the row as it was, at the offset the  *)
(* pass is about to store.                                                 *)
LEMMA QuietFlush == ASSUME IInv, Quiet, NEW p \in Passes, FlushChain(p) PROVE Quiet'
<1>1. /\ TypeOK /\ offset \in Nat
      /\ \A o, n : EndsAt(ends, o, n) => o \in Nat /\ n \in Nat /\ (n = 0 <=> o = 0)
  BY QuietFacts
<1>2. pc[p] = "flush" /\ UNCHANGED <<reader, ends, offset, stat, done, tail, tracker>>
  BY DEF FlushChain, journal, cursor
<1>3. \A q \in Passes \ {p} : pc[q] = "idle"
  BY <1>2, OthersIdle
<1>4. /\ Tracked(p) /\ AtLineEnd(ends, done[p]) /\ offset <= done[p] /\ Chained(offset)
      /\ done[p] = stat[p] - tail[p]
  BY <1>2, <1>3 DEF Quiet, QuietPass
<1>5. CASE reader = "native"
  <2>1. pc' = [pc EXCEPT ![p] = "offset"] /\ pc'[p] = "offset"
    BY <1>1, <1>5 DEF FlushChain, Goto, TypeOK
  <2>2. tracker[p].live /\ ~tracker[p].broken /\ EndsAt(ends, done[p], tracker[p].last)
    BY <1>4, <1>5 DEF Tracked
  <2>3. ~chain'.broken /\ EndsAt(ends, done[p], chain'.last)
    <3>1. CASE tracker[p].last > 0
      BY <2>2, <3>1 DEF FlushChain
    <3>2. CASE ~(tracker[p].last > 0)
      <4>1. done[p] = 0 /\ chain' = chain
        BY <1>1, <2>2, <3>2 DEF FlushChain
      <4>2. offset = done[p]
        BY <1>1, <1>4, <4>1
      <4> QED
        BY <1>4, <1>5, <4>1, <4>2 DEF Chained, Quiet
    <3> QED
      BY <3>1, <3>2
  <2>4. QuietPass(p)'
    BY <1>2, <1>4, <2>1, <2>3 DEF QuietPass, Chained
  <2> QED
    BY <1>1, <1>2, <1>3, <2>1, <2>3, <2>4, OnlyThisPass DEF Quiet
<1>6. CASE reader # "native"
  <2>1. pc' = [pc EXCEPT ![p] = "link"] /\ pc'[p] = "link" /\ chain' = chain
    BY <1>1, <1>4, <1>6 DEF FlushChain, Goto, TypeOK, Tracked
  <2>2. QuietPass(p)' /\ Chained(offset)'
    BY <1>2, <1>4, <1>6, <2>1 DEF QuietPass, Chained
  <2> QED
    BY <1>1, <1>2, <1>3, <2>1, <2>2, OnlyThisPass DEF Quiet
<1> QED
  BY <1>5, <1>6

LEMMA QuietEnding ==
  ASSUME IInv, Quiet, NEW p \in Passes, LinkParent(p) \/ CommitOffset(p) \/ End(p)
  PROVE  Quiet'
<1>1. TypeOK
  BY QuietFacts
<1>2. \A q \in Passes \ {p} : pc[q] = "idle"
  BY OthersIdle DEF LinkParent, CommitOffset, End
<1>3. QuietPass(p)
  BY DEF Quiet
<1>4. CASE LinkParent(p)
  <2>1. /\ pc' = [pc EXCEPT ![p] = "offset"] /\ pc'[p] = "offset"
        /\ UNCHANGED <<reader, ends, offset, chain, stat, tail>>
    BY <1>1, <1>4 DEF LinkParent, Goto, TypeOK, journal, cursor
  <2>2. QuietPass(p)'
    BY <1>3, <1>4, <2>1 DEF LinkParent, QuietPass, Chained
  <2> QED
    BY <1>1, <1>2, <2>1, <2>2, OnlyThisPass DEF Quiet
<1>5. CASE CommitOffset(p)
  <2>1. /\ pc' = [pc EXCEPT ![p] = "end"] /\ pc'[p] = "end" /\ offset' = stat[p] - tail[p]
        /\ UNCHANGED <<reader, ends, chain>>
    BY <1>1, <1>5 DEF CommitOffset, Goto, TypeOK, journal
  <2>2. AtLineEnd(ends, stat[p] - tail[p]) /\ Chained(stat[p] - tail[p])
    BY <1>3, <1>5 DEF CommitOffset, QuietPass
  <2>3. QuietPass(p)' /\ Chained(offset)'
    BY <2>1, <2>2 DEF QuietPass, Chained
  <2> QED
    BY <1>1, <1>2, <2>1, <2>2, <2>3, OnlyThisPass DEF Quiet
<1>6. CASE End(p)
  <2>1. /\ pc' = [pc EXCEPT ![p] = "idle"] /\ pc'[p] = "idle"
        /\ UNCHANGED <<reader, ends, offset, chain>>
    BY <1>1, <1>6 DEF End, Goto, TypeOK, journal, database
  <2>2. QuietPass(p)' /\ Chained(offset)'
    BY <1>2, <1>6, <2>1 DEF End, QuietPass, Chained, Quiet
  <2> QED
    BY <1>1, <1>2, <2>1, <2>2, OnlyThisPass DEF Quiet
<1> QED
  BY <1>4, <1>5, <1>6

(* The process that dies is the one that runs the pass, and that pass had  *)
(* not flushed yet: raced' would say otherwise.                            *)
LEMMA QuietCrash == ASSUME IInv, Quiet, NEW c \in Processes, Crash(c), ~raced' PROVE Quiet'
<1>1. PICK p \in Passes : ProcessOf[p] = c /\ pc[p] \in {"open", "stream"} \cup InSync
  BY DEF Crash
<1>2. pc[p] # "idle" /\ pc[p] \notin {"link", "offset"}
  <2>1. pc[p] \notin {"link", "offset"}
    BY <1>1, Zenon DEF Crash
  <2> QED
    BY <1>1, <2>1 DEF InSync
<1>3. \A q \in Passes \ {p} : pc[q] = "idle"
  BY <1>2, OthersIdle
<1>4. \A q \in Passes : pc'[q] = "idle"
  BY <1>1, <1>3 DEF Crash
<1>5. UNCHANGED <<reader, ends, offset, chain>>
  BY DEF Crash, journal, database
<1>6. Chained(offset)'
  <2>1. \A q \in Passes : pc[q] # "offset"
    BY <1>2, <1>3
  <2> QED
    BY <1>5, <2>1 DEF Quiet, Chained
<1>7. \A q \in Passes : QuietPass(q)'
  BY <1>4 DEF QuietPass
<1> QED
  BY <1>4, <1>5, <1>6, <1>7 DEF Quiet, OneAtATime

(* Nor had the pass that throws.                                           *)
LEMMA QuietThrow == ASSUME IInv, Quiet, NEW p \in Passes, Throw(p), ~raced' PROVE Quiet'
<1>1. TypeOK
  BY QuietFacts
<1>2. pc[p] \in {"open", "stream"} \cup InSync /\ pc[p] \notin {"link", "offset"}
  BY Zenon DEF Throw
<1>3. \A q \in Passes \ {p} : pc[q] = "idle"
  BY <1>2, OthersIdle DEF InSync
<1>4. /\ pc' = [pc EXCEPT ![p] = "end"] /\ pc'[p] = "end"
      /\ UNCHANGED <<reader, ends, offset, chain>>
  BY <1>1 DEF Throw, Goto, TypeOK, journal, database
<1>5. Chained(offset)'
  <2>1. \A q \in Passes : pc[q] # "offset"
    BY <1>2, <1>3
  <2> QED
    BY <1>4, <2>1 DEF Quiet, Chained
<1>6. QuietPass(p)'
  BY <1>4 DEF QuietPass
<1> QED
  BY <1>1, <1>3, <1>4, <1>5, <1>6, OnlyThisPass DEF Quiet

LEMMA RacedStays == ASSUME TypeOK, [Next]_vars, ~raced' PROVE ~raced
<1>1. WriteLine \/ WriteText \/ WriteNewline => UNCHANGED raced
  BY DEF WriteLine, WriteText, WriteNewline
<1>2. ASSUME NEW p \in Passes, PassStep(p) PROVE ~raced
  <2>1. Begin(p) => ~raced
    BY Zenon DEF Begin
  <2>2. EndOfStream(p) => ~raced
    BY Zenon DEF EndOfStream
  <2>3. ~Begin(p) /\ ~EndOfStream(p) => UNCHANGED raced
    BY <1>2 DEF PassStep, Visit, Open, OpenThrows, ReadChunk, CommitBatch, LastBatch,
                FlushChain, LinkParent, CommitOffset, End
  <2> QED
    BY <2>1, <2>2, <2>3
<1>3. ASSUME NEW c \in Processes, Crash(c) PROVE ~raced
  BY <1>3, Zenon DEF Crash
<1>5. ASSUME NEW p \in Passes, Throw(p) PROVE ~raced
  BY <1>5, Zenon DEF Throw
<1>4. UNCHANGED vars => UNCHANGED raced
  BY DEF vars
<1> QED
  BY <1>1, <1>2, <1>3, <1>4, <1>5 DEF Next

LEMMA QuietStep == IInv /\ Quietly /\ [Next]_vars => Quietly'
<1> SUFFICES ASSUME IInv, Quietly, [Next]_vars, ~raced' PROVE Quiet'
  BY DEF Quietly
<1>1. TypeOK /\ Quiet
  BY RacedStays DEF IInv, TInv, Quietly
<1>2. CASE UNCHANGED vars
  <2>1. UNCHANGED <<reader, ends, offset, chain, snapshot, pc, stat, done, pos, tail, tracker>>
    BY <1>2 DEF vars, journal, database, cursor
  <2> QED
    BY <1>1, <2>1 DEF Quiet, OneAtATime, QuietPass, Chained, Tracked
<1>3. CASE WriteLine \/ WriteText \/ WriteNewline
  BY <1>1, <1>3, QuietWriter
<1>4. ASSUME NEW p \in Passes, PassStep(p) PROVE Quiet'
  BY <1>1, <1>4, QuietBegin, QuietVisit, QuietOpen, QuietReadChunk, QuietCommitBatch,
     QuietEndOfStream, QuietLastBatch, QuietFlush, QuietEnding DEF PassStep
<1>5. ASSUME NEW c \in Processes, Crash(c) PROVE Quiet'
  BY <1>1, <1>5, QuietCrash
<1>6. ASSUME NEW p \in Passes, Throw(p) PROVE Quiet'
  BY <1>1, <1>6, QuietThrow
<1> QED
  BY <1>2, <1>3, <1>4, <1>5, <1>6 DEF Next

LEMMA QuietInit == Init => Quietly
<1> SUFFICES ASSUME Init PROVE Quiet
  BY DEF Quietly
<1>1. EndsAt(ends, 0, 0)
  BY TypeInit, LenProperties DEF TInv, TypeOK, EndsAt
<1>2. AtLineEnd(ends, offset) /\ Chained(offset) /\ ~chain.broken
  BY <1>1 DEF Init, NoChain, AtLineEnd, Chained
<1>3. \A p \in Passes : pc[p] = "idle"
  BY DEF Init
<1> QED
  BY <1>2, <1>3 DEF Quiet, OneAtATime, QuietPass

LEMMA QuietMeans ==
  ASSUME TypeOK, JournalOK, Quietly
  PROVE  OffsetAtLineEnd /\ BreakOnlyAfterRace
<1>1. AtLineEnd(ends, offset) => offset = 0 \/ \E k \in 1..Len(ends) : ends[k] = offset
  BY LenProperties DEF AtLineEnd, EndsAt, TypeOK
<1> QED
  BY <1>1 DEF Quietly, Quiet, OffsetAtLineEnd, BreakOnlyAfterRace

LEMMA AlwaysQuiet == Spec => [](OffsetAtLineEnd /\ BreakOnlyAfterRace)
<1>1. Init => IInv /\ Quietly
  BY InvariantInit, QuietInit
<1>2. IInv /\ Quietly /\ [Next]_vars => (IInv /\ Quietly)'
  BY InvariantStep, QuietStep
<1>3. IInv /\ Quietly => OffsetAtLineEnd /\ BreakOnlyAfterRace
  BY QuietMeans DEF IInv, TInv
<1> QED
  BY <1>1, <1>2, <1>3, PTL DEF Spec

(* As long as nothing raced, the offset a pass stores is the end of a      *)
(* complete line of the journal, however the writer cut its lines.         *)
THEOREM OffsetBetweenLines == Spec => []OffsetAtLineEnd
<1>1. OffsetAtLineEnd /\ BreakOnlyAfterRace => OffsetAtLineEnd
  OBVIOUS
<1> QED
  BY <1>1, AlwaysQuiet, PTL

(* The verifier never records a break for an honest journal unless the     *)
(* file grew between stat and read, passes overlapped, or a process died   *)
(* between flush and offset: a partial line, a batch boundary, a resume,   *)
(* or a death elsewhere is not enough.                                     *)
THEOREM NoBreakWithoutRace == Spec => []BreakOnlyAfterRace
<1>1. OffsetAtLineEnd /\ BreakOnlyAfterRace => BreakOnlyAfterRace
  OBVIOUS
<1> QED
  BY <1>1, AlwaysQuiet, PTL
=============================================================================
