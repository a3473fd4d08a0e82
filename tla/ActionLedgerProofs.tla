------------------------- MODULE ActionLedgerProofs -------------------------
(***************************************************************************)
(* Theorems about ActionLedger, for every number of processes, blocks,     *)
(* resets, requests and aborts: what the two cursors declare done is done, *)
(* a call is flagged for the sightings of its output, only a reset can     *)
(* make a credential silent, an alert counts its sightings, and a session  *)
(* has one open alert per kind.                                            *)
(***************************************************************************)
EXTENDS ActionLedger, SequenceTheorems, FiniteSetTheorems, WellFoundedInduction, TLAPS

(* What the walks know is said of values, so that it can be carried over a *)
(* step: bl, led, sn, rs and tn stand for blocks, ledger, seen, resetAt    *)
(* and torn.                                                               *)

OpShape == [pc : {"idle", "check", "reset", "cursors", "max", "calls", "record", "save"},
            at : {"head", "fill", "rebuild", "status"}, then : {"fill", "stop"},
            lo : Nat, hi : Nat, end : Nat, left : Int, stale : BOOLEAN]

Classified(b, bl, led) == bl[b].call => b \in led
Covered(b, bl, led, sn) == /\ Classified(b, bl, led)
                           /\ bl[b].secrets # {} => b \in sn

(* The window of a walk is known to be stored.  What the head scan has     *)
(* passed since the reset is covered; so is what a backfill has passed,    *)
(* unless a reset came after it read its cursor.                           *)
Windowed(o, bl, rs) ==
  /\ o.at \in {"head", "fill"} /\ o.lo <= o.hi /\ o.hi <= Len(bl)
  /\ o.at = "head" => o.end <= Len(bl)
  /\ o.at = "fill" => o.hi <= rs

Passed(o, bl, led, sn, rs, tn) ==
  /\ o.at = "head" => \A b \in 1..Len(bl) : b > rs /\ b <= o.lo => Covered(b, bl, led, sn)
  /\ o.at = "fill" /\ ~o.stale =>
       \A b \in 1..Len(bl) : b <= rs /\ b > o.hi => tn \/ Covered(b, bl, led, sn)

Counts(o, b, rs) == IF o.at = "head" THEN b > rs ELSE ~o.stale

Sound(o, bl, led, sn, rs, tn) ==
  /\ o \in OpShape
  /\ o.pc = "max" => /\ o.at = "head" /\ o.lo <= Len(bl)
                     /\ Passed(o, bl, led, sn, rs, tn)
  /\ o.pc \in {"calls", "record", "save"} =>
       Windowed(o, bl, rs) /\ Passed(o, bl, led, sn, rs, tn)
  /\ o.pc = "record" => \A b \in (o.lo + 1)..o.hi : Counts(o, b, rs) => Classified(b, bl, led)
  /\ o.pc = "save" => \A b \in (o.lo + 1)..o.hi : Counts(o, b, rs) => Covered(b, bl, led, sn)

Ground ==
  /\ blocks \in Seq(BlockType) /\ op \in [Procs -> OpShape]
  /\ head \in Nat /\ below \in Nat \ {0} /\ resetAt \in Nat /\ torn \in BOOLEAN
  /\ head <= maxBlockId /\ resetAt <= maxBlockId /\ below <= resetAt + 1
  /\ ledger \subseteq 1..maxBlockId /\ seen \subseteq 1..maxBlockId

HeadDone == \A b \in 1..maxBlockId :
              b > resetAt /\ b <= head => Covered(b, blocks, ledger, seen)
FillDone == \A b \in 1..maxBlockId :
              b <= resetAt /\ b >= below => torn \/ Covered(b, blocks, ledger, seen)
Walks    == \A p \in Procs : Sound(op[p], blocks, ledger, seen, resetAt, torn)

IInv == /\ Ground /\ HeadDone /\ FillDone /\ Walks
        /\ FlagMatchesSightings /\ HistoryOnlyByReset

LEMMA IdleShape == Idle \in OpShape /\ Idle.pc = "idle"
BY DEF Idle, OpShape

(* An operation that has not read a cursor knows nothing that could be     *)
(* wrong.                                                                  *)
LEMMA Quiet ==
  ASSUME NEW o \in OpShape, o.pc \in {"idle", "check", "reset", "cursors"},
         NEW bl, NEW led, NEW sn, NEW rs, NEW tn
  PROVE  Sound(o, bl, led, sn, rs, tn)
BY DEF Sound

(* What a walk knows stays true while blocks are appended, and while the   *)
(* ledger and the sightings grow, as long as no reset comes.               *)
LEMMA BlocksGrow ==
  ASSUME NEW o, NEW bl, NEW led, NEW sn, NEW rs, NEW tn,
         NEW bl2,
         Len(bl) \in Nat, Len(bl2) \in Nat, Len(bl) <= Len(bl2), rs \in Nat, rs <= Len(bl),
         \A b \in 1..Len(bl) : bl2[b] = bl[b],
         Sound(o, bl, led, sn, rs, tn)
  PROVE  Sound(o, bl2, led, sn, rs, tn)
<1>1. /\ o \in OpShape /\ o.lo \in Nat /\ o.hi \in Nat /\ o.end \in Nat
  BY DEF Sound, OpShape
<1>2. \A b \in 1..Len(bl) : /\ Covered(b, bl, led, sn) => Covered(b, bl2, led, sn)
                            /\ Classified(b, bl, led) => Classified(b, bl2, led)
  BY DEF Covered, Classified
<1>3. ASSUME Passed(o, bl, led, sn, rs, tn), o.lo <= Len(bl)
      PROVE  Passed(o, bl2, led, sn, rs, tn)
  BY <1>1, <1>2, <1>3 DEF Passed
<1>4. ASSUME Windowed(o, bl, rs)
      PROVE  Windowed(o, bl2, rs) /\ o.lo <= Len(bl) /\ (o.lo + 1)..o.hi \subseteq 1..Len(bl)
  BY <1>1, <1>4 DEF Windowed
<1>5. o.pc = "max" => /\ o.at = "head" /\ o.lo <= Len(bl2)
                      /\ Passed(o, bl2, led, sn, rs, tn)
  BY <1>1, <1>3 DEF Sound
<1>6. o.pc \in {"calls", "record", "save"} =>
        Windowed(o, bl2, rs) /\ Passed(o, bl2, led, sn, rs, tn)
  BY <1>3, <1>4 DEF Sound
<1>7. o.pc = "record" => \A b \in (o.lo + 1)..o.hi : Counts(o, b, rs) => Classified(b, bl2, led)
  BY <1>2, <1>4 DEF Sound
<1>8. o.pc = "save" => \A b \in (o.lo + 1)..o.hi : Counts(o, b, rs) => Covered(b, bl2, led, sn)
  BY <1>2, <1>4 DEF Sound
<1> QED
  BY <1>1, <1>5, <1>6, <1>7, <1>8 DEF Sound

LEMMA StoreGrows ==
  ASSUME NEW o, NEW bl, NEW led, NEW sn, NEW rs, NEW tn,
         NEW led2, NEW sn2,
         Len(bl) \in Nat, rs \in Nat, rs <= Len(bl),
         led \subseteq led2, sn \subseteq sn2,
         Sound(o, bl, led, sn, rs, tn)
  PROVE  Sound(o, bl, led2, sn2, rs, tn)
<1>1. /\ o \in OpShape /\ o.lo \in Nat /\ o.hi \in Nat /\ o.end \in Nat
  BY DEF Sound, OpShape
<1>2. \A b \in 1..Len(bl) : /\ Covered(b, bl, led, sn) => Covered(b, bl, led2, sn2)
                            /\ Classified(b, bl, led) => Classified(b, bl, led2)
  BY DEF Covered, Classified
<1>3. ASSUME Passed(o, bl, led, sn, rs, tn), o.lo <= Len(bl)
      PROVE  Passed(o, bl, led2, sn2, rs, tn)
  BY <1>1, <1>2, <1>3 DEF Passed
<1>4. ASSUME Windowed(o, bl, rs)
      PROVE  Windowed(o, bl, rs) /\ o.lo <= Len(bl) /\ (o.lo + 1)..o.hi \subseteq 1..Len(bl)
  BY <1>1, <1>4 DEF Windowed
<1>5. o.pc = "max" => /\ o.at = "head" /\ o.lo <= Len(bl)
                      /\ Passed(o, bl, led2, sn2, rs, tn)
  BY <1>1, <1>3 DEF Sound
<1>6. o.pc \in {"calls", "record", "save"} =>
        Windowed(o, bl, rs) /\ Passed(o, bl, led2, sn2, rs, tn)
  BY <1>3, <1>4 DEF Sound
<1>7. o.pc = "record" => \A b \in (o.lo + 1)..o.hi : Counts(o, b, rs) => Classified(b, bl, led2)
  BY <1>2, <1>4 DEF Sound
<1>8. o.pc = "save" => \A b \in (o.lo + 1)..o.hi : Counts(o, b, rs) => Covered(b, bl, led2, sn2)
  BY <1>2, <1>4 DEF Sound
<1> QED
  BY <1>1, <1>5, <1>6, <1>7, <1>8 DEF Sound

LEMMA TornGrows ==
  ASSUME NEW o, NEW bl, NEW led, NEW sn, NEW rs, NEW tn, NEW tn2, tn => tn2,
         Sound(o, bl, led, sn, rs, tn)
  PROVE  Sound(o, bl, led, sn, rs, tn2)
BY DEF Sound, Passed

(* After a reset nothing up to the last block counts as done.              *)
LEMMA AfterReset ==
  ASSUME NEW o, NEW bl, NEW led, NEW sn, NEW rs, NEW tn, NEW led2, NEW tn2, NEW rs2,
         Len(bl) \in Nat, rs \in Nat, rs <= Len(bl), rs2 = Len(bl), Sound(o, bl, led, sn, rs, tn)
  PROVE  Sound([o EXCEPT !.stale = Walking(o)], bl, led2, sn, rs2, tn2)
<1> DEFINE o2 == [o EXCEPT !.stale = Walking(o)]
<1>1. /\ o \in OpShape /\ o.lo \in Nat /\ o.hi \in Nat /\ o.end \in Nat
  BY DEF Sound, OpShape
<1>2. /\ o2 \in OpShape /\ o2.pc = o.pc /\ o2.at = o.at /\ o2.lo = o.lo /\ o2.hi = o.hi
      /\ o2.end = o.end /\ o2.stale = (o.pc \in {"max", "calls", "record", "save"})
  <2>1. ASSUME NEW w \in BOOLEAN
        PROVE  LET x == [o EXCEPT !.stale = w]
               IN /\ x \in OpShape /\ x.pc = o.pc /\ x.at = o.at /\ x.lo = o.lo /\ x.hi = o.hi
                  /\ x.end = o.end /\ x.stale = w
    BY <1>1 DEF OpShape
  <2>2. Walking(o) \in BOOLEAN
    BY DEF Walking
  <2> QED
    BY <2>1, <2>2 DEF Walking
<1> HIDE DEF o2
<1>3. CASE o.pc \in {"idle", "check", "reset", "cursors"}
  BY <1>2, <1>3, Quiet DEF o2
<1>4. CASE o.pc \in {"max", "calls", "record", "save"}
  <2>1. o2.stale
    BY <1>2, <1>4
  <2>2. o2.lo <= Len(bl) => Passed(o2, bl, led2, sn, rs2, tn2)
    BY <1>1, <1>2, <2>1 DEF Passed
  <2>3. ASSUME Windowed(o, bl, rs)  PROVE Windowed(o2, bl, rs2) /\ o2.lo <= Len(bl)
    BY <1>1, <1>2, <2>3 DEF Windowed
  <2>4. \A b \in (o2.lo + 1)..o2.hi : o2.hi <= Len(bl) => ~Counts(o2, b, rs2)
    BY <1>1, <1>2, <2>1 DEF Counts
  <2>5. o.pc # "max" => Windowed(o, bl, rs)
    BY <1>4 DEF Sound
  <2>6. o.pc # "max" => o2.hi <= Len(bl)
    BY <1>2, <2>5 DEF Windowed
  <2>7. o.pc = "max" => o.at = "head" /\ o.lo <= Len(bl)
    BY DEF Sound
  <2> QED
    BY <1>2, <2>2, <2>3, <2>4, <2>5, <2>6, <2>7 DEF Sound, o2
<1> QED
  BY <1>1, <1>3, <1>4 DEF OpShape, o2

(* The next window of the head scan, or the end of the scan.               *)
LEMMA AfterHeadSound ==
  ASSUME NEW o \in OpShape, NEW bl, NEW led, NEW sn, NEW rs, NEW tn,
         Len(bl) \in Nat, o.at = "head", o.lo <= Len(bl), o.end <= Len(bl),
         Passed(o, bl, led, sn, rs, tn)
  PROVE  Sound(AfterHead(o), bl, led, sn, rs, tn)
<1>1. CASE o.lo < o.end /\ o.left > 0
  <2> DEFINE h == Lesser(o.lo + Chunk, o.end)
             x == [o EXCEPT !.pc = "calls", !.hi = h]
  <2>1. h \in Nat /\ o.lo <= h /\ h <= Len(bl) /\ o.lo \in Nat /\ o.end \in Nat
    BY <1>1, ConstantsAssumption DEF Lesser, OpShape
  <2> HIDE DEF h
  <2>2. /\ x \in OpShape /\ x.pc = "calls" /\ x.at = "head" /\ x.lo = o.lo /\ x.hi = h
        /\ x.end = o.end
    BY <2>1 DEF OpShape
  <2>3. AfterHead(o) = x
    BY <1>1 DEF AfterHead, h
  <2> HIDE DEF x
  <2> QED
    BY <2>1, <2>2, <2>3 DEF Sound, Windowed, Passed
<1>2. CASE ~(o.lo < o.end /\ o.left > 0)
  <2>1. AfterHead(o) \in {[Idle EXCEPT !.pc = "check", !.at = "fill"], Idle}
    BY <1>2 DEF AfterHead
  <2>2. LET x == [Idle EXCEPT !.pc = "check", !.at = "fill"]
        IN x \in OpShape /\ x.pc = "check"
    BY IdleShape DEF OpShape
  <2>3. AfterHead(o) \in OpShape /\ AfterHead(o).pc \in {"idle", "check"}
    BY <2>1, <2>2, IdleShape
  <2> QED
    BY <2>3, Quiet
<1> QED
  BY <1>1, <1>2

(* The next chunk of the backfill.                                         *)
LEMMA ChunkedSound ==
  ASSUME NEW o \in OpShape, NEW bl, NEW led, NEW sn, NEW rs, NEW tn,
         Len(bl) \in Nat, rs \in Nat, rs <= Len(bl),
         o.at = "fill", o.end <= o.hi, o.hi <= rs,
         ~o.stale => \A b \in 1..Len(bl) : b <= rs /\ b > o.hi => tn \/ Covered(b, bl, led, sn)
  PROVE  Sound(Chunked(o), bl, led, sn, rs, tn)
<1> DEFINE l == Greater(o.end, o.hi - Chunk)
           x == [o EXCEPT !.pc = "calls", !.lo = l]
<1>1. l \in Nat /\ l <= o.hi /\ o.hi \in Nat /\ o.end \in Nat
  BY ConstantsAssumption DEF Greater, OpShape
<1> HIDE DEF l
<1>2. /\ x \in OpShape /\ x.pc = "calls" /\ x.at = "fill" /\ x.lo = l /\ x.hi = o.hi
      /\ x.stale = o.stale
  BY <1>1 DEF OpShape
<1>3. Chunked(o) = x
  BY DEF Chunked, l
<1> HIDE DEF x
<1> QED
  BY <1>1, <1>2, <1>3 DEF Sound, Windowed, Passed

------------------------------------------------------------------------------
(* What every step may use, and what most steps leave alone.               *)

LEMMA Lengths ==
  ASSUME Ground
  PROVE  Len(blocks) \in Nat /\ maxBlockId = Len(blocks)
BY LenProperties DEF Ground, maxBlockId

LEMMA InitInv == Init => IInv
<1> SUFFICES ASSUME Init PROVE IInv
  OBVIOUS
<1>1. blocks = <<>> /\ Len(blocks) = 0 /\ maxBlockId = 0 /\ blocks \in Seq(BlockType)
  BY DEF Init, maxBlockId
<1>2. Ground
  <2>1. op \in [Procs -> OpShape]
    BY IdleShape DEF Init
  <2> QED
    <3>1. head = 0 /\ below = 1 /\ resetAt = 0 /\ torn = FALSE /\ ledger = {} /\ seen = {}
      BY DEF Init
    <3> QED
      <4>1. head \in Nat /\ below \in Nat \ {0} /\ resetAt \in Nat /\ head <= maxBlockId
            /\ resetAt <= maxBlockId /\ below <= resetAt + 1
        BY <1>1, <3>1
      <4>2. ledger \subseteq 1..maxBlockId /\ seen \subseteq 1..maxBlockId
        BY <3>1
      <4>3. torn \in BOOLEAN
        BY <3>1
      <4> QED
        BY <1>1, <2>1, <4>1, <4>2, <4>3 DEF Ground
<1>3. Walks
  BY IdleShape, Quiet DEF Init, Walks
<1>4. HeadDone /\ FillDone
  BY <1>1 DEF HeadDone, FillDone
<1>5. FlagMatchesSightings /\ HistoryOnlyByReset
  BY DEF Init, FlagMatchesSightings, HistoryOnlyByReset, SightedOutput
<1> QED
  BY <1>2, <1>3, <1>4, <1>5 DEF IInv

(* A step that moves one operation, and neither the store nor the cursors. *)
LEMMA OnlyOp ==
  ASSUME IInv, NEW p \in Procs, NEW o \in OpShape, op' = [op EXCEPT ![p] = o],
         Sound(o, blocks, ledger, seen, resetAt, torn),
         UNCHANGED <<blocks, head, below, ledger, flagged, seen, announced, resetAt, torn>>
  PROVE  IInv'
<1>1. op' \in [Procs -> OpShape] /\ \A q \in Procs : op'[q] = IF q = p THEN o ELSE op[q]
  BY DEF IInv, Ground
<1>2. Walks'
  <2> SUFFICES ASSUME NEW q \in Procs
               PROVE  Sound(op'[q], blocks', ledger', seen', resetAt', torn')
    BY DEF Walks
  <2> QED
    BY <1>1 DEF IInv, Walks
<1>3. Ground'
  BY <1>1 DEF IInv, Ground, maxBlockId
<1>4. HeadDone' /\ FillDone' /\ FlagMatchesSightings' /\ HistoryOnlyByReset'
  BY DEF IInv, HeadDone, FillDone, FlagMatchesSightings, HistoryOnlyByReset, SightedOutput,
         Answers, maxBlockId
<1> QED
  BY <1>2, <1>3, <1>4 DEF IInv

(* A step that adds to the ledger or the sightings, and moves one          *)
(* operation.                                                              *)
LEMMA Adds ==
  ASSUME IInv, NEW p \in Procs, NEW o \in OpShape, op' = [op EXCEPT ![p] = o],
         ledger \subseteq ledger', ledger' \subseteq 1..maxBlockId,
         seen \subseteq seen', seen' \subseteq 1..maxBlockId,
         flagged' = SightedOutput(ledger', seen'),
         \A b \in seen' \ announced' : b <= resetAt,
         Sound(o, blocks, ledger', seen', resetAt, torn),
         UNCHANGED <<blocks, head, below, resetAt, torn>>
  PROVE  IInv'
<1>1. op' \in [Procs -> OpShape] /\ \A q \in Procs : op'[q] = IF q = p THEN o ELSE op[q]
  BY DEF IInv, Ground
<1>2. Len(blocks) \in Nat /\ maxBlockId = Len(blocks) /\ resetAt \in Nat /\ resetAt <= Len(blocks)
  BY Lengths DEF IInv, Ground
<1>3. Walks'
  <2> SUFFICES ASSUME NEW q \in Procs
               PROVE  Sound(op'[q], blocks', ledger', seen', resetAt', torn')
    BY DEF Walks
  <2>1. Sound(op[q], blocks, ledger, seen, resetAt, torn)
    BY DEF IInv, Walks
  <2>2. Sound(op[q], blocks, ledger', seen', resetAt, torn)
    BY <1>2, <2>1, StoreGrows
  <2> QED
    BY <1>1, <2>2
<1>4. Ground'
  BY <1>1 DEF IInv, Ground, maxBlockId
<1>5. HeadDone' /\ FillDone'
  BY DEF IInv, HeadDone, FillDone, Covered, Classified, maxBlockId
<1>6. FlagMatchesSightings' /\ HistoryOnlyByReset'
  BY DEF FlagMatchesSightings, HistoryOnlyByReset, SightedOutput, Answers
<1> QED
  BY <1>3, <1>4, <1>5, <1>6 DEF IInv

LEMMA ArriveStep ==
  ASSUME IInv, Arrive
  PROVE  IInv'
<1>1. PICK f \in Feeds : /\ Len(f) > maxBlockId
                         /\ blocks' = Append(blocks, f[maxBlockId + 1])
  BY DEF Arrive
<1>2. UNCHANGED <<head, below, ledger, flagged, seen, announced, op, resetAt, torn>>
  BY DEF Arrive, settings, secrets, history
<1>3. Len(blocks) \in Nat /\ maxBlockId = Len(blocks) /\ resetAt \in Nat /\ resetAt <= Len(blocks)
      /\ head <= Len(blocks) /\ head \in Nat
  BY Lengths DEF IInv, Ground
<1>4. f[maxBlockId + 1] \in BlockType
  BY <1>1, <1>3, ConstantsAssumption
<1>5. /\ blocks' \in Seq(BlockType) /\ Len(blocks') = Len(blocks) + 1
      /\ \A b \in 1..Len(blocks) : blocks'[b] = blocks[b]
  BY <1>1, <1>4, AppendProperties DEF IInv, Ground
<1>6. maxBlockId' = Len(blocks') /\ maxBlockId' \in Nat
  BY <1>3, <1>5 DEF maxBlockId
<1>7. Walks'
  <2> SUFFICES ASSUME NEW q \in Procs
               PROVE  Sound(op'[q], blocks', ledger', seen', resetAt', torn')
    BY DEF Walks
  <2>1. Sound(op[q], blocks, ledger, seen, resetAt, torn)
    BY DEF IInv, Walks
  <2>2. Sound(op[q], blocks', ledger, seen, resetAt, torn)
    BY <1>3, <1>5, <2>1, BlocksGrow
  <2> QED
    BY <1>2, <2>2
<1>8. Ground'
  BY <1>2, <1>3, <1>5, <1>6 DEF IInv, Ground
<1>9. HeadDone' /\ FillDone'
  <2>1. \A b \in 1..maxBlockId' : b \in 1..maxBlockId \/ (b > resetAt /\ b > head)
    BY <1>3, <1>5, <1>6
  <2>2. \A b \in 1..maxBlockId :
          Covered(b, blocks, ledger, seen) => Covered(b, blocks', ledger, seen)
    BY <1>3, <1>5 DEF Covered, Classified
  <2>3. HeadDone'
    BY <1>2, <1>3, <1>6, <2>1, <2>2 DEF IInv, HeadDone
  <2>4. FillDone'
    BY <1>2, <1>3, <1>6, <2>1, <2>2 DEF IInv, FillDone
  <2> QED
    BY <2>3, <2>4
<1>10. FlagMatchesSightings'
  <2>1. \A r \in seen, c \in ledger : Answers(r, c)' <=> Answers(r, c)
    BY <1>3, <1>5 DEF IInv, Ground, Answers
  <2>2. SightedOutput(ledger, seen)' = SightedOutput(ledger, seen)
    BY <1>2, <2>1 DEF SightedOutput
  <2> QED
    BY <1>2, <2>2 DEF IInv, FlagMatchesSightings
<1>11. HistoryOnlyByReset'
  BY <1>2 DEF IInv, HistoryOnlyByReset
<1> QED
  BY <1>7, <1>8, <1>9, <1>10, <1>11 DEF IInv

LEMMA QuietStep ==
  ASSUME IInv, NEW p \in Procs, NEW o \in OpShape, o.pc \in {"idle", "check", "reset", "cursors"},
         op' = [op EXCEPT ![p] = o],
         UNCHANGED <<blocks, head, below, ledger, flagged, seen, announced, resetAt, torn>>
  PROVE  IInv'
<1>1. Sound(o, blocks, ledger, seen, resetAt, torn)
  BY Quiet
<1> QED
  BY <1>1, OnlyOp

LEMMA BeginStep ==
  ASSUME IInv, NEW p \in Procs, Begin(p)
  PROVE  IInv'
<1>1. PICK t \in {"fill", "stop"} :
        op' = [op EXCEPT ![p] = [[Idle EXCEPT !.then = t] EXCEPT !.pc = "check"]]
  <2>1. Idle = [Idle EXCEPT !.then = "stop"]
    BY DEF Idle
  <2> QED
    BY <2>1 DEF Begin, Start
<1>2. LET o == [[Idle EXCEPT !.then = t] EXCEPT !.pc = "check"]
      IN o \in OpShape /\ o.pc = "check"
  BY <1>1, IdleShape DEF OpShape
<1> QED
  BY <1>1, <1>2, QuietStep DEF Begin, settings, secrets, history

LEMMA RequestStep ==
  ASSUME IInv, NEW p \in Procs, NEW at \in {"status", "head", "rebuild"}, Request(p, at)
  PROVE  IInv'
<1> DEFINE t == IF at = "status" THEN "stop" ELSE "fill"
           o == [[Idle EXCEPT !.at = at, !.then = t] EXCEPT !.pc = "check"]
<1>1. op' = [op EXCEPT ![p] = o]
  BY DEF Request, Start
<1> t \in {"fill", "stop"}
  OBVIOUS
<1> HIDE DEF t
<1>2. o \in OpShape /\ o.pc = "check"
  BY IdleShape DEF OpShape
<1> HIDE DEF o
<1> QED
  BY <1>1, <1>2, QuietStep DEF Request, secrets, history

LEMMA AbortStep ==
  ASSUME IInv, NEW p \in Procs, Abort(p)
  PROVE  IInv'
BY IdleShape, QuietStep DEF Abort, settings, secrets, history

LEMMA CheckStep ==
  ASSUME IInv, NEW p \in Procs, Check(p)
  PROVE  IInv'
<1> DEFINE o == [op[p] EXCEPT !.pc = IF rules THEN "cursors" ELSE "reset"]
<1>1. op' = [op EXCEPT ![p] = o]
  BY DEF Check, IInv, Ground
<1>2. o \in OpShape /\ o.pc \in {"cursors", "reset"}
  BY DEF IInv, Ground, OpShape
<1> HIDE DEF o
<1> QED
  BY <1>1, <1>2, QuietStep DEF Check, settings, secrets, history

LEMMA ResetStep ==
  ASSUME IInv, NEW p \in Procs, Reset(p)
  PROVE  IInv'
<1>1. /\ op[p].pc = "reset"
      /\ ledger' = {} /\ flagged' = {} /\ head' = maxBlockId /\ below' = maxBlockId + 1
      /\ resetAt' = maxBlockId /\ torn' = FALSE
      /\ op' = [q \in Procs |-> IF q = p THEN [op[p] EXCEPT !.pc = "cursors"]
                                ELSE [op[q] EXCEPT !.stale = Walking(op[q])]]
      /\ UNCHANGED <<blocks, seen, announced>>
  BY DEF Reset, secrets
<1>2. /\ Len(blocks) \in Nat /\ maxBlockId = Len(blocks) /\ resetAt \in Nat
      /\ resetAt <= Len(blocks) /\ maxBlockId' = maxBlockId
  BY <1>1, Lengths DEF IInv, Ground, maxBlockId
<1>3. /\ [op[p] EXCEPT !.pc = "cursors"] \in OpShape
      /\ [op[p] EXCEPT !.pc = "cursors"].pc = "cursors"
  BY DEF IInv, Ground, OpShape
<1>4. Walks'
  <2> SUFFICES ASSUME NEW q \in Procs
               PROVE  Sound(op'[q], blocks', ledger', seen', resetAt', torn')
    BY DEF Walks
  <2>1. CASE q = p
    BY <1>1, <1>3, <2>1, Quiet
  <2>2. CASE q # p
    <3>1. Sound(op[q], blocks, ledger, seen, resetAt, torn)
      BY DEF IInv, Walks
    <3>2. Sound([op[q] EXCEPT !.stale = Walking(op[q])], blocks, {}, seen, maxBlockId, FALSE)
      BY <1>2, <3>1, AfterReset
    <3> QED
      BY <1>1, <2>2, <3>2
  <2> QED
    BY <2>1, <2>2
<1>5. op' \in [Procs -> OpShape]
  BY <1>1, <1>4 DEF Walks, Sound
<1>6. Ground'
  <2>1. /\ head' \in Nat /\ below' \in Nat \ {0} /\ resetAt' \in Nat /\ head' <= maxBlockId'
        /\ resetAt' <= maxBlockId' /\ below' <= resetAt' + 1
    BY <1>1, <1>2
  <2>2. /\ blocks' \in Seq(BlockType) /\ torn' \in BOOLEAN
        /\ ledger' \subseteq 1..maxBlockId' /\ seen' \subseteq 1..maxBlockId'
    BY <1>1, <1>2 DEF IInv, Ground
  <2> QED
    BY <1>5, <2>1, <2>2 DEF Ground
<1>7. HeadDone' /\ FillDone'
  BY <1>1, <1>2 DEF HeadDone, FillDone
<1>8. FlagMatchesSightings'
  BY <1>1 DEF FlagMatchesSightings, SightedOutput
<1>9. HistoryOnlyByReset'
  <2>1. seen \subseteq 1..maxBlockId
    BY DEF IInv, Ground
  <2> QED
    BY <1>1, <1>2, <2>1 DEF HistoryOnlyByReset
<1> QED
  BY <1>4, <1>6, <1>7, <1>8, <1>9 DEF IInv

LEMMA ReadCursorsStep ==
  ASSUME IInv, NEW p \in Procs, ReadCursors(p)
  PROVE  IInv'
<1> DEFINE o == op[p]
<1>1. /\ o \in OpShape /\ o.pc = "cursors"
      /\ UNCHANGED <<blocks, head, below, ledger, flagged, seen, announced, resetAt, torn>>
  BY DEF IInv, Ground, ReadCursors, settings, secrets, history
<1>2. op' = [op EXCEPT ![p] =
       IF o.at = "rebuild" THEN [Idle EXCEPT !.pc = "check", !.then = "fill"]
       ELSE IF o.at = "status" THEN Idle
       ELSE IF o.at = "head" THEN [o EXCEPT !.pc = "max", !.lo = head]
       ELSE IF below <= 1 THEN Idle
       ELSE Chunked([o EXCEPT !.hi = below - 1, !.end = Greater(0, below - 1 - Window)])]
  BY DEF ReadCursors, IInv, Ground
<1> HIDE DEF o
<1>3. /\ Len(blocks) \in Nat /\ maxBlockId = Len(blocks)
      /\ head \in Nat /\ head <= Len(blocks) /\ resetAt \in Nat /\ resetAt <= Len(blocks)
      /\ below \in Nat /\ below <= resetAt + 1
  BY Lengths DEF IInv, Ground
<1>4. CASE o.at = "rebuild"
  <2>1. LET x == [Idle EXCEPT !.pc = "check", !.then = "fill"] IN x \in OpShape /\ x.pc = "check"
    BY IdleShape DEF OpShape
  <2>2. op' = [op EXCEPT ![p] = [Idle EXCEPT !.pc = "check", !.then = "fill"]]
    BY <1>2, <1>4
  <2> QED
    BY <1>1, <2>1, <2>2, QuietStep
<1>5. CASE o.at = "status" \/ (o.at = "fill" /\ below <= 1)
  <2>1. op' = [op EXCEPT ![p] = Idle]
    BY <1>2, <1>5
  <2> QED
    BY <1>1, <2>1, IdleShape, QuietStep
<1>6. CASE o.at = "head"
  <2> DEFINE x == [o EXCEPT !.pc = "max", !.lo = head]
  <2>1. x \in OpShape /\ x.pc = "max" /\ x.at = "head" /\ x.lo = head
    BY <1>1, <1>3, <1>6 DEF OpShape
  <2>2. op' = [op EXCEPT ![p] = x]
    BY <1>2, <1>6
  <2> HIDE DEF x
  <2>3. Sound(x, blocks, ledger, seen, resetAt, torn)
    BY <1>3, <2>1 DEF Sound, Passed, IInv, HeadDone
  <2> QED
    BY <1>1, <2>1, <2>2, <2>3, OnlyOp
<1>7. CASE o.at = "fill" /\ ~(below <= 1)
  <2> DEFINE e == Greater(0, below - 1 - Window)
             y == [o EXCEPT !.hi = below - 1, !.end = e]
  <2>1. e \in Nat /\ e <= below - 1 /\ below - 1 \in Nat
    BY <1>3, <1>7, ConstantsAssumption DEF Greater
  <2>2. op' = [op EXCEPT ![p] = Chunked(y)]
    BY <1>2, <1>7
  <2> HIDE DEF e
  <2>3. y \in OpShape /\ y.at = "fill" /\ y.hi = below - 1 /\ y.end = e
    BY <1>1, <1>7, <2>1 DEF OpShape
  <2> HIDE DEF y
  <2>4. \A b \in 1..Len(blocks) :
          b <= resetAt /\ b > y.hi => torn \/ Covered(b, blocks, ledger, seen)
    BY <1>3, <2>3 DEF IInv, FillDone
  <2>5. Sound(Chunked(y), blocks, ledger, seen, resetAt, torn)
    <3>1. y.end <= y.hi /\ y.hi <= resetAt
      BY <1>3, <2>1, <2>3
    <3> QED
      BY <1>3, <2>3, <2>4, <3>1, ChunkedSound
  <2>6. Chunked(y) \in OpShape
    BY <2>5 DEF Sound
  <2> QED
    BY <1>1, <2>2, <2>5, <2>6, OnlyOp
<1> QED
  BY <1>1, <1>4, <1>5, <1>6, <1>7 DEF OpShape

LEMMA ReadMaxStep ==
  ASSUME IInv, NEW p \in Procs, ReadMax(p)
  PROVE  IInv'
<1> DEFINE o == op[p]
           y == [o EXCEPT !.end = maxBlockId, !.left = MaxPasses]
<1>1. /\ o \in OpShape /\ o.pc = "max" /\ op' = [op EXCEPT ![p] = AfterHead(y)]
      /\ UNCHANGED <<blocks, head, below, ledger, flagged, seen, announced, resetAt, torn>>
  BY DEF IInv, Ground, ReadMax, settings, secrets, history
<1>2. Sound(o, blocks, ledger, seen, resetAt, torn)
  BY DEF IInv, Walks
<1> HIDE DEF o
<1>3. Len(blocks) \in Nat /\ maxBlockId = Len(blocks)
  BY Lengths DEF IInv
<1>4. y \in OpShape /\ y.at = o.at /\ y.lo = o.lo /\ y.end = Len(blocks)
  <2>1. o \in OpShape /\ maxBlockId \in Nat /\ MaxPasses \in Int
    BY <1>1, <1>3, ConstantsAssumption
  <2> QED
    BY <1>3, <2>1 DEF OpShape
<1> HIDE DEF y
<1>5. o.at = "head" /\ o.lo <= Len(blocks) /\ Passed(o, blocks, ledger, seen, resetAt, torn)
  BY <1>1, <1>2 DEF Sound
<1>6. Passed(y, blocks, ledger, seen, resetAt, torn)
  BY <1>4, <1>5 DEF Passed
<1>7. Sound(AfterHead(y), blocks, ledger, seen, resetAt, torn)
  BY <1>3, <1>4, <1>5, <1>6, AfterHeadSound
<1>8. AfterHead(y) \in OpShape
  BY <1>7 DEF Sound
<1> QED
  BY <1>1, <1>7, <1>8, OnlyOp

LEMMA ClassifyStep ==
  ASSUME IInv, NEW p \in Procs, Classify(p)
  PROVE  IInv'
<1> DEFINE o    == op[p]
           new  == (Calls \cap Between(o.lo, o.hi)) \ ledger
           next == IF SecretsIn(o.lo, o.hi) = {} THEN "save" ELSE "record"
           x    == [o EXCEPT !.pc = next]
<1>1. /\ o \in OpShape /\ o.pc = "calls" /\ op' = [op EXCEPT ![p] = x]
      /\ ledger' = ledger \cup new /\ flagged' = flagged \cup SightedOutput(new, seen)
      /\ UNCHANGED <<blocks, head, below, seen, announced, resetAt, torn>>
  BY DEF IInv, Ground, Classify, settings, secrets, history
<1>2. Sound(o, blocks, ledger, seen, resetAt, torn)
  BY DEF IInv, Walks
<1>3. next \in {"save", "record"} /\ (next = "save" => SecretsIn(o.lo, o.hi) = {})
  OBVIOUS
<1> HIDE DEF o, next
<1>4. Len(blocks) \in Nat /\ maxBlockId = Len(blocks) /\ resetAt \in Nat /\ resetAt <= Len(blocks)
  BY Lengths DEF IInv, Ground
<1>5. /\ x \in OpShape /\ x.pc = next /\ x.at = o.at /\ x.lo = o.lo /\ x.hi = o.hi
      /\ x.end = o.end /\ x.stale = o.stale /\ o.lo \in Nat /\ o.hi \in Nat
  BY <1>1, <1>3 DEF OpShape
<1> HIDE DEF x
<1>6. /\ Windowed(o, blocks, resetAt) /\ Passed(o, blocks, ledger, seen, resetAt, torn)
      /\ Between(o.lo, o.hi) \subseteq 1..Len(blocks)
  <2>1. Windowed(o, blocks, resetAt) /\ Passed(o, blocks, ledger, seen, resetAt, torn)
    BY <1>1, <1>2 DEF Sound
  <2> QED
    BY <1>4, <1>5, <2>1 DEF Windowed, Between
<1>7. \A b \in Between(o.lo, o.hi) : Classified(b, blocks, ledger')
  BY <1>1, <1>4, <1>6 DEF Classified, Calls
<1>8. Sound(x, blocks, ledger', seen, resetAt, torn)
  <2>1. Passed(o, blocks, ledger', seen, resetAt, torn)
    BY <1>1, <1>6 DEF Passed, Covered, Classified
  <2>2. Windowed(x, blocks, resetAt) /\ Passed(x, blocks, ledger', seen, resetAt, torn)
    BY <1>5, <1>6, <2>1 DEF Windowed, Passed
  <2>3. next = "save" => \A b \in Between(o.lo, o.hi) : Covered(b, blocks, ledger', seen)
    BY <1>3, <1>7 DEF Covered, SecretsIn, IsSecret
  <2> QED
    BY <1>3, <1>5, <1>7, <2>2, <2>3 DEF Sound, Between
<1>9. flagged' = SightedOutput(ledger', seen')
  BY <1>1 DEF IInv, FlagMatchesSightings, SightedOutput
<1>10. ledger' \subseteq 1..maxBlockId /\ seen' \subseteq 1..maxBlockId
  BY <1>1, <1>4, <1>6 DEF IInv, Ground
<1>11. \A b \in seen' \ announced' : b <= resetAt
  BY <1>1 DEF IInv, HistoryOnlyByReset
<1> QED
  BY <1>1, <1>5, <1>8, <1>9, <1>10, <1>11, Adds

LEMMA RecordStep ==
  ASSUME IInv, NEW p \in Procs, Record(p)
  PROVE  IInv'
<1> DEFINE o   == op[p]
           new == New(SecretsIn(o.lo, o.hi))
           x   == [o EXCEPT !.pc = "save"]
<1>1. /\ o \in OpShape /\ o.pc = "record" /\ op' = [op EXCEPT ![p] = x]
      /\ seen' = seen \cup new
      /\ announced' = IF o.at = "head" THEN announced \cup new ELSE announced
      /\ flagged' = flagged \cup SightedOutput(ledger, new)
      /\ UNCHANGED <<blocks, head, below, ledger, resetAt, torn>>
  BY DEF IInv, Ground, Record, settings, history
<1>2. Sound(o, blocks, ledger, seen, resetAt, torn)
  BY DEF IInv, Walks
<1> HIDE DEF o
<1>3. Len(blocks) \in Nat /\ maxBlockId = Len(blocks) /\ resetAt \in Nat /\ resetAt <= Len(blocks)
  BY Lengths DEF IInv, Ground
<1>4. /\ x \in OpShape /\ x.pc = "save" /\ x.at = o.at /\ x.lo = o.lo /\ x.hi = o.hi
      /\ x.end = o.end /\ x.stale = o.stale /\ o.lo \in Nat /\ o.hi \in Nat
  BY <1>1 DEF OpShape
<1> HIDE DEF x
<1>5. /\ Windowed(o, blocks, resetAt) /\ Passed(o, blocks, ledger, seen, resetAt, torn)
      /\ Between(o.lo, o.hi) \subseteq 1..Len(blocks)
      /\ \A b \in Between(o.lo, o.hi) : Counts(o, b, resetAt) => Classified(b, blocks, ledger)
  <2>1. Windowed(o, blocks, resetAt) /\ Passed(o, blocks, ledger, seen, resetAt, torn)
    BY <1>1, <1>2 DEF Sound
  <2>2. Between(o.lo, o.hi) \subseteq 1..Len(blocks)
    BY <1>3, <1>4, <2>1 DEF Windowed, Between
  <2> QED
    BY <1>1, <1>2, <2>1, <2>2 DEF Sound, Between
<1>6. SecretsIn(o.lo, o.hi) \subseteq seen' /\ new \subseteq Between(o.lo, o.hi)
  BY <1>1 DEF New, SecretsIn
<1> HIDE DEF new
<1>7. Sound(x, blocks, ledger', seen', resetAt, torn)
  <2>1. Passed(o, blocks, ledger, seen', resetAt, torn)
    BY <1>1, <1>5 DEF Passed, Covered
  <2>2. Windowed(x, blocks, resetAt) /\ Passed(x, blocks, ledger, seen', resetAt, torn)
    BY <1>4, <1>5, <2>1 DEF Windowed, Passed
  <2>3. \A b \in Between(o.lo, o.hi) :
          Counts(o, b, resetAt) => Covered(b, blocks, ledger, seen')
    BY <1>5, <1>6 DEF Covered, SecretsIn, IsSecret
  <2>4. \A b : Counts(x, b, resetAt) <=> Counts(o, b, resetAt)
    BY <1>4 DEF Counts
  <2> QED
    BY <1>1, <1>4, <2>2, <2>3, <2>4 DEF Sound, Between
<1>8. flagged' = SightedOutput(ledger', seen')
  BY <1>1 DEF IInv, FlagMatchesSightings, SightedOutput
<1>9. ledger' \subseteq 1..maxBlockId /\ seen' \subseteq 1..maxBlockId
  BY <1>1, <1>3, <1>5, <1>6 DEF IInv, Ground
<1>10. \A b \in seen' \ announced' : b <= resetAt
  <2>1. CASE o.at = "head"
    BY <1>1, <2>1 DEF IInv, HistoryOnlyByReset
  <2>2. CASE o.at # "head"
    <3>1. o.hi <= resetAt
      BY <1>5, <2>2 DEF Windowed
    <3>2. \A b \in new : b <= resetAt
      BY <1>3, <1>4, <1>6, <3>1 DEF Between
    <3> QED
      BY <1>1, <2>2, <3>2 DEF IInv, HistoryOnlyByReset
  <2> QED
    BY <2>1, <2>2
<1> QED
  BY <1>1, <1>4, <1>7, <1>8, <1>9, <1>10, Adds

(* A cursor is written: up to it, or down to it, the blocks are done.      *)
LEMMA SaveHeadStep ==
  ASSUME IInv, NEW p \in Procs, SaveHead(p)
  PROVE  IInv'
<1> DEFINE o == op[p]
           y == [o EXCEPT !.lo = o.hi, !.left = o.left - 1]
<1>1. /\ o \in OpShape /\ o.pc = "save" /\ o.at = "head" /\ head' = o.hi
      /\ op' = [op EXCEPT ![p] = AfterHead(y)]
      /\ UNCHANGED <<blocks, below, ledger, flagged, seen, announced, resetAt, torn>>
  BY DEF IInv, Ground, SaveHead, secrets, history
<1>2. Sound(o, blocks, ledger, seen, resetAt, torn)
  BY DEF IInv, Walks
<1> HIDE DEF o
<1>3. Len(blocks) \in Nat /\ maxBlockId = Len(blocks) /\ maxBlockId' = maxBlockId
  BY <1>1, Lengths DEF IInv, maxBlockId
<1>4. /\ y \in OpShape /\ y.at = "head" /\ y.lo = o.hi /\ y.end = o.end
      /\ o.lo \in Nat /\ o.hi \in Nat /\ o.end \in Nat
  <2>1. o \in OpShape /\ o.at = "head"
    BY <1>1
  <2>2. /\ o.lo \in Nat /\ o.hi \in Nat /\ o.end \in Nat /\ o.left - 1 \in Int
    BY <2>1 DEF OpShape
  <2>3. y \in OpShape
    BY <2>1, <2>2 DEF OpShape
  <2>4. y.at = "head" /\ y.lo = o.hi /\ y.end = o.end
    BY <2>1 DEF OpShape
  <2> QED
    BY <2>2, <2>3, <2>4
<1> HIDE DEF y
<1>5. /\ o.lo <= o.hi /\ o.hi <= Len(blocks) /\ o.end <= Len(blocks)
      /\ Passed(o, blocks, ledger, seen, resetAt, torn)
      /\ \A b \in (o.lo + 1)..o.hi : Counts(o, b, resetAt) => Covered(b, blocks, ledger, seen)
  BY <1>1, <1>2 DEF Sound, Windowed
<1>6. \A b \in 1..Len(blocks) : b > resetAt /\ b <= o.hi => Covered(b, blocks, ledger, seen)
  <2> SUFFICES ASSUME NEW b \in 1..Len(blocks), b > resetAt, b <= o.hi
               PROVE  Covered(b, blocks, ledger, seen)
    OBVIOUS
  <2>1. CASE b <= o.lo
    BY <1>1, <1>5, <2>1 DEF Passed
  <2>2. CASE ~(b <= o.lo)
    <3>1. b \in (o.lo + 1)..o.hi
      BY <1>4, <2>2
    <3> QED
      BY <1>1, <1>5, <3>1 DEF Counts
  <2> QED
    BY <2>1, <2>2
<1>7. Passed(y, blocks, ledger, seen, resetAt, torn)
  BY <1>4, <1>6 DEF Passed
<1>8. Sound(AfterHead(y), blocks, ledger, seen, resetAt, torn)
  BY <1>3, <1>4, <1>5, <1>7, AfterHeadSound
<1>9. Walks' /\ op' \in [Procs -> OpShape]
  <2>1. AfterHead(y) \in OpShape
    BY <1>8 DEF Sound
  <2>2. op' \in [Procs -> OpShape] /\ \A q \in Procs : op'[q] = IF q = p THEN AfterHead(y) ELSE op[q]
    BY <1>1, <2>1 DEF IInv, Ground
  <2>3. ASSUME NEW q \in Procs  PROVE Sound(op'[q], blocks', ledger', seen', resetAt', torn')
    BY <1>1, <1>8, <2>2 DEF IInv, Walks
  <2> QED
    BY <2>2, <2>3 DEF Walks
<1>10. Ground'
  BY <1>1, <1>3, <1>4, <1>5, <1>9 DEF IInv, Ground
<1>11. HeadDone' /\ FillDone'
  BY <1>1, <1>3, <1>6 DEF IInv, HeadDone, FillDone
<1>12. FlagMatchesSightings' /\ HistoryOnlyByReset'
  BY <1>1 DEF IInv, FlagMatchesSightings, HistoryOnlyByReset, SightedOutput, Answers
<1> QED
  BY <1>9, <1>10, <1>11, <1>12 DEF IInv

LEMMA SaveBelowStep ==
  ASSUME IInv, NEW p \in Procs, SaveBelow(p)
  PROVE  IInv'
<1> DEFINE o == op[p]
           y == [o EXCEPT !.hi = o.lo]
<1>1. /\ o \in OpShape /\ o.pc = "save" /\ o.at = "fill" /\ below' = o.lo + 1
      /\ torn' = (torn \/ o.stale)
      /\ \/ op' = [op EXCEPT ![p] = Idle]
         \/ o.lo > o.end /\ op' = [op EXCEPT ![p] = Chunked(y)]
      /\ UNCHANGED <<blocks, head, ledger, flagged, seen, announced, resetAt>>
  BY DEF IInv, Ground, SaveBelow, secrets
<1>2. Sound(o, blocks, ledger, seen, resetAt, torn)
  BY DEF IInv, Walks
<1> HIDE DEF o
<1>3. /\ Len(blocks) \in Nat /\ maxBlockId = Len(blocks) /\ maxBlockId' = maxBlockId
      /\ resetAt \in Nat /\ resetAt <= Len(blocks) /\ torn \in BOOLEAN
  BY <1>1, Lengths DEF IInv, Ground, maxBlockId
<1>4. /\ y \in OpShape /\ y.at = "fill" /\ y.hi = o.lo /\ y.end = o.end /\ y.stale = o.stale
      /\ o.lo \in Nat /\ o.hi \in Nat /\ o.end \in Nat /\ o.stale \in BOOLEAN
  BY <1>1 DEF OpShape
<1> HIDE DEF y
<1>5. /\ o.lo <= o.hi /\ o.hi <= Len(blocks) /\ o.hi <= resetAt
      /\ Passed(o, blocks, ledger, seen, resetAt, torn)
      /\ \A b \in (o.lo + 1)..o.hi : Counts(o, b, resetAt) => Covered(b, blocks, ledger, seen)
  BY <1>1, <1>2 DEF Sound, Windowed
<1>6. torn' \in BOOLEAN /\ (torn => torn') /\ (o.stale => torn')
  BY <1>1, <1>3, <1>4
<1>7. ASSUME ~o.stale, NEW b \in 1..Len(blocks), b <= resetAt, b > o.lo
      PROVE  torn \/ Covered(b, blocks, ledger, seen)
  <2>1. CASE b > o.hi
    BY <1>1, <1>5, <1>7, <2>1 DEF Passed
  <2>2. CASE ~(b > o.hi)
    <3>1. b \in (o.lo + 1)..o.hi
      BY <1>4, <1>7, <2>2
    <3> QED
      BY <1>1, <1>5, <1>7, <3>1 DEF Counts
  <2> QED
    BY <2>1, <2>2
<1>8. PICK n : /\ op' = [op EXCEPT ![p] = n]
               /\ Sound(n, blocks, ledger, seen, resetAt, torn)
  <2>1. CASE op' = [op EXCEPT ![p] = Idle]
    BY <2>1, IdleShape, Quiet
  <2>2. CASE o.lo > o.end /\ op' = [op EXCEPT ![p] = Chunked(y)]
    <3>1. y.end <= y.hi /\ y.hi <= resetAt
      BY <1>3, <1>4, <1>5, <2>2
    <3>2. ~y.stale => \A b \in 1..Len(blocks) :
            b <= resetAt /\ b > y.hi => torn \/ Covered(b, blocks, ledger, seen)
      BY <1>4, <1>7
    <3>3. Sound(Chunked(y), blocks, ledger, seen, resetAt, torn)
      BY <1>3, <1>4, <3>1, <3>2, ChunkedSound
    <3> QED
      BY <2>2, <3>3
  <2> QED
    BY <1>1, <2>1, <2>2
<1>9. Walks' /\ op' \in [Procs -> OpShape]
  <2>1. n \in OpShape
    BY <1>8 DEF Sound
  <2>2. op' \in [Procs -> OpShape] /\ \A q \in Procs : op'[q] = IF q = p THEN n ELSE op[q]
    BY <1>8, <2>1 DEF IInv, Ground
  <2>3. ASSUME NEW q \in Procs  PROVE Sound(op'[q], blocks', ledger', seen', resetAt', torn')
    <3>1. Sound(op'[q], blocks, ledger, seen, resetAt, torn)
      BY <1>8, <2>2 DEF IInv, Walks
    <3>2. Sound(op'[q], blocks, ledger, seen, resetAt, torn')
      BY <1>6, <3>1, TornGrows
    <3> QED
      BY <1>1, <3>2
  <2> QED
    BY <2>2, <2>3 DEF Walks
<1>10. Ground'
  <2>1. below' \in Nat \ {0} /\ below' <= resetAt + 1
    BY <1>1, <1>3, <1>4, <1>5
  <2> QED
    BY <1>1, <1>3, <1>6, <1>9, <2>1 DEF IInv, Ground
<1>11. HeadDone'
  BY <1>1, <1>3 DEF IInv, HeadDone
<1>12. FillDone'
  <2> SUFFICES ASSUME NEW b \in 1..Len(blocks), b <= resetAt, b >= o.lo + 1
               PROVE  torn' \/ Covered(b, blocks, ledger, seen)
    BY <1>1, <1>3 DEF FillDone
  <2> QED
    BY <1>4, <1>6, <1>7
<1>13. FlagMatchesSightings' /\ HistoryOnlyByReset'
  BY <1>1 DEF IInv, FlagMatchesSightings, HistoryOnlyByReset, SightedOutput, Answers
<1> QED
  BY <1>9, <1>10, <1>11, <1>12, <1>13 DEF IInv

LEMMA NextStep ==
  ASSUME IInv, [Next]_vars
  PROVE  IInv'
<1>1. ASSUME \/ \E a \in 1..Len(alerts) : Clear(a)
             \/ UNCHANGED vars
      PROVE  IInv'
  <2>1. UNCHANGED <<blocks, head, below, ledger, flagged, seen, announced, op, resetAt, torn>>
    BY <1>1 DEF Clear, vars, settings, secrets, history
  <2>2. Walks'
    BY <2>1 DEF IInv, Walks
  <2> QED
    BY <2>1, <2>2 DEF IInv, Ground, HeadDone, FillDone, FlagMatchesSightings, HistoryOnlyByReset,
                      SightedOutput, Answers, maxBlockId
<1>2. ASSUME NEW p \in Procs, Step(p)  PROVE IInv'
  BY <1>2, CheckStep, ResetStep, ReadCursorsStep, ReadMaxStep, ClassifyStep, RecordStep,
     SaveHeadStep, SaveBelowStep DEF Step
<1> QED
  BY <1>1, <1>2, ArriveStep, BeginStep, RequestStep, AbortStep DEF Next

LEMMA Invariant == Spec => []IInv
<1>1. IInv /\ [Next]_vars => IInv'
  BY NextStep
<1> QED
  BY InitInv, <1>1, PTL DEF Spec

(* What the cursors declare done is classified and its credentials are     *)
(* sighted, unless a backfill wrote its cursor over a reset.               *)
THEOREM CursorsTellTheTruth == Spec => []Coverage
<1>1. IInv => Coverage
  <2> SUFFICES ASSUME IInv, ~torn, NEW b \in Done  PROVE Covered(b, blocks, ledger, seen)
    BY DEF Coverage, Covered, Classified, Calls, IsSecret, Done
  <2>1. b \in 1..maxBlockId /\ resetAt \in Nat
    BY DEF Done, IInv, Ground
  <2>2. CASE b > resetAt
    BY <2>1, <2>2 DEF Done, IInv, HeadDone
  <2>3. CASE ~(b > resetAt)
    BY <2>1, <2>3 DEF Done, IInv, FillDone
  <2> QED
    BY <2>2, <2>3
<1> QED
  BY Invariant, <1>1, PTL

(* The flag of a call says whether its output was sighted, whoever came    *)
(* first.                                                                  *)
THEOREM FlagsRight == Spec => []FlagMatchesSightings
<1>1. IInv => FlagMatchesSightings
  BY DEF IInv
<1> QED
  BY Invariant, <1>1, PTL

(* Without a reset no credential of a new block is history.                *)
THEOREM SilentOnlyByReset == Spec => []HistoryOnlyByReset
<1>1. IInv => HistoryOnlyByReset
  BY DEF IInv
<1> QED
  BY Invariant, <1>1, PTL

------------------------------------------------------------------------------
(* The alerts.  Of the alerts and the links to them, as recordSightings    *)
(* finds and leaves them: an alert counts the sightings linked to it, and  *)
(* for each kind it names one of them, of its session, has that kind.      *)

Alert == [session : Sessions, named : SUBSET Nat, count : Nat, open : BOOLEAN]
Sheet == [alerts : Seq(Alert), alertOf : [Ids -> Nat]]

Linked(st, a) == {b \in Ids : st.alertOf[b] = a}
Backed(st, a) ==
  \A k \in st.alerts[a].named : \E b \in 1..maxBlockId :
    /\ st.alertOf[b] = a /\ blocks[b].session = st.alerts[a].session
    /\ k \in blocks[b].secrets
Apart(st, a, b) ==
  st.alerts[a].open /\ st.alerts[b].open /\ st.alerts[a].session = st.alerts[b].session
    => st.alerts[a].named \cap st.alerts[b].named = {}

Book(st) ==
  /\ st \in Sheet
  /\ \A b \in Ids : st.alertOf[b] <= Len(st.alerts)
  /\ \A a \in 1..Len(st.alerts) : st.alerts[a].count = Cardinality(Linked(st, a)) /\ Backed(st, a)
  /\ \A a, b \in 1..Len(st.alerts) : a # b => Apart(st, a, b)

OnRecord == [alerts |-> alerts, alertOf |-> alertOf]

BookInv ==
  /\ blocks \in Seq(BlockType) /\ maxBlockId <= MaxBlocks
  /\ Book(OnRecord)
  /\ \A b \in Ids : alertOf[b] # 0 => b \in seen

(* Of a set of numbers that is not empty, one is the smallest.             *)
LEMMA Smallest ==
  ASSUME NEW S \in SUBSET Nat, S # {}
  PROVE  \E n \in S : \A m \in S : n <= m
<1> DEFINE R == {p \in Nat \X Nat : p[1] < p[2]}
<1>1. IsWellFoundedOn(R, Nat)
  BY NatLessThanWellFounded, Zenon DEF OpToRel
<1>2. PICK n \in S : \A m \in S : <<m, n>> \notin R
  BY <1>1, WFMin, Zenon
<1>3. ASSUME NEW m \in S, m < n  PROVE FALSE
  <2>1. <<m, n>> \in R
    BY <1>3
  <2> QED
    BY <1>2, <2>1
<1> QED
  BY <1>3

LEMMA LeastIsIn ==
  ASSUME NEW S \in SUBSET Nat, S # {}
  PROVE  Least(S) \in S
<1>1. \E x \in S : \A y \in S : x <= y
  BY Smallest
<1> QED
  BY <1>1, Zenon DEF Least

(* The function LET-defined in AnnounceAll.                                *)
LEMMA AnnouncedOneByOne ==
  ASSUME NEW st, NEW ids
  PROVE  \E u : /\ u = [n \in 0..MaxBlocks |-> IF n = 0 THEN st
                         ELSE IF n \in ids THEN Announce(u[n - 1], n) ELSE u[n - 1]]
                /\ AnnounceAll(st, ids) = u[MaxBlocks]
<1> DEFINE F(g, n) == IF n = 0 THEN st
                      ELSE IF n \in ids THEN Announce(g[n - 1], n) ELSE g[n - 1]
           E(g, m) == g = [n \in 0..m |-> F(g, n)]
           Has(m)  == \E g : E(g, m)
           Bad     == {m \in 0..MaxBlocks : ~Has(m)}
<1> HIDE DEF Has
<1>1. Bad = {}
  <2> SUFFICES ASSUME Bad # {} PROVE FALSE
    OBVIOUS
  <2>1. PICK m \in Bad : \A n \in Bad : m <= n
    <3>1. Bad \in SUBSET Nat
      OBVIOUS
    <3> QED
      BY <3>1, Smallest
  <2>2. CASE m = 0
    <3>1. E([n \in 0..0 |-> st], 0)
      BY DEF E
    <3> QED
      BY <2>1, <2>2, <3>1 DEF Has
  <2>3. CASE m # 0
    <3>1. m - 1 \in 0..MaxBlocks /\ m - 1 \notin Bad
      BY <2>1, <2>3, ConstantsAssumption
    <3>2. PICK g : E(g, m - 1)
      BY <3>1 DEF Has
    <3> DEFINE h == [n \in 0..m |-> IF n < m THEN g[n] ELSE F(g, m)]
    <3>3. \A n \in 0..(m - 1) : g[n] = F(g, n)
      BY <3>2
    <3>4. ASSUME NEW n \in 0..m
          PROVE  h[n] = F(h, n)
      <4>1. n = 0 \/ h[n - 1] = g[n - 1]
        BY <2>3
      <4>2. F(h, n) = F(g, n)
        BY <4>1
      <4>3. h[n] = F(g, n)
        <5>1. CASE n < m
          BY <3>3, <5>1, <2>3
        <5>2. CASE n = m
          BY <5>2
        <5> QED
          BY <5>1, <5>2
      <4> QED
        BY <4>2, <4>3
    <3>5. E(h, m)
      BY <3>4
    <3> QED
      BY <2>1, <3>5 DEF Has
  <2> QED
    BY <2>2, <2>3
<1>2. PICK g : E(g, MaxBlocks)
  <2>1. MaxBlocks \in 0..MaxBlocks /\ MaxBlocks \notin Bad
    BY <1>1, ConstantsAssumption
  <2> QED
    BY <2>1 DEF Has
<1> DEFINE u == CHOOSE v : E(v, MaxBlocks)
<1>3. E(u, MaxBlocks)
  BY <1>2
<1>4. AnnounceAll(st, ids) = u[MaxBlocks]
  BY DEF AnnounceAll
<1> QED
  BY <1>3, <1>4

(* A sighting that is linked to no alert yet raises one for the kinds that *)
(* no open alert of its session covers.  An open alert that names a kind   *)
(* has a sighting of it, so openFor would have found it.                   *)
LEMMA RaiseKeeps ==
  ASSUME blocks \in Seq(BlockType), maxBlockId <= MaxBlocks,
         NEW st, Book(st), NEW b \in 1..maxBlockId, st.alertOf[b] = 0
  PROVE  /\ Book(Raise(st, b))
         /\ \A c \in Ids \ {b} : Raise(st, b).alertOf[c] = st.alertOf[c]
<1> DEFINE s     == blocks[b]
           fresh == {k \in s.secrets : OpenFor(st, s.session, k) = {}}
           new   == [session |-> s.session, named |-> fresh, count |-> 1, open |-> TRUE]
           n     == Len(st.alerts) + 1
           to    == Raise(st, b)
<1>1. /\ b \in Ids /\ 1..maxBlockId \subseteq Ids /\ s \in BlockType /\ maxBlockId \in Nat
  BY ConstantsAssumption, LenProperties, ElementOfSeq DEF maxBlockId, Ids
<1>2. /\ st.alerts \in Seq(Alert) /\ st.alertOf \in [Ids -> Nat] /\ Len(st.alerts) \in Nat
      /\ n \in Nat /\ \A c \in Ids : st.alertOf[c] <= Len(st.alerts)
  BY LenProperties DEF Book, Sheet
<1>3. new \in Alert
  BY <1>1 DEF Alert, BlockType
<1>4. to = [alerts |-> Append(st.alerts, new), alertOf |-> [st.alertOf EXCEPT ![b] = n]]
  <2>1. st = [alerts |-> st.alerts, alertOf |-> st.alertOf]
    BY DEF Book, Sheet
  <2>2. to = [st EXCEPT !.alerts = Append(@, new), !.alertOf[b] = n]
    BY DEF Raise
  <2> HIDE DEF to, new, n
  <2> QED
    BY <2>1, <2>2
<1> HIDE DEF to, new
<1>5. /\ to.alerts \in Seq(Alert) /\ Len(to.alerts) = n /\ to.alerts[n] = new
      /\ \A a \in 1..Len(st.alerts) : to.alerts[a] = st.alerts[a]
  BY <1>2, <1>3, <1>4, AppendProperties
<1>6. /\ to.alertOf \in [Ids -> Nat] /\ to.alertOf[b] = n
      /\ \A c \in Ids \ {b} : to.alertOf[c] = st.alertOf[c]
  BY <1>1, <1>2, <1>4
<1>7. to \in Sheet /\ \A c \in Ids : to.alertOf[c] <= Len(to.alerts)
  BY <1>2, <1>4, <1>5, <1>6 DEF Sheet
<1>8. ASSUME NEW a \in 1..Len(st.alerts)
      PROVE  to.alerts[a].count = Cardinality(Linked(to, a)) /\ Backed(to, a)
  <2>1. Linked(to, a) = Linked(st, a)
    <3>1. a # n /\ a # 0
      BY <1>2
    <3>2. \A c \in Ids : to.alertOf[c] = a <=> st.alertOf[c] = a
      BY <1>6, <3>1
    <3> QED
      BY <3>2 DEF Linked
  <2>2. Backed(to, a)
    <3>1. Backed(st, a)
      BY DEF Book
    <3>2. \A c \in 1..maxBlockId : st.alertOf[c] = a => to.alertOf[c] = a
      BY <1>1, <1>6
    <3> QED
      BY <1>5, <3>1, <3>2 DEF Backed
  <2> QED
    BY <1>5, <2>1, <2>2 DEF Book
<1>9. to.alerts[n].count = Cardinality(Linked(to, n)) /\ Backed(to, n)
  <2>1. Linked(to, n) = {b}
    <3>1. \A c \in Ids : st.alertOf[c] # n
      BY <1>2
    <3>2. \A c \in Ids : to.alertOf[c] = n <=> c = b
      BY <1>6, <3>1
    <3> QED
      BY <1>1, <3>2 DEF Linked
  <2>2. Cardinality({b}) = 1
    BY FS_Singleton
  <2>3. /\ new.count = 1 /\ new.named = fresh /\ new.session = s.session
        /\ fresh \subseteq s.secrets
    BY DEF new
  <2>4. Backed(to, n)
    BY <1>5, <1>6, <2>3 DEF Backed
  <2> QED
    BY <1>5, <2>1, <2>2, <2>3, <2>4
<1>10. ASSUME NEW a \in 1..Len(st.alerts)
       PROVE  Apart(to, a, n) /\ Apart(to, n, a)
  <2> SUFFICES ASSUME st.alerts[a].open, st.alerts[a].session = s.session,
                      NEW k \in st.alerts[a].named, k \in fresh
               PROVE  FALSE
    BY <1>5 DEF Apart, new
  <2>1. PICK c \in 1..maxBlockId : /\ st.alertOf[c] = a /\ blocks[c].session = st.alerts[a].session
                                   /\ k \in blocks[c].secrets
    BY DEF Book, Backed
  <2>2. a \in OpenFor(st, s.session, k)
    BY <2>1 DEF OpenFor
  <2> QED
    BY <2>2
<1>11. \A a, c \in 1..Len(to.alerts) : a # c => Apart(to, a, c)
  <2> SUFFICES ASSUME NEW a \in 1..n, NEW c \in 1..n, a # c PROVE Apart(to, a, c)
    BY <1>5
  <2>1. CASE a # n /\ c # n
    <3>1. a \in 1..Len(st.alerts) /\ c \in 1..Len(st.alerts)
      BY <1>2, <2>1
    <3>2. Apart(st, a, c)
      BY <3>1 DEF Book
    <3> QED
      BY <1>5, <3>1, <3>2 DEF Apart
  <2>2. CASE a = n
    BY <1>2, <1>10, <2>2
  <2>3. CASE c = n
    BY <1>2, <1>10, <2>3
  <2> QED
    BY <2>1, <2>2, <2>3
<1>12. \A a \in 1..Len(to.alerts) : to.alerts[a].count = Cardinality(Linked(to, a)) /\ Backed(to, a)
  BY <1>2, <1>5, <1>8, <1>9
<1> QED
  BY <1>6, <1>7, <1>11, <1>12 DEF Book, to

(* Else it joins the open alert that covers its first kind.                *)
LEMMA JoinKeeps ==
  ASSUME blocks \in Seq(BlockType), maxBlockId <= MaxBlocks,
         NEW st, Book(st), NEW b \in 1..maxBlockId, st.alertOf[b] = 0,
         blocks[b].secrets # {},
         \A k \in blocks[b].secrets : OpenFor(st, blocks[b].session, k) # {}
  PROVE  /\ Book(Join(st, b))
         /\ \A c \in Ids \ {b} : Join(st, b).alertOf[c] = st.alertOf[c]
<1> DEFINE s  == blocks[b]
           j  == Least(OpenFor(st, s.session, Least(s.secrets)))
           to == Join(st, b)
<1>1. /\ b \in Ids /\ 1..maxBlockId \subseteq Ids /\ s \in BlockType /\ maxBlockId \in Nat
  BY ConstantsAssumption, LenProperties, ElementOfSeq DEF maxBlockId, Ids
<1>2. /\ st.alerts \in Seq(Alert) /\ st.alertOf \in [Ids -> Nat] /\ Len(st.alerts) \in Nat
      /\ \A c \in Ids : st.alertOf[c] <= Len(st.alerts)
  BY LenProperties DEF Book, Sheet
<1>3. j \in 1..Len(st.alerts)
  <2>1. Least(s.secrets) \in s.secrets
    BY <1>1, LeastIsIn DEF BlockType
  <2> DEFINE found == OpenFor(st, s.session, Least(s.secrets))
  <2>2. found # {} /\ found \subseteq 1..Len(st.alerts)
    BY <2>1 DEF OpenFor
  <2>3. found \in SUBSET Nat
    BY <1>2, <2>2
  <2> HIDE DEF found
  <2>4. Least(found) \in found
    BY <2>2, <2>3, LeastIsIn
  <2> QED
    BY <2>2, <2>4 DEF found
<1>4. to = [alerts |-> [st.alerts EXCEPT ![j].count = @ + 1],
            alertOf |-> [st.alertOf EXCEPT ![b] = j]]
  <2>1. st = [alerts |-> st.alerts, alertOf |-> st.alertOf]
    BY DEF Book, Sheet
  <2>2. to = [st EXCEPT !.alerts[j].count = @ + 1, !.alertOf[b] = j]
    BY DEF Join
  <2> HIDE DEF to, j
  <2> QED
    BY <2>1, <2>2
<1> HIDE DEF to, j
<1>5. /\ to.alerts \in Seq(Alert) /\ Len(to.alerts) = Len(st.alerts)
      /\ \A a \in 1..Len(st.alerts) :
           /\ to.alerts[a].count = IF a = j THEN st.alerts[a].count + 1 ELSE st.alerts[a].count
           /\ to.alerts[a].named = st.alerts[a].named /\ to.alerts[a].open = st.alerts[a].open
           /\ to.alerts[a].session = st.alerts[a].session
  <2> DEFINE more == [st.alerts[j] EXCEPT !.count = @ + 1]
  <2>1. st.alerts[j] \in Alert
    BY <1>2, <1>3, ElementOfSeq
  <2>2. /\ more \in Alert /\ more.count = st.alerts[j].count + 1 /\ more.named = st.alerts[j].named
        /\ more.open = st.alerts[j].open /\ more.session = st.alerts[j].session
    BY <2>1 DEF Alert
  <2>3. to.alerts = [st.alerts EXCEPT ![j] = more]
    BY <1>4
  <2> HIDE DEF more
  <2>4. to.alerts \in Seq(Alert) /\ Len(to.alerts) = Len(st.alerts)
    BY <1>2, <1>3, <2>2, <2>3, ExceptSeq
  <2>5. \A a \in 1..Len(st.alerts) : to.alerts[a] = IF a = j THEN more ELSE st.alerts[a]
    BY <1>2, <1>3, <2>3
  <2> QED
    BY <2>2, <2>4, <2>5
<1>6. /\ to.alertOf \in [Ids -> Nat] /\ to.alertOf[b] = j
      /\ \A c \in Ids \ {b} : to.alertOf[c] = st.alertOf[c]
  BY <1>1, <1>2, <1>3, <1>4
<1>7. to \in Sheet /\ \A c \in Ids : to.alertOf[c] <= Len(to.alerts)
  BY <1>2, <1>3, <1>4, <1>5, <1>6 DEF Sheet
<1>8. ASSUME NEW a \in 1..Len(st.alerts)
      PROVE  to.alerts[a].count = Cardinality(Linked(to, a)) /\ Backed(to, a)
  <2>1. st.alerts[a].count = Cardinality(Linked(st, a)) /\ Backed(st, a)
    BY DEF Book
  <2>2. Backed(to, a)
    <3>1. \A c \in 1..maxBlockId : st.alertOf[c] = a => to.alertOf[c] = a
      BY <1>1, <1>2, <1>6, SMTT(30)
    <3> QED
      BY <1>5, <2>1, <3>1 DEF Backed
  <2>3. IsFiniteSet(Linked(st, a)) /\ b \notin Linked(st, a) /\ Cardinality(Linked(st, a)) \in Nat
    <3>1. IsFiniteSet(Ids)
      BY ConstantsAssumption, FS_Interval DEF Ids
    <3>2. Linked(st, a) \in SUBSET Ids /\ b \notin Linked(st, a)
      BY <1>2 DEF Linked
    <3> QED
      BY <3>1, <3>2, FS_Subset, FS_CardinalityType
  <2>4. CASE a = j
    <3>1. Linked(to, a) = Linked(st, a) \cup {b}
      BY <1>1, <1>6, <2>4 DEF Linked
    <3>2. Cardinality(Linked(to, a)) = Cardinality(Linked(st, a)) + 1
      BY <2>3, <3>1, FS_AddElement, ZenonT(30)
    <3> QED
      BY <1>5, <2>1, <2>2, <2>4, <3>2
  <2>5. CASE a # j
    <3>1. Linked(to, a) = Linked(st, a)
      BY <1>1, <1>6, <2>3, <2>5 DEF Linked
    <3> QED
      BY <1>5, <2>1, <2>2, <2>5, <3>1
  <2> QED
    BY <2>4, <2>5
<1>9. ASSUME NEW a \in 1..Len(st.alerts), NEW c \in 1..Len(st.alerts), a # c
      PROVE  Apart(to, a, c)
  <2>1. Apart(st, a, c)
    BY <1>9 DEF Book
  <2> QED
    BY <1>5, <2>1 DEF Apart
<1> QED
  BY <1>5, <1>6, <1>7, <1>8, <1>9 DEF Book, to

LEMMA AnnounceKeeps ==
  ASSUME blocks \in Seq(BlockType), maxBlockId <= MaxBlocks,
         NEW st, Book(st), NEW b \in 1..maxBlockId, st.alertOf[b] = 0, blocks[b].secrets # {}
  PROVE  /\ Book(Announce(st, b))
         /\ \A c \in Ids \ {b} : Announce(st, b).alertOf[c] = st.alertOf[c]
<1>1. CASE \E k \in blocks[b].secrets : OpenFor(st, blocks[b].session, k) = {}
  <2>1. Announce(st, b) = Raise(st, b)
    BY <1>1 DEF Announce
  <2> QED
    BY <2>1, RaiseKeeps
<1>2. CASE ~\E k \in blocks[b].secrets : OpenFor(st, blocks[b].session, k) = {}
  <2>1. Announce(st, b) = Join(st, b)
    BY <1>2 DEF Announce
  <2> QED
    BY <1>2, <2>1, JoinKeeps
<1> QED
  BY <1>1, <1>2

(* And so do all sightings of a window, one after the other.               *)
LEMMA AnnounceAllKeeps ==
  ASSUME blocks \in Seq(BlockType), maxBlockId <= MaxBlocks,
         NEW st, Book(st), NEW ids \in SUBSET (1..maxBlockId),
         \A b \in ids : st.alertOf[b] = 0 /\ blocks[b].secrets # {}
  PROVE  /\ Book(AnnounceAll(st, ids))
         /\ \A c \in Ids \ ids : AnnounceAll(st, ids).alertOf[c] = st.alertOf[c]
<1>1. PICK u : /\ u = [n \in 0..MaxBlocks |-> IF n = 0 THEN st
                        ELSE IF n \in ids THEN Announce(u[n - 1], n) ELSE u[n - 1]]
               /\ AnnounceAll(st, ids) = u[MaxBlocks]
  BY AnnouncedOneByOne, ZenonT(30)
<1>2. \A n \in 0..MaxBlocks : u[n] = IF n = 0 THEN st
                        ELSE IF n \in ids THEN Announce(u[n - 1], n) ELSE u[n - 1]
  BY <1>1
<1> DEFINE Good(n) == /\ Book(u[n])
                      /\ \A c \in Ids : c \notin ids \/ c > n => u[n].alertOf[c] = st.alertOf[c]
           Bad     == {n \in 0..MaxBlocks : ~Good(n)}
<1>3. maxBlockId \in Nat /\ MaxBlocks \in Nat /\ ids \subseteq Ids /\ ids \subseteq Nat
  BY ConstantsAssumption, LenProperties DEF maxBlockId, Ids
<1>4. Bad = {}
  <2> SUFFICES ASSUME Bad # {} PROVE FALSE
    OBVIOUS
  <2> HIDE DEF Good
  <2>1. PICK n \in Bad : \A m \in Bad : n <= m
    <3>1. Bad \in SUBSET Nat
      OBVIOUS
    <3> QED
      BY <3>1, Smallest
  <2>2. CASE n = 0
    <3>1. u[n] = st
      BY <1>2, <2>1, <2>2
    <3> QED
      BY <2>1, <3>1 DEF Good
  <2>3. CASE n # 0
    <3>1. n - 1 \in 0..MaxBlocks /\ n - 1 \notin Bad /\ n \in Nat
      BY <1>3, <2>1, <2>3
    <3>2. Good(n - 1)
      BY <3>1
    <3>3. CASE n \notin ids
      <4>1. u[n] = u[n - 1]
        BY <1>2, <2>1, <2>3, <3>3
      <4>2. \A c \in Ids : c \notin ids \/ c > n => c \notin ids \/ c > n - 1
        BY <1>3, <3>1 DEF Ids
      <4> QED
        BY <2>1, <3>2, <4>1, <4>2 DEF Good
    <3>4. CASE n \in ids
      <4>1. u[n] = Announce(u[n - 1], n)
        BY <1>2, <2>1, <2>3, <3>4
      <4>2. n \in Ids /\ n > n - 1
        BY <1>3, <3>1, <3>4
      <4>3. u[n - 1].alertOf[n] = 0 /\ blocks[n].secrets # {} /\ n \in 1..maxBlockId
        BY <3>2, <3>4, <4>2 DEF Good
      <4>4. /\ Book(u[n])
            /\ \A c \in Ids \ {n} : u[n].alertOf[c] = u[n - 1].alertOf[c]
        BY <3>2, <4>1, <4>3, AnnounceKeeps DEF Good
      <4>5. \A c \in Ids : c \notin ids \/ c > n => c # n /\ (c \notin ids \/ c > n - 1)
        BY <1>3, <3>1, <3>4 DEF Ids
      <4> QED
        BY <2>1, <3>2, <4>4, <4>5 DEF Good
    <3> QED
      BY <3>3, <3>4
  <2> QED
    BY <2>2, <2>3
<1>5. Good(MaxBlocks)
  <2> HIDE DEF Good
  <2> QED
    BY <1>3, <1>4
<1> QED
  BY <1>1, <1>5

LEMMA BookOnly ==
  ASSUME BookInv, UNCHANGED <<blocks, alerts, alertOf>>, seen \subseteq seen'
  PROVE  BookInv'
<1>1. OnRecord' = OnRecord /\ maxBlockId' = maxBlockId
  BY DEF OnRecord, maxBlockId
<1>2. Book(OnRecord) /\ blocks' = blocks
  BY DEF BookInv
<1>3. Book(OnRecord)'
  <2>1. ASSUME NEW a \in 1..Len(OnRecord.alerts) PROVE Backed(OnRecord, a)'
    <3>1. Backed(OnRecord, a)
      BY <1>2 DEF Book
    <3> QED
      BY <1>1, <1>2, <3>1 DEF Backed
  <2> QED
    BY <1>1, <1>2, <2>1 DEF Book, Linked, Apart
<1> QED
  BY <1>1, <1>2, <1>3 DEF BookInv

LEMMA BookRecord ==
  ASSUME IInv, BookInv, NEW p \in Procs, Record(p)
  PROVE  BookInv'
<1> DEFINE o     == op[p]
           start == IF since = -1 THEN maxBlockId ELSE since
           new   == New(SecretsIn(o.lo, o.hi))
           loud  == IF o.at = "head" THEN {b \in new : ~Old(b, start)} ELSE {}
           one   == AnnounceAll(OnRecord, loud \cap Calls)
           all   == AnnounceAll(one, loud \ Calls)
<1>1. /\ o.pc = "record" /\ seen' = seen \cup new /\ UNCHANGED blocks
      /\ alerts' = all.alerts /\ alertOf' = all.alertOf
  BY Zenon DEF Record, OnRecord
<1>2. /\ new \subseteq 1..maxBlockId /\ new \cap seen = {} /\ \A b \in new : blocks[b].secrets # {}
  <2>1. Sound(o, blocks, ledger, seen, resetAt, torn) /\ Len(blocks) \in Nat /\ maxBlockId = Len(blocks)
    BY Lengths DEF IInv, Walks
  <2>2. Windowed(o, blocks, resetAt) /\ o.lo \in Nat /\ o.hi \in Nat
    BY <1>1, <2>1 DEF Sound, OpShape
  <2> QED
    BY <2>1, <2>2 DEF New, SecretsIn, IsSecret, Between, Windowed
<1> HIDE DEF o, new
<1>3. loud \subseteq new
  OBVIOUS
<1> HIDE DEF loud
<1>4. \A b \in loud : OnRecord.alertOf[b] = 0 /\ blocks[b].secrets # {}
  <2>1. loud \subseteq Ids
    BY <1>2, <1>3, ConstantsAssumption, LenProperties DEF BookInv, Ids, maxBlockId
  <2> QED
    BY <1>2, <1>3, <2>1 DEF BookInv, OnRecord
<1>5. Book(one) /\ \A c \in Ids \ (loud \cap Calls) : one.alertOf[c] = alertOf[c]
  <2>1. loud \cap Calls \in SUBSET (1..maxBlockId)
    BY <1>2, <1>3
  <2>2. /\ Book(one)
        /\ \A c \in Ids \ (loud \cap Calls) : one.alertOf[c] = OnRecord.alertOf[c]
    BY <1>4, <2>1, AnnounceAllKeeps DEF BookInv
  <2> QED
    BY <2>2 DEF OnRecord
<1> HIDE DEF one
<1>6. Book(all) /\ \A c \in Ids \ loud : all.alertOf[c] = alertOf[c]
  <2>1. loud \ Calls \in SUBSET (1..maxBlockId) /\ loud \subseteq Ids
    <3>1. maxBlockId \in Nat /\ maxBlockId <= MaxBlocks
      BY LenProperties DEF BookInv, maxBlockId
    <3>2. 1..maxBlockId \subseteq Ids
      BY <3>1, ConstantsAssumption DEF Ids
    <3> QED
      BY <1>2, <1>3, <3>2
  <2>2. \A b \in loud \ Calls : one.alertOf[b] = 0 /\ blocks[b].secrets # {}
    BY <1>4, <1>5, <2>1 DEF OnRecord
  <2>3. Book(all) /\ \A c \in Ids \ (loud \ Calls) : all.alertOf[c] = one.alertOf[c]
    BY <1>5, <2>1, <2>2, AnnounceAllKeeps DEF BookInv
  <2> QED
    BY <1>5, <2>3
<1>7. OnRecord' = all
  <2>1. all \in Sheet
    BY <1>6 DEF Book
  <2> HIDE DEF all
  <2> QED
    BY <1>1, <2>1 DEF OnRecord, Sheet
<1> HIDE DEF all
<1>8. Book(OnRecord)'
  <2>1. Book(OnRecord')
    BY <1>6, <1>7
  <2> QED
    BY <1>1, <2>1 DEF Book, Backed, maxBlockId, Linked, Apart
<1>9. \A b \in Ids : alertOf'[b] # 0 => b \in seen'
  BY <1>1, <1>3, <1>6 DEF BookInv
<1> QED
  BY <1>1, <1>8, <1>9 DEF BookInv, maxBlockId

LEMMA BookStep == IInv /\ BookInv /\ [Next]_vars => BookInv'
<1> SUFFICES ASSUME IInv, BookInv, [Next]_vars PROVE BookInv'
  OBVIOUS
<1>1. CASE Arrive
  <2>1. PICK f \in Feeds : /\ Len(f) > maxBlockId
                           /\ blocks' = Append(blocks, f[maxBlockId + 1])
    BY <1>1 DEF Arrive
  <2>2. UNCHANGED <<alerts, alertOf, seen>>
    BY <1>1 DEF Arrive, secrets
  <2>3. Len(blocks) \in Nat /\ maxBlockId = Len(blocks) /\ Len(f) \in Nat /\ Len(f) <= MaxBlocks
    BY <2>1, LenProperties, ConstantsAssumption DEF BookInv, maxBlockId
  <2>4. f[maxBlockId + 1] \in BlockType
    BY <2>1, <2>3, ConstantsAssumption
  <2>5. /\ blocks' \in Seq(BlockType) /\ Len(blocks') = Len(blocks) + 1
        /\ \A b \in 1..Len(blocks) : blocks'[b] = blocks[b]
    BY <2>1, <2>4, AppendProperties DEF BookInv
  <2>6. /\ maxBlockId' = maxBlockId + 1 /\ maxBlockId' <= MaxBlocks
        /\ \A b \in 1..maxBlockId : b \in 1..maxBlockId' /\ blocks'[b] = blocks[b]
    BY <2>1, <2>3, <2>5, ConstantsAssumption DEF maxBlockId
  <2>7. Book(OnRecord)'
    <3>1. OnRecord' = OnRecord
      BY <2>2 DEF OnRecord
    <3>2. ASSUME NEW a \in 1..Len(OnRecord.alerts) PROVE Backed(OnRecord, a)'
      <4>1. Backed(OnRecord, a)
        BY DEF BookInv, Book
      <4> QED
        BY <2>6, <3>1, <4>1 DEF Backed
    <3> QED
      BY <3>1, <3>2 DEF BookInv, Book, Linked, Apart
  <2> QED
    BY <2>2, <2>5, <2>6, <2>7 DEF BookInv
<1>2. CASE \E a \in 1..Len(alerts) : Clear(a)
  <2>1. PICK j \in 1..Len(alerts) : alerts' = [alerts EXCEPT ![j].open = FALSE]
    BY <1>2 DEF Clear
  <2>2. UNCHANGED <<blocks, alertOf, seen>>
    BY <1>2 DEF Clear
  <2>3. alerts \in Seq(Alert) /\ Len(alerts) \in Nat /\ alertOf \in [Ids -> Nat]
    BY LenProperties DEF BookInv, Book, Sheet, OnRecord
  <2>4. /\ alerts' \in Seq(Alert) /\ Len(alerts') = Len(alerts)
        /\ \A a \in 1..Len(alerts) :
             /\ alerts'[a].count = alerts[a].count /\ alerts'[a].named = alerts[a].named
             /\ alerts'[a].session = alerts[a].session /\ (alerts'[a].open => alerts[a].open)
    <3> DEFINE shut == [alerts[j] EXCEPT !.open = FALSE]
    <3>1. alerts[j] \in Alert
      BY <2>3, ElementOfSeq
    <3>2. /\ shut \in Alert /\ shut.count = alerts[j].count /\ shut.named = alerts[j].named
          /\ shut.session = alerts[j].session /\ ~shut.open
      BY <3>1 DEF Alert
    <3>3. alerts' = [alerts EXCEPT ![j] = shut]
      BY <2>1
    <3> HIDE DEF shut
    <3>4. alerts' \in Seq(Alert) /\ Len(alerts') = Len(alerts)
      BY <2>3, <3>2, <3>3, ExceptSeq
    <3>5. \A a \in 1..Len(alerts) : alerts'[a] = IF a = j THEN shut ELSE alerts[a]
      BY <2>3, <3>3
    <3> QED
      BY <3>2, <3>4, <3>5
  <2>5. Book(OnRecord)'
    <3>1. OnRecord' \in Sheet /\ \A b \in Ids : alertOf'[b] <= Len(alerts')
      BY <2>2, <2>3, <2>4 DEF OnRecord, Sheet, BookInv, Book
    <3>2. ASSUME NEW a \in 1..Len(alerts)
          PROVE  /\ alerts'[a].count = Cardinality(Linked(OnRecord, a))'
                 /\ Backed(OnRecord, a)'
      <4>1. alerts[a].count = Cardinality(Linked(OnRecord, a)) /\ Backed(OnRecord, a)
        BY DEF BookInv, Book, OnRecord
      <4>2. Linked(OnRecord, a)' = Linked(OnRecord, a)
        BY <2>2 DEF Linked, OnRecord
      <4>3. Backed(OnRecord, a)'
        BY <2>2, <2>4, <4>1 DEF Backed, OnRecord, maxBlockId
      <4> QED
        BY <2>4, <4>1, <4>2, <4>3
    <3>3. ASSUME NEW a \in 1..Len(alerts), NEW b \in 1..Len(alerts), a # b
          PROVE  Apart(OnRecord, a, b)'
      <4>1. Apart(OnRecord, a, b)
        BY <3>3 DEF BookInv, Book, OnRecord
      <4> QED
        BY <2>4, <4>1 DEF Apart, OnRecord
    <3> QED
      BY <2>4, <3>1, <3>2, <3>3 DEF Book, OnRecord
  <2> QED
    BY <2>2, <2>5 DEF BookInv, maxBlockId
<1>3. ASSUME NEW p \in Procs, Record(p) PROVE BookInv'
  BY <1>3, BookRecord
<1>4. ASSUME NEW p \in Procs,
             \/ Check(p) \/ Reset(p) \/ ReadCursors(p) \/ ReadMax(p) \/ Classify(p)
             \/ SaveHead(p) \/ SaveBelow(p) \/ Begin(p) \/ Abort(p)
             \/ \E at \in {"status", "head", "rebuild"} : Request(p, at)
      PROVE  BookInv'
  <2>1. UNCHANGED <<blocks, alerts, alertOf, seen>>
    BY <1>4 DEF Check, Reset, ReadCursors, ReadMax, Classify, SaveHead, SaveBelow, Begin,
                Abort, Request, secrets
  <2> QED
    BY <2>1, BookOnly
<1>5. CASE UNCHANGED vars
  <2>1. UNCHANGED <<blocks, alerts, alertOf, seen>>
    BY <1>5 DEF vars, secrets
  <2> QED
    BY <2>1, BookOnly
<1> QED
  BY <1>1, <1>2, <1>3, <1>4, <1>5 DEF Next, Step

LEMMA BookInit == Init => BookInv
<1> SUFFICES ASSUME Init PROVE BookInv
  OBVIOUS
<1>1. /\ blocks = <<>> /\ Len(blocks) = 0 /\ blocks \in Seq(BlockType)
      /\ alerts = <<>> /\ Len(alerts) = 0 /\ alerts \in Seq(Alert)
      /\ alertOf \in [Ids -> Nat] /\ \A b \in Ids : alertOf[b] = 0
  BY DEF Init
<1> QED
  BY <1>1, ConstantsAssumption DEF BookInv, Book, Sheet, OnRecord, maxBlockId

LEMMA AlertsKept == Spec => [](BookInv)
<1>1. Init => IInv /\ BookInv
  BY InitInv, BookInit
<1>2. IInv /\ BookInv /\ [Next]_vars => (IInv /\ BookInv)'
  BY NextStep, BookStep
<1> QED
  BY <1>1, <1>2, PTL DEF Spec

(* One alert per session and kind: while an alert is open no second one is *)
(* raised for a kind it names, whichever process sights it and in whatever *)
(* order, and however often windows are scanned again.                     *)
THEOREM OneAlertPerKind == Spec => []OneOpenAlertPerKind
<1>1. BookInv => OneOpenAlertPerKind
  BY DEF BookInv, Book, Apart, OnRecord, OneOpenAlertPerKind
<1> QED
  BY AlertsKept, <1>1, PTL

(* The count of an alert is the number of the sightings linked to it: none *)
(* is counted twice and none is dropped.                                   *)
THEOREM AlertsCount == Spec => []CountsSightings
<1>1. BookInv => CountsSightings
  BY DEF BookInv, Book, Linked, OnRecord, CountsSightings
<1> QED
  BY AlertsKept, <1>1, PTL

(* A single process never carries a cursor from before a reset, and so     *)
(* never writes one over it.                                               *)
Fresh == ~torn /\ \A p \in Procs : ~op[p].stale

LEMMA FreshShapes ==
  ASSUME NEW o \in OpShape, ~o.stale
  PROVE  /\ ~Idle.stale
         /\ \A pc, lo : ~[o EXCEPT !.pc = pc].stale /\ ~[o EXCEPT !.pc = pc, !.lo = lo].stale
BY DEF Idle, OpShape

(* AfterHead and Chunked leave stale as it is, whatever the other fields.  *)
LEMMA FreshWalks ==
  ASSUME NEW o \in OpShape, ~o.stale, NEW lo, NEW hi, NEW end, NEW left
  PROVE  /\ ~AfterHead([o EXCEPT !.lo = lo, !.left = left]).stale
         /\ ~AfterHead([o EXCEPT !.end = end, !.left = left]).stale
         /\ ~Chunked([o EXCEPT !.hi = hi]).stale
         /\ ~Chunked([o EXCEPT !.hi = hi, !.end = end]).stale
BY DEF AfterHead, Chunked, Idle, OpShape

LEMMA FreshStarts ==
  \A a, t : /\ ~[[Idle EXCEPT !.at = a, !.then = t] EXCEPT !.pc = "check"].stale
            /\ ~[Idle EXCEPT !.pc = "check", !.then = t].stale
            /\ ~[[Idle EXCEPT !.then = t] EXCEPT !.pc = "check"].stale
            /\ ~[Idle EXCEPT !.pc = "check"].stale
BY DEF Idle

LEMMA FreshStep ==
  ASSUME \A p, q \in Procs : p = q, IInv, Fresh, [Next]_vars
  PROVE  Fresh'
<1>1. op \in [Procs -> OpShape]
  BY DEF IInv, Ground
<1>2. CASE Arrive \/ (\E a \in 1..Len(alerts) : Clear(a)) \/ UNCHANGED vars
  BY <1>2 DEF Arrive, Clear, Fresh, vars, history
<1>3. ASSUME NEW p \in Procs, NEW new, op' = [op EXCEPT ![p] = new], ~new.stale, ~torn'
      PROVE  Fresh'
  BY <1>1, <1>3 DEF Fresh
<1>4. \A p \in Procs : op[p] \in OpShape /\ ~op[p].stale
  BY <1>1 DEF Fresh
<1>5. ASSUME NEW p \in Procs, Reset(p)  PROVE Fresh'
  <2>1. torn' = FALSE /\ op'[p] = [op[p] EXCEPT !.pc = "cursors"]
    BY <1>5 DEF Reset
  <2>2. ~op'[p].stale
    BY <1>4, <2>1 DEF OpShape
  <2> QED
    BY <2>1, <2>2 DEF Fresh
<1>6. ASSUME NEW p \in Procs, Begin(p)  PROVE Fresh'
  <2>1. ~torn' /\ (Start(p, Idle) \/ Start(p, [Idle EXCEPT !.then = "fill"]))
    BY <1>6 DEF Begin, history, Fresh
  <2> QED
    BY <1>3, <2>1, FreshStarts DEF Start
<1>7. ASSUME NEW p \in Procs, NEW at, Request(p, at)  PROVE Fresh'
  <2> DEFINE t == IF at = "status" THEN "stop" ELSE "fill"
             o == [Idle EXCEPT !.at = at, !.then = t]
  <2>1. ~torn' /\ op' = [op EXCEPT ![p] = [o EXCEPT !.pc = "check"]]
    BY <1>7 DEF Request, Start, history, Fresh
  <2>2. ~[o EXCEPT !.pc = "check"].stale
    BY FreshStarts
  <2> QED
    BY <1>3, <2>1, <2>2
<1>8. ASSUME NEW p \in Procs, Check(p) \/ Classify(p) \/ Record(p)  PROVE Fresh'
  <2>1. ~torn'
    BY <1>8 DEF Check, Classify, Record, history, Fresh
  <2>2. PICK v : op' = [op EXCEPT ![p] = [op[p] EXCEPT !.pc = v]]
    <3>1. CASE Check(p)
      <4>1. op' = [op EXCEPT ![p] = [op[p] EXCEPT !.pc = IF rules THEN "cursors" ELSE "reset"]]
        BY <3>1 DEF Check
      <4> QED
        BY <4>1
    <3>2. CASE Classify(p)
      <4>1. op' = [op EXCEPT ![p] = [op[p] EXCEPT !.pc =
                     IF SecretsIn(op[p].lo, op[p].hi) = {} THEN "save" ELSE "record"]]
        BY <3>2 DEF Classify
      <4> QED
        BY <4>1
    <3>3. CASE Record(p)
      <4>1. op' = [op EXCEPT ![p] = [op[p] EXCEPT !.pc = "save"]]
        BY <3>3 DEF Record
      <4> QED
        BY <4>1
    <3> QED
      BY <1>8, <3>1, <3>2, <3>3
  <2>3. ~[op[p] EXCEPT !.pc = v].stale
    BY <1>4, FreshShapes
  <2> QED
    BY <1>3, <2>1, <2>2, <2>3
<1>9. ASSUME NEW p \in Procs, Abort(p)  PROVE Fresh'
  <2>1. ~torn' /\ op' = [op EXCEPT ![p] = Idle] /\ ~Idle.stale
    BY <1>9 DEF Abort, history, Fresh, Idle
  <2> QED
    BY <1>3, <2>1
<1>10. ASSUME NEW p \in Procs, ReadCursors(p)  PROVE Fresh'
  <2> DEFINE e == Greater(0, below - 1 - Window)
  <2>1. ~torn'
    BY <1>10 DEF ReadCursors, history, Fresh
  <2>2. \/ op' = [op EXCEPT ![p] = [Idle EXCEPT !.pc = "check", !.then = "fill"]]
        \/ op' = [op EXCEPT ![p] = Idle]
        \/ op' = [op EXCEPT ![p] = [op[p] EXCEPT !.pc = "max", !.lo = head]]
        \/ op' = [op EXCEPT ![p] = Chunked([op[p] EXCEPT !.hi = below - 1, !.end = e])]
    BY <1>10 DEF ReadCursors
  <2>3. /\ ~Idle.stale /\ ~[op[p] EXCEPT !.pc = "max", !.lo = head].stale
        /\ ~Chunked([op[p] EXCEPT !.hi = below - 1, !.end = e]).stale
        /\ ~[Idle EXCEPT !.pc = "check", !.then = "fill"].stale
    BY <1>4, FreshShapes, FreshWalks, FreshStarts
  <2> QED
    BY <1>3, <2>1, <2>2, <2>3
<1>11. ASSUME NEW p \in Procs, ReadMax(p)  PROVE Fresh'
  <2>1. ~torn' /\ op' = [op EXCEPT ![p] = AfterHead([op[p] EXCEPT !.end = maxBlockId, !.left = MaxPasses])]
    BY <1>11 DEF ReadMax, history, Fresh
  <2>2. ~AfterHead([op[p] EXCEPT !.end = maxBlockId, !.left = MaxPasses]).stale
    BY <1>4, FreshWalks
  <2> QED
    BY <1>3, <2>1, <2>2
<1>12. ASSUME NEW p \in Procs, SaveHead(p)  PROVE Fresh'
  <2> DEFINE o == op[p]
  <2>1. ~torn' /\ op' = [op EXCEPT ![p] = AfterHead([o EXCEPT !.lo = o.hi, !.left = o.left - 1])]
    BY <1>12 DEF SaveHead, history, Fresh
  <2>2. ~AfterHead([o EXCEPT !.lo = o.hi, !.left = o.left - 1]).stale
    BY <1>4, FreshWalks
  <2> QED
    BY <1>3, <2>1, <2>2
<1>13. ASSUME NEW p \in Procs, SaveBelow(p)  PROVE Fresh'
  <2>1. /\ torn' = (torn \/ op[p].stale)
        /\ \/ op' = [op EXCEPT ![p] = Idle]
           \/ op' = [op EXCEPT ![p] = Chunked([op[p] EXCEPT !.hi = op[p].lo])]
    BY <1>13 DEF SaveBelow
  <2>2. ~torn'
    BY <1>4, <2>1 DEF Fresh
  <2>3. ~Idle.stale /\ ~Chunked([op[p] EXCEPT !.hi = op[p].lo]).stale
    BY <1>4, FreshShapes, FreshWalks
  <2> QED
    BY <1>3, <2>1, <2>2, <2>3
<1> QED
  BY <1>2, <1>5, <1>6, <1>7, <1>8, <1>9, <1>10, <1>11, <1>12, <1>13 DEF Next, Step

(* The excuse of Coverage takes two processes: with one, what the cursors  *)
(* declare done is done, through every reset, rebuild and crash.           *)
THEOREM CursorsTellTheTruthAlone ==
  ASSUME \A p, q \in Procs : p = q
  PROVE  Spec => [](~torn /\ Coverage)
<1>1. Init => Fresh
  BY DEF Init, Fresh, Idle
<1>2. IInv /\ Fresh /\ [Next]_vars => Fresh'
  BY FreshStep
<1>3. Fresh => ~torn
  BY DEF Fresh
<1> QED
  BY <1>1, <1>2, <1>3, Invariant, CursorsTellTheTruth, PTL DEF Spec

=============================================================================
