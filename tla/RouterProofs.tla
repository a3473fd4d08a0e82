---------------------------- MODULE RouterProofs ----------------------------
(***************************************************************************)
(* Theorems about Router, for every number of files, lines, retries, exits *)
(* and every batch size: its variables keep their types, nothing falls out *)
(* between the cursors and the endpoint, nothing is sent again without     *)
(* doubt, and the lines of a file are queued in order.                     *)
(***************************************************************************)
EXTENDS Router, SequenceTheorems, WellFoundedInduction, TLAPS

(* Of a set of numbers that is not empty, one is the smallest: what the    *)
(* inductions below rest on.                                               *)
LEMMA Smallest ==
  ASSUME NEW S \in SUBSET Nat, S # {}
  PROVE  \E n \in S : \A m \in S : n <= m
<1> DEFINE R == {p \in Nat \X Nat : p[1] < p[2]}
<1>1. IsWellFoundedOn(R, Nat)
  BY NatLessThanWellFounded, Zenon DEF OpToRel
<1>2. PICK n \in S : \A m \in S : <<m, n>> \notin R
  BY <1>1, WFMin, Zenon
<1>3. ASSUME NEW m \in S, m < n  PROVE FALSE
  <2>1. <<m, n>> \in R
    BY <1>3
  <2> QED
    BY <1>2, <2>1
<1> QED
  BY <1>3

(* The function LET-defined in NewPieces.                                  *)
LEMMA UpTo ==
  ASSUME NEW from
  PROVE  \E u : /\ u = [f \in 0..NumFiles |-> IF f = 0 THEN <<>>
                         ELSE u[f - 1] \o Pieces(f, from[f], size[f])]
                /\ NewPieces(from) = u[NumFiles]
<1> DEFINE E(g, n) == g = [f \in 0..n |-> IF f = 0 THEN <<>>
                                   ELSE g[f - 1] \o Pieces(f, from[f], size[f])]
           Has(n)  == \E g : E(g, n)
           Bad     == {n \in 0..NumFiles : ~Has(n)}
<1> HIDE DEF Has
<1>1. Bad = {}
  <2> SUFFICES ASSUME Bad # {} PROVE FALSE
    OBVIOUS
  <2>1. PICK n \in Bad : \A m \in Bad : n <= m
    <3>1. Bad \in SUBSET Nat
      OBVIOUS
    <3> QED
      BY <3>1, Smallest
  <2>2. CASE n = 0
    <3>1. E([f \in 0..0 |-> <<>>], 0)
      BY DEF E
    <3> QED
      BY <2>1, <2>2, <3>1 DEF Has
  <2>3. CASE n # 0
    <3>1. n - 1 \in 0..NumFiles /\ n - 1 \notin Bad
      BY <2>1, <2>3, ConstantsAssumption
    <3>2. PICK g : E(g, n - 1)
      BY <3>1 DEF Has
    <3> DEFINE h == [f \in 0..n |-> IF f < n THEN g[f]
                                    ELSE g[n - 1] \o Pieces(n, from[n], size[n])]
    <3>3. \A f \in 0..(n - 1) : g[f] = IF f = 0 THEN <<>>
                                   ELSE g[f - 1] \o Pieces(f, from[f], size[f])
      BY <3>2
    <3>4. ASSUME NEW f \in 0..n
          PROVE  h[f] = IF f = 0 THEN <<>> ELSE h[f - 1] \o Pieces(f, from[f], size[f])
      <4>1. CASE f < n
        BY <3>3, <4>1, <2>3
      <4>2. CASE f = n
        BY <4>2, <2>3
      <4> QED
        BY <4>1, <4>2
    <3>5. E(h, n)
      BY <3>4
    <3> QED
      BY <2>1, <3>5 DEF Has
  <2> QED
    BY <2>2, <2>3
<1>2. PICK g : E(g, NumFiles)
  <2>1. NumFiles \in 0..NumFiles /\ NumFiles \notin Bad
    BY <1>1, ConstantsAssumption
  <2> QED
    BY <2>1 DEF Has
<1> DEFINE u == CHOOSE v : E(v, NumFiles)
<1>3. E(u, NumFiles)
  BY <1>2
<1>4. NewPieces(from) = u[NumFiles]
  BY DEF NewPieces
<1> QED
  BY <1>3, <1>4

------------------------------------------------------------------------------
(* The pieces of one file in a sequence of pieces.  They are the stretch   *)
(* (a, b] of the file when the first starts at a, each starts where the    *)
(* one before it ends, and the last ends at b.                             *)

Of(s, f) == {k \in 1..Len(s) : s[k].file = f}

Linked(s, f, b) ==
  \A k \in Of(s, f) :
    \/ (\A j \in Of(s, f) : j <= k) /\ s[k].to = b
    \/ \E j \in Of(s, f) : /\ j > k /\ s[k].to = s[j].from
                           /\ \A i \in Of(s, f) : i > k => j <= i

Ascending(s, f) ==
  \A j, k \in Of(s, f) : j < k => s[j].to <= s[k].from

Within(s, f, a, b) ==
  \A k \in Of(s, f) : a <= s[k].from /\ s[k].from < s[k].to /\ s[k].to <= b

Begins(s, f, a, b) ==
  \/ Of(s, f) = {} /\ a = b
  \/ \E k \in Of(s, f) : s[k].from = a /\ \A j \in Of(s, f) : k <= j

Covers(s, f, a, b) ==
  \A h \in (a + 1)..b : \E k \in Of(s, f) : s[k].from < h /\ h <= s[k].to

Run(s, f, a, b)     == Linked(s, f, b) /\ Ascending(s, f) /\ Within(s, f, a, b)
Stretch(s, f, a, b) == Run(s, f, a, b) /\ Begins(s, f, a, b) /\ Covers(s, f, a, b)

Offsets == 0..(2 * MaxLines)

LEMMA OfConcat ==
  ASSUME NEW s \in Seq(PieceType), NEW t \in Seq(PieceType), NEW f \in Files
  PROVE  /\ s \o t \in Seq(PieceType) /\ Len(s \o t) = Len(s) + Len(t)
         /\ \A k \in 1..Len(s) : (s \o t)[k] = s[k]
         /\ \A k \in 1..Len(t) : (s \o t)[Len(s) + k] = t[k]
         /\ \A k \in Of(s, f) : k \in Of(s \o t, f) /\ (s \o t)[k] = s[k]
         /\ \A k \in Of(t, f) : Len(s) + k \in Of(s \o t, f) /\ (s \o t)[Len(s) + k] = t[k]
         /\ \A k \in Of(s \o t, f) :
              \/ k \in Of(s, f) /\ k <= Len(s)
              \/ k - Len(s) \in Of(t, f) /\ k > Len(s)
<1>1. s \o t \in Seq(PieceType) /\ Len(s \o t) = Len(s) + Len(t)
  BY ConcatProperties
<1>2. \A k \in 1..Len(s) : (s \o t)[k] = s[k]
  BY ConcatProperties
<1>3. \A k \in 1..Len(t) : (s \o t)[Len(s) + k] = t[k]
  <2> TAKE k \in 1..Len(t)
  <2>1. Len(s) + k \in 1..(Len(s) + Len(t)) /\ Len(s) + k > Len(s)
    OBVIOUS
  <2> QED
    BY <2>1, ConcatProperties
<1>4. ASSUME NEW k \in Of(s \o t, f)
      PROVE  \/ k \in Of(s, f) /\ k <= Len(s)
             \/ k - Len(s) \in Of(t, f) /\ k > Len(s)
  <2>1. CASE k <= Len(s)
    BY <1>1, <1>2, <2>1 DEF Of
  <2>2. CASE k > Len(s)
    <3>1. k - Len(s) \in 1..Len(t) /\ k = Len(s) + (k - Len(s))
      BY <1>1, <2>2 DEF Of
    <3> QED
      BY <1>3, <2>2, <3>1 DEF Of
  <2> QED
    BY <1>1, <2>1, <2>2 DEF Of
<1> QED
  BY <1>1, <1>2, <1>3, <1>4 DEF Of

(* A run continued by a stretch, and a stretch continued by the next.      *)
LEMMA RunConcat ==
  ASSUME NEW s \in Seq(PieceType), NEW t \in Seq(PieceType), NEW f \in Files,
         NEW a \in Offsets, NEW b \in Offsets, NEW c \in Offsets,
         a <= b, b <= c, Run(s, f, a, b), Stretch(t, f, b, c)
  PROVE  Run(s \o t, f, a, c)
<1> DEFINE r == s \o t
           n == Len(s)
<1>1. /\ \A k \in Of(s, f) : k \in Of(r, f) /\ r[k] = s[k]
      /\ \A k \in Of(t, f) : n + k \in Of(r, f) /\ r[n + k] = t[k]
      /\ \A k \in Of(r, f) : \/ k \in Of(s, f) /\ k <= n
                             \/ k - n \in Of(t, f) /\ k > n
  BY OfConcat
<1>2. /\ n \in Nat /\ Of(s, f) \subseteq 1..n /\ Of(t, f) \subseteq 1..Len(t)
      /\ Len(t) \in Nat /\ Of(r, f) \subseteq Nat
      /\ \A k \in Of(s, f) : s[k].from \in Int /\ s[k].to \in Int
      /\ \A k \in Of(t, f) : t[k].from \in Int /\ t[k].to \in Int
  <2>1. /\ n \in Nat /\ Of(s, f) \subseteq 1..n /\ Of(t, f) \subseteq 1..Len(t)
        /\ Of(r, f) \subseteq 1..Len(r) /\ Len(t) \in Nat /\ Len(r) \in Nat
    BY OfConcat DEF Of
  <2>2. \A k \in Of(s, f) : s[k] \in PieceType
    BY ElementOfSeq, <2>1
  <2>3. \A k \in Of(t, f) : t[k] \in PieceType
    BY ElementOfSeq, <2>1
  <2> QED
    BY <2>1, <2>2, <2>3, ConstantsAssumption, SMTT(30) DEF PieceType, Halves
<1>3. \A k \in Of(r, f) : k > n => r[k] = t[k - n]
  <2> TAKE k \in Of(r, f)
  <2>1. k > n => k - n \in Of(t, f) /\ k = n + (k - n)
    BY <1>1, <1>2
  <2> QED
    BY <1>1, <2>1
<1> HIDE DEF r, n
<1>4. Linked(r, f, c)
  <2> SUFFICES ASSUME NEW k \in Of(r, f)
               PROVE  \/ (\A j \in Of(r, f) : j <= k) /\ r[k].to = c
                      \/ \E j \in Of(r, f) : /\ j > k /\ r[k].to = r[j].from
                                             /\ \A i \in Of(r, f) : i > k => j <= i
    BY DEF Linked
  <2>1. CASE k \in Of(s, f)
    <3>1. CASE (\A j \in Of(s, f) : j <= k) /\ s[k].to = b
      <4>1. CASE Of(t, f) = {} /\ b = c
        BY <1>1, <1>2, <2>1, <3>1, <4>1
      <4>2. CASE \E m \in Of(t, f) : t[m].from = b /\ \A j \in Of(t, f) : m <= j
        <5>1. PICK m \in Of(t, f) : t[m].from = b /\ \A j \in Of(t, f) : m <= j
          BY <4>2
        <5>2. n + m \in Of(r, f) /\ n + m > k /\ r[k].to = r[n + m].from
          <6>1. n + m \in Of(r, f) /\ r[n + m].from = b
            BY <1>1, <5>1
          <6>2. r[k].to = b
            BY <1>1, <2>1, <3>1
          <6>3. n + m > k
            BY <1>2, <2>1, <5>1
          <6> QED
            BY <6>1, <6>2, <6>3
        <5>3. ASSUME NEW i \in Of(r, f), i > k  PROVE n + m <= i
          <6>1. i - n \in Of(t, f)
            BY <1>1, <1>2, <3>1, <5>3
          <6> QED
            BY <1>2, <5>1, <6>1
        <5> QED
          BY <5>2, <5>3
      <4> QED
        BY <4>1, <4>2 DEF Stretch, Begins
    <3>2. CASE \E j \in Of(s, f) : /\ j > k /\ s[k].to = s[j].from
                                   /\ \A i \in Of(s, f) : i > k => j <= i
      <4>1. PICK j \in Of(s, f) : /\ j > k /\ s[k].to = s[j].from
                                  /\ \A i \in Of(s, f) : i > k => j <= i
        BY <3>2
      <4>2. j \in Of(r, f) /\ r[k].to = r[j].from
        BY <1>1, <2>1, <4>1
      <4>3. ASSUME NEW i \in Of(r, f), i > k  PROVE j <= i
        BY <1>1, <1>2, <4>1, <4>3
      <4> QED
        BY <4>1, <4>2, <4>3
    <3> QED
      BY <2>1, <3>1, <3>2 DEF Stretch, Run, Linked
  <2>2. CASE k - n \in Of(t, f) /\ k > n
    <3>1. CASE (\A j \in Of(t, f) : j <= k - n) /\ t[k - n].to = c
      BY <1>1, <1>2, <1>3, <2>2, <3>1
    <3>2. CASE \E j \in Of(t, f) : /\ j > k - n /\ t[k - n].to = t[j].from
                                   /\ \A i \in Of(t, f) : i > k - n => j <= i
      <4>1. PICK j \in Of(t, f) : /\ j > k - n /\ t[k - n].to = t[j].from
                                  /\ \A i \in Of(t, f) : i > k - n => j <= i
        BY <3>2
      <4>2. n + j \in Of(r, f) /\ n + j > k /\ r[k].to = r[n + j].from
        BY <1>1, <1>2, <1>3, <2>2, <4>1, SMTT(30)
      <4>3. ASSUME NEW i \in Of(r, f), i > k  PROVE n + j <= i
        <5>1. i - n \in Of(t, f) /\ i - n > k - n
          BY <1>1, <1>2, <2>2, <4>3
        <5> QED
          BY <1>2, <4>1, <5>1
      <4> QED
        BY <4>2, <4>3
    <3> QED
      BY <2>2, <3>1, <3>2 DEF Stretch, Run, Linked
  <2> QED
    BY <1>1, <2>1, <2>2
<1>5. Ascending(r, f) /\ Within(r, f, a, c)
  <2>1. \A k \in Of(s, f) : a <= s[k].from /\ s[k].from < s[k].to /\ s[k].to <= b
    BY DEF Stretch, Run, Within
  <2>2. \A k \in Of(t, f) : b <= t[k].from /\ t[k].from < t[k].to /\ t[k].to <= c
    BY DEF Stretch, Run, Within
  <2>3. Within(r, f, a, c)
    <3> SUFFICES ASSUME NEW k \in Of(r, f)
                 PROVE  a <= r[k].from /\ r[k].from < r[k].to /\ r[k].to <= c
      BY DEF Within
    <3>1. CASE k \in Of(s, f)
      BY <1>1, <1>2, <2>1, <3>1 DEF Offsets
    <3>2. CASE k - n \in Of(t, f) /\ k > n
      BY <1>2, <1>3, <2>2, <3>2, SMTT(30) DEF Offsets
    <3> QED
      BY <1>1, <3>1, <3>2
  <2>4. Ascending(r, f)
    <3> SUFFICES ASSUME NEW j \in Of(r, f), NEW k \in Of(r, f), j < k
                 PROVE  r[j].to <= r[k].from
      BY DEF Ascending
    <3>1. CASE j \in Of(s, f) /\ k \in Of(s, f)
      BY <1>1, <3>1 DEF Stretch, Run, Ascending
    <3>2. CASE j \in Of(s, f) /\ k - n \in Of(t, f) /\ k > n
      <4>1. r[j].to <= b
        BY <1>1, <2>1, <3>2
      <4>2. b <= r[k].from
        BY <1>3, <2>2, <3>2
      <4>3. r[j].to \in Int /\ r[k].from \in Int
        BY <1>1, <1>2, <1>3, <3>2
      <4> QED
        BY <4>1, <4>2, <4>3 DEF Offsets
    <3>3. CASE j - n \in Of(t, f) /\ j > n /\ k - n \in Of(t, f) /\ k > n
      <4>1. j - n < k - n
        BY <1>2
      <4>2. t[j - n].to <= t[k - n].from
        BY <3>3, <4>1 DEF Stretch, Run, Ascending
      <4> QED
        BY <1>3, <3>3, <4>2
    <3>4. CASE j > n /\ k \in Of(s, f)
      BY <1>2, <3>4
    <3> QED
      BY <1>1, <3>1, <3>2, <3>3, <3>4
  <2> QED
    BY <2>3, <2>4
<1> QED
  BY <1>4, <1>5 DEF Run, r

LEMMA StretchConcat ==
  ASSUME NEW s \in Seq(PieceType), NEW t \in Seq(PieceType), NEW f \in Files,
         NEW a \in Offsets, NEW b \in Offsets, NEW c \in Offsets,
         a <= b, b <= c, Stretch(s, f, a, b), Stretch(t, f, b, c)
  PROVE  Stretch(s \o t, f, a, c)
<1> DEFINE r == s \o t
           n == Len(s)
<1>1. /\ \A k \in Of(s, f) : k \in Of(r, f) /\ r[k] = s[k]
      /\ \A k \in Of(t, f) : n + k \in Of(r, f) /\ r[n + k] = t[k]
      /\ \A k \in Of(r, f) : \/ k \in Of(s, f) /\ k <= n
                             \/ k - n \in Of(t, f) /\ k > n
  BY OfConcat
<1>2. n \in Nat /\ Of(s, f) \subseteq 1..n /\ Of(t, f) \subseteq Nat /\ Of(r, f) \subseteq Nat
  BY OfConcat DEF Of
<1> HIDE DEF r, n
<1>6. Begins(r, f, a, c)
  <2>1. CASE \E k \in Of(s, f) : s[k].from = a /\ \A j \in Of(s, f) : k <= j
    <3>1. PICK k \in Of(s, f) : s[k].from = a /\ \A j \in Of(s, f) : k <= j
      BY <2>1
    <3>2. k \in Of(r, f) /\ r[k].from = a
      BY <1>1, <3>1
    <3>3. ASSUME NEW j \in Of(r, f)  PROVE k <= j
      BY <1>1, <1>2, <3>1
    <3> QED
      BY <3>2, <3>3 DEF Begins
  <2>2. CASE Of(s, f) = {} /\ a = b
    <3>1. CASE Of(t, f) = {} /\ b = c
      <4>1. Of(r, f) = {}
        BY <1>1, <2>2, <3>1
      <4> QED
        BY <2>2, <3>1, <4>1 DEF Begins
    <3>2. CASE \E k \in Of(t, f) : t[k].from = b /\ \A j \in Of(t, f) : k <= j
      <4>1. PICK k \in Of(t, f) : t[k].from = b /\ \A j \in Of(t, f) : k <= j
        BY <3>2
      <4>2. n + k \in Of(r, f) /\ r[n + k].from = a
        BY <1>1, <2>2, <4>1
      <4>3. ASSUME NEW j \in Of(r, f)  PROVE n + k <= j
        BY <1>1, <1>2, <2>2, <4>1
      <4> QED
        BY <4>2, <4>3 DEF Begins
    <3> QED
      BY <3>1, <3>2 DEF Stretch, Begins
  <2> QED
    BY <2>1, <2>2 DEF Stretch, Begins
<1>7. Covers(r, f, a, c)
  <2> SUFFICES ASSUME NEW h \in (a + 1)..c
               PROVE  \E k \in Of(r, f) : r[k].from < h /\ h <= r[k].to
    BY DEF Covers
  <2>1. CASE h <= b
    <3>1. PICK k \in Of(s, f) : s[k].from < h /\ h <= s[k].to
      BY <2>1 DEF Stretch, Covers, Offsets
    <3> QED
      BY <1>1, <3>1
  <2>2. CASE h > b
    <3>1. PICK k \in Of(t, f) : t[k].from < h /\ h <= t[k].to
      BY <2>2 DEF Stretch, Covers, Offsets
    <3> QED
      BY <1>1, <3>1
  <2> QED
    BY <2>1, <2>2 DEF Offsets
<1> QED
  BY <1>6, <1>7, RunConcat DEF Stretch, r

LEMMA NoPieces ==
  ASSUME NEW s, NEW f, NEW a \in Nat, Of(s, f) = {}
  PROVE  Stretch(s, f, a, a)
BY DEF Stretch, Run, Linked, Ascending, Within, Begins, Covers

(* What Pieces returns of the bytes from a to b.                           *)
LEMMA PiecesStretch ==
  ASSUME NEW f \in Files, NEW a \in Offsets, NEW b \in Offsets, a <= b
  PROVE  /\ Pieces(f, a, b) \in Seq(PieceType)
         /\ Stretch(Pieces(f, a, b), f, a, b)
         /\ \A g \in Files : g # f => Of(Pieces(f, a, b), g) = {}
<1> DEFINE A == a \div 2
           B == (b + 1) \div 2
           n == IF b > a THEN B - A ELSE 0
           s == Pieces(f, a, b)
           From(k) == IF a > 2 * (A + k - 1) THEN a ELSE 2 * (A + k - 1)
           To(k)   == IF b < 2 * (A + k) THEN b ELSE 2 * (A + k)
<1>1. /\ A \in Nat /\ 2 * A <= a /\ a <= 2 * A + 1
      /\ B \in Nat /\ 2 * B <= b + 1 /\ b <= 2 * B
      /\ a \in Nat /\ b \in Nat
  BY ConstantsAssumption DEF Offsets
<1>2. s = [k \in 1..n |-> [file |-> f, from |-> From(k), to |-> To(k)]]
  <2>1. \A k \in 1..n : 2 * (A + k - 1) + 2 = 2 * (A + k)
    BY <1>1
  <2> QED
    BY <2>1 DEF Pieces
<1> HIDE DEF A, B, s
<1>3. n \in Nat
  BY <1>1
<1>4. \A k \in 1..n : /\ a <= From(k) /\ From(k) < To(k) /\ To(k) <= b
                      /\ From(k) \in Nat /\ To(k) \in Nat
  BY <1>1
<1>5. s \in Seq(PieceType) /\ Len(s) = n
  <2>1. \A k \in 1..n : [file |-> f, from |-> From(k), to |-> To(k)] \in PieceType
    BY <1>1, <1>4, ConstantsAssumption DEF PieceType, Offsets, Halves
  <2>2. s \in [1..n -> PieceType]
    BY <1>2, <2>1
  <2> QED
    BY <1>3, <2>2
<1>6. Of(s, f) = 1..n /\ \A k \in 1..n : s[k].from = From(k) /\ s[k].to = To(k)
  BY <1>2, <1>5 DEF Of
<1>7. \A g \in Files : g # f => Of(s, g) = {}
  BY <1>2, <1>5 DEF Of
<1>8. Linked(s, f, b)
  <2> SUFFICES ASSUME NEW k \in 1..n
               PROVE  \/ (\A j \in 1..n : j <= k) /\ To(k) = b
                      \/ \E j \in 1..n : /\ j > k /\ To(k) = From(j)
                                         /\ \A i \in 1..n : i > k => j <= i
    BY <1>6 DEF Linked
  <2>1. CASE k = n
    BY <1>1, <2>1
  <2>2. CASE k < n
    <3>1. To(k) = From(k + 1)
      BY <1>1, <1>3, <2>2
    <3>2. k + 1 \in 1..n /\ \A i \in 1..n : i > k => k + 1 <= i
      BY <1>3, <2>2
    <3> QED
      BY <3>1, <3>2
  <2> QED
    BY <1>3, <2>1, <2>2
<1>9. Ascending(s, f) /\ Within(s, f, a, b)
  <2>1. Within(s, f, a, b)
    BY <1>4, <1>6 DEF Within
  <2>2. \A j, k \in 1..n : j < k => To(j) <= From(k)
    BY <1>1, <1>3
  <2> QED
    BY <1>6, <2>1, <2>2 DEF Ascending
<1>10. Begins(s, f, a, b)
  <2>1. CASE n = 0
    <3>1. a = b
      BY <1>1, <2>1
    <3> QED
      BY <1>6, <2>1, <3>1 DEF Begins
  <2>2. CASE n > 0
    <3>1. 1 \in 1..n /\ From(1) = a /\ \A j \in 1..n : 1 <= j
      BY <1>1, <1>3, <2>2
    <3> QED
      BY <1>6, <3>1 DEF Begins
  <2> QED
    BY <1>3, <2>1, <2>2
<1>11. Covers(s, f, a, b)
  <2> SUFFICES ASSUME NEW h \in (a + 1)..b
               PROVE  \E k \in 1..n : From(k) < h /\ h <= To(k)
    BY <1>6 DEF Covers
  <2> DEFINE C == (h + 1) \div 2
  <2>1. C \in Nat /\ 2 * C <= h + 1 /\ h <= 2 * C
    BY <1>1
  <2> HIDE DEF C
  <2>2. C - A \in 1..n /\ From(C - A) < h /\ h <= To(C - A)
    BY <1>1, <2>1
  <2> QED
    BY <2>2
<1> QED
  BY <1>5, <1>7, <1>8, <1>9, <1>10, <1>11 DEF Stretch, Run, s

Grown(from) == /\ from \in [Files -> Offsets] /\ size \in [Files -> Offsets]
               /\ \A f \in Files : from[f] <= size[f]

(* What a scan queues: of every file the stretch from its cursor to its    *)
(* size.                                                                   *)
LEMMA NewStretch ==
  ASSUME NEW from, Grown(from)
  PROVE  /\ NewPieces(from) \in Seq(PieceType)
         /\ \A f \in Files : Stretch(NewPieces(from), f, from[f], size[f])
<1>1. PICK u : /\ u = [f \in 0..NumFiles |-> IF f = 0 THEN <<>>
                         ELSE u[f - 1] \o Pieces(f, from[f], size[f])]
               /\ NewPieces(from) = u[NumFiles]
  BY UpTo
<1>2. /\ u[0] = <<>>
      /\ \A n \in 1..NumFiles : u[n] = u[n - 1] \o Pieces(n, from[n], size[n])
  <2>1. u[0] = <<>>
    BY <1>1, ConstantsAssumption
  <2>2. ASSUME NEW n \in 1..NumFiles  PROVE u[n] = u[n - 1] \o Pieces(n, from[n], size[n])
    <3>1. n \in 0..NumFiles /\ n # 0
      BY ConstantsAssumption
    <3> QED
      BY <1>1, <3>1
  <2> QED
    BY <2>1, <2>2
<1> DEFINE Good(n) == /\ u[n] \in Seq(PieceType)
                      /\ \A f \in Files : f <= n => Stretch(u[n], f, from[f], size[f])
                      /\ \A f \in Files : f > n => Of(u[n], f) = {}
           Bad     == {n \in 0..NumFiles : ~Good(n)}
<1>3. ASSUME NEW n \in 1..NumFiles, Good(n - 1)  PROVE Good(n)
  <2> DEFINE p == Pieces(n, from[n], size[n])
             v == u[n - 1]
  <2>1. /\ n \in Files /\ from[n] \in Offsets /\ size[n] \in Offsets /\ from[n] <= size[n]
        /\ \A f \in Files : from[f] \in Offsets /\ size[f] \in Offsets /\ f \in Int
        /\ \A f \in Files : from[f] \in Nat /\ size[f] \in Nat /\ from[f] <= size[f]
    BY DEF Grown, Files, Offsets
  <2>2. /\ p \in Seq(PieceType) /\ Stretch(p, n, from[n], size[n])
        /\ \A f \in Files : f # n => Of(p, f) = {}
    BY <2>1, PiecesStretch
  <2>3. v \in Seq(PieceType) /\ u[n] = v \o p
    BY <1>2, <1>3
  <2> HIDE DEF p, v
  <2>4. u[n] \in Seq(PieceType)
    BY <2>2, <2>3, ConcatProperties
  <2>5. ASSUME NEW f \in Files, f < n  PROVE Stretch(u[n], f, from[f], size[f])
    <3>1. Stretch(v, f, from[f], size[f])
      BY <1>3, <2>1, <2>5 DEF v
    <3>2. Stretch(p, f, size[f], size[f])
      BY <2>1, <2>2, <2>5, NoPieces
    <3> QED
      BY <2>1, <2>2, <2>3, <3>1, <3>2, StretchConcat DEF Offsets
  <2>6. Stretch(u[n], n, from[n], size[n])
    <3>1. Stretch(v, n, from[n], from[n])
      BY <1>3, <2>1, NoPieces DEF v
    <3> QED
      BY <2>1, <2>2, <2>3, <3>1, StretchConcat DEF Offsets
  <2>7. ASSUME NEW f \in Files, f > n  PROVE Of(u[n], f) = {}
    <3>1. Of(v, f) = {} /\ Of(p, f) = {}
      BY <1>3, <2>1, <2>2, <2>7 DEF v
    <3> QED
      BY <2>2, <2>3, <3>1, OfConcat
  <2> QED
    BY <2>1, <2>4, <2>5, <2>6, <2>7
<1>4. Good(0)
  BY <1>2 DEF Of, Files
<1> HIDE DEF Good
<1>5. Bad = {}
  <2> SUFFICES ASSUME Bad # {} PROVE FALSE
    OBVIOUS
  <2>1. Bad \in SUBSET Nat
    OBVIOUS
  <2>2. PICK n \in Bad : \A m \in Bad : n <= m
    BY <2>1, Smallest
  <2>3. n # 0 /\ n \in 0..NumFiles
    BY <1>4, <2>2
  <2>4. n - 1 \in 0..NumFiles /\ n - 1 \notin Bad
    BY <2>2, <2>3, ConstantsAssumption
  <2>5. n \in 1..NumFiles /\ Good(n - 1)
    BY <2>3, <2>4, ConstantsAssumption
  <2> QED
    BY <1>3, <2>2, <2>5
<1>6. Good(NumFiles)
  BY <1>5, ConstantsAssumption
<1> QED
  BY <1>1, <1>6, ConstantsAssumption DEF Good, Files

------------------------------------------------------------------------------
(* The halves of lines that a sequence of pieces holds.                    *)

LEMMA InUnits ==
  ASSUME NEW s \in Seq(PieceType)
  PROVE  /\ UnitsOf(s) \subseteq Units
         /\ \A x \in Units : x \in UnitsOf(s) <=>
              \E k \in Of(s, x[1]) : s[k].from < x[2] /\ x[2] <= s[k].to
<1>1. \A k \in 1..Len(s) : /\ s[k].file \in Files /\ s[k].from \in Nat
                           /\ s[k].to \in Halves /\ s[k].to \in Nat
  <2>1. \A k \in 1..Len(s) : s[k] \in PieceType
    BY ElementOfSeq
  <2> QED
    BY <2>1, ConstantsAssumption DEF PieceType, Halves
<1>2. DOMAIN s = 1..Len(s)
  BY LenProperties
<1>3. UnitsOf(s) \subseteq Units
  <2> SUFFICES ASSUME NEW k \in 1..Len(s), NEW h \in (s[k].from + 1)..s[k].to
               PROVE  <<s[k].file, h>> \in Units
    BY <1>2 DEF UnitsOf
  <2>1. h \in Halves
    BY <1>1, ConstantsAssumption DEF Halves
  <2> QED
    BY <1>1, <2>1 DEF Units
<1>4. ASSUME NEW x \in Units
      PROVE  x \in UnitsOf(s) <=> \E k \in Of(s, x[1]) : s[k].from < x[2] /\ x[2] <= s[k].to
  <2>1. x = <<x[1], x[2]>> /\ x[1] \in Files /\ x[2] \in Nat
    BY ConstantsAssumption DEF Units, Halves
  <2>2. ASSUME x \in UnitsOf(s)
        PROVE  \E k \in Of(s, x[1]) : s[k].from < x[2] /\ x[2] <= s[k].to
    <3>1. PICK k \in 1..Len(s) : \E h \in (s[k].from + 1)..s[k].to : x = <<s[k].file, h>>
      BY <1>2, <2>2 DEF UnitsOf
    <3>2. PICK h \in (s[k].from + 1)..s[k].to : x = <<s[k].file, h>>
      BY <3>1
    <3>3. x[1] = s[k].file /\ x[2] = h
      BY <3>2
    <3> QED
      BY <1>1, <3>2, <3>3 DEF Of
  <2>3. ASSUME NEW k \in Of(s, x[1]), s[k].from < x[2], x[2] <= s[k].to
        PROVE  x \in UnitsOf(s)
    <3>1. k \in 1..Len(s) /\ s[k].file = x[1]
      BY DEF Of
    <3>2. x[2] \in (s[k].from + 1)..s[k].to
      BY <1>1, <2>1, <2>3, <3>1
    <3>3. x = <<s[k].file, x[2]>>
      BY <2>1, <3>1
    <3> QED
      BY <1>2, <3>1, <3>2, <3>3 DEF UnitsOf
  <2> QED
    BY <2>2, <2>3
<1> QED
  BY <1>3, <1>4

LEMMA UnitsConcat ==
  ASSUME NEW s \in Seq(PieceType), NEW t \in Seq(PieceType)
  PROVE  UnitsOf(s \o t) = UnitsOf(s) \cup UnitsOf(t)
<1>1. s \o t \in Seq(PieceType)
  BY ConcatProperties
<1>2. ASSUME NEW x \in Units
      PROVE  x \in UnitsOf(s \o t) <=> x \in UnitsOf(s) \cup UnitsOf(t)
  <2> DEFINE f == x[1]
             r == s \o t
  <2>1. f \in Files
    BY DEF Units
  <2>2. /\ \A k \in Of(s, f) : k \in Of(r, f) /\ r[k] = s[k]
        /\ \A k \in Of(t, f) : Len(s) + k \in Of(r, f) /\ r[Len(s) + k] = t[k]
        /\ \A k \in Of(r, f) : k \in Of(s, f) \/ k - Len(s) \in Of(t, f)
    BY <2>1, OfConcat
  <2> HIDE DEF r
  <2>3. \A k \in Of(r, f) : k \in Of(s, f) \/ (k - Len(s) \in Of(t, f) /\ r[k] = t[k - Len(s)])
    <3> TAKE k \in Of(r, f)
    <3>1. k \in Int /\ Len(s) \in Int
      BY OfConcat, <2>1 DEF Of, r
    <3>2. Len(s) + (k - Len(s)) = k
      BY <3>1
    <3> QED
      BY <2>2, <3>2
  <2>4. /\ x \in UnitsOf(s) <=> \E k \in Of(s, f) : s[k].from < x[2] /\ x[2] <= s[k].to
        /\ x \in UnitsOf(t) <=> \E k \in Of(t, f) : t[k].from < x[2] /\ x[2] <= t[k].to
        /\ x \in UnitsOf(r) <=> \E k \in Of(r, f) : r[k].from < x[2] /\ x[2] <= r[k].to
    BY <1>1, InUnits DEF r
  <2>5. ASSUME x \in UnitsOf(r)  PROVE x \in UnitsOf(s) \cup UnitsOf(t)
    <3>1. PICK k \in Of(r, f) : r[k].from < x[2] /\ x[2] <= r[k].to
      BY <2>4, <2>5
    <3>2. CASE k \in Of(s, f)
      BY <2>2, <2>4, <3>1, <3>2
    <3>3. CASE k - Len(s) \in Of(t, f) /\ r[k] = t[k - Len(s)]
      BY <2>4, <3>1, <3>3
    <3> QED
      BY <2>3, <3>2, <3>3
  <2>6. ASSUME x \in UnitsOf(s) \cup UnitsOf(t)  PROVE x \in UnitsOf(r)
    BY <2>2, <2>4, <2>6
  <2> QED
    BY <2>5, <2>6 DEF r
<1> QED
  BY <1>1, <1>2, InUnits

(* Two parts of a queue that ascends hold no half line in common.          *)
LEMMA Disjoint ==
  ASSUME NEW s \in Seq(PieceType), NEW t \in Seq(PieceType),
         \A f \in Files : Ascending(s \o t, f),
         NEW x \in UnitsOf(s), x \in UnitsOf(t)
  PROVE  FALSE
<1> DEFINE r == s \o t
<1>1. x \in Units /\ x[1] \in Files /\ x[2] \in Int
  BY InUnits, ConstantsAssumption DEF Units, Halves
<1>2. PICK j \in Of(s, x[1]) : s[j].from < x[2] /\ x[2] <= s[j].to
  BY <1>1, InUnits
<1>3. PICK k \in Of(t, x[1]) : t[k].from < x[2] /\ x[2] <= t[k].to
  BY <1>1, InUnits
<1>4. j \in Of(r, x[1]) /\ Len(s) + k \in Of(r, x[1]) /\ r[j] = s[j] /\ r[Len(s) + k] = t[k]
  <2>1. /\ \A i \in Of(s, x[1]) : i \in Of(s \o t, x[1]) /\ (s \o t)[i] = s[i]
        /\ \A i \in Of(t, x[1]) : /\ Len(s) + i \in Of(s \o t, x[1])
                                 /\ (s \o t)[Len(s) + i] = t[i]
    BY <1>1, OfConcat
  <2> QED
    BY <1>2, <1>3, <2>1
<1>5. j < Len(s) + k
  BY <1>2, <1>3, LenProperties DEF Of
<1>6. s[j].to <= t[k].from
  BY <1>1, <1>4, <1>5 DEF Ascending
<1>7. s[j].to \in Int /\ t[k].from \in Int
  <2>1. s[j] \in PieceType /\ t[k] \in PieceType
    BY <1>2, <1>3, ElementOfSeq DEF Of
  <2> QED
    BY <2>1, ConstantsAssumption, SMTT(30) DEF PieceType, Halves
<1> QED
  BY <1>1, <1>2, <1>3, <1>6, <1>7

(* Without its first pieces a run is still one.                            *)
LEMMA RunSuffix ==
  ASSUME NEW s \in Seq(PieceType), NEW t \in Seq(PieceType), NEW f \in Files,
         NEW a, NEW b, Run(s \o t, f, a, b)
  PROVE  Run(t, f, a, b)
<1> DEFINE r == s \o t
           n == Len(s)
<1>1. /\ \A k \in Of(t, f) : n + k \in Of(r, f) /\ r[n + k] = t[k]
      /\ \A k \in Of(r, f) : \/ k \in Of(s, f) /\ k <= n
                             \/ k - n \in Of(t, f) /\ k > n
  BY OfConcat
<1>2. n \in Nat /\ Of(t, f) \subseteq Nat \ {0} /\ Of(r, f) \subseteq Nat
  BY OfConcat DEF Of
<1> HIDE DEF r, n
<1>3. ASSUME NEW k \in Of(t, f)
      PROVE  \/ (\A j \in Of(t, f) : j <= k) /\ t[k].to = b
             \/ \E j \in Of(t, f) : /\ j > k /\ t[k].to = t[j].from
                                    /\ \A i \in Of(t, f) : i > k => j <= i
  <2>1. CASE (\A j \in Of(r, f) : j <= n + k) /\ r[n + k].to = b
    BY <1>1, <1>2, <2>1
  <2>2. CASE \E j \in Of(r, f) : /\ j > n + k /\ r[n + k].to = r[j].from
                                 /\ \A i \in Of(r, f) : i > n + k => j <= i
    <3>1. PICK j \in Of(r, f) : /\ j > n + k /\ r[n + k].to = r[j].from
                                /\ \A i \in Of(r, f) : i > n + k => j <= i
      BY <2>2
    <3>2. j - n \in Of(t, f) /\ j - n > k /\ j = n + (j - n)
      BY <1>1, <1>2, <3>1
    <3>3. t[k].to = t[j - n].from
      BY <1>1, <3>1, <3>2
    <3>4. ASSUME NEW i \in Of(t, f), i > k  PROVE j - n <= i
      <4>1. n + i \in Of(r, f) /\ n + i > n + k
        BY <1>1, <1>2, <3>4
      <4>2. j <= n + i
        BY <3>1, <4>1
      <4> QED
        BY <1>2, <4>2
    <3> QED
      BY <3>2, <3>3, <3>4
  <2> QED
    BY <1>1, <2>1, <2>2 DEF Run, Linked, r
<1>4. Ascending(t, f) /\ Within(t, f, a, b)
  <2>1. Ascending(r, f) /\ Within(r, f, a, b)
    BY DEF Run, r
  <2>2. ASSUME NEW j \in Of(t, f), NEW k \in Of(t, f), j < k  PROVE t[j].to <= t[k].from
    <3>1. n + j \in Of(r, f) /\ n + k \in Of(r, f) /\ n + j < n + k
      BY <1>1, <1>2, <2>2
    <3> QED
      BY <1>1, <2>1, <3>1 DEF Ascending
  <2>3. ASSUME NEW k \in Of(t, f)  PROVE a <= t[k].from /\ t[k].from < t[k].to /\ t[k].to <= b
    BY <1>1, <2>1 DEF Within
  <2> QED
    BY <2>2, <2>3 DEF Ascending, Within
<1> QED
  BY <1>3, <1>4 DEF Run, Linked

(* Taking a batch off a queue splits it.                                   *)
LEMMA DrainSplits ==
  ASSUME NEW queue \in Seq(PieceType), Drain(queue) \/ DrainIfFull(queue)
  PROVE  /\ batch' \in Seq(PieceType) /\ pending' \in Seq(PieceType)
         /\ batch' \o pending' = queue
         /\ attempt' \in 0..MaxRetries /\ took' = FALSE
<1>1. ASSUME Drain(queue)
      PROVE  /\ batch' \in Seq(PieceType) /\ pending' \in Seq(PieceType)
             /\ batch' \o pending' = queue
             /\ attempt' \in 0..MaxRetries /\ took' = FALSE
  <2> DEFINE n == Least(Len(queue), BatchSize)
  <2>1. n \in 0..Len(queue) /\ Len(queue) \in Nat
    BY ConstantsAssumption, LenProperties DEF Least
  <2>2. batch' = SubSeq(queue, 1, n) /\ pending' = SubSeq(queue, n + 1, Len(queue))
    BY <1>1 DEF Drain
  <2> HIDE DEF n
  <2>3. batch' \in Seq(PieceType) /\ pending' \in Seq(PieceType)
    BY <2>1, <2>2, SubSeqProperties
  <2>4. batch' \o pending' = queue
    <3>1. 1 \in 1..(Len(queue) + 1) /\ n \in (1 - 1)..Len(queue) /\ Len(queue) \in n..Len(queue)
      BY <2>1
    <3>2. SubSeq(queue, 1, n) \o SubSeq(queue, n + 1, Len(queue)) = SubSeq(queue, 1, Len(queue))
      BY <3>1, ConcatAdjacentSubSeq
    <3> QED
      BY <2>2, <3>2, SubSeqFull
  <2>5. attempt' \in 0..MaxRetries /\ took' = FALSE
    BY <1>1, ConstantsAssumption DEF Drain
  <2> QED
    BY <2>3, <2>4, <2>5
<1>2. CASE batch' = <<>> /\ pending' = queue /\ attempt' = 0 /\ took' = FALSE
  <2>1. <<>> \o queue = queue
    BY ConcatEmptySeq
  <2> QED
    BY <1>2, <2>1, ConstantsAssumption
<1> QED
  BY <1>1, <1>2 DEF DrainIfFull

(* The new pieces are the half lines between cursor and size.              *)
LEMMA NewUnits ==
  ASSUME NEW from, Grown(from), NEW x \in Units
  PROVE  x \in UnitsOf(NewPieces(from)) <=> from[x[1]] < x[2] /\ x[2] <= size[x[1]]
<1> DEFINE f == x[1]
           s == NewPieces(from)
<1>1. f \in Files /\ x[2] \in Nat /\ from[f] \in Nat /\ size[f] \in Nat
  BY ConstantsAssumption DEF Units, Halves, Grown, Offsets
<1>2. s \in Seq(PieceType) /\ Stretch(s, f, from[f], size[f])
  BY <1>1, NewStretch
<1>3. \A k \in Of(s, f) : s[k].from \in Nat /\ s[k].to \in Nat
  <2>1. \A k \in Of(s, f) : s[k] \in PieceType
    BY <1>2, ElementOfSeq DEF Of
  <2> QED
    BY <2>1, ConstantsAssumption DEF PieceType, Halves
<1> HIDE DEF s
<1>4. x \in UnitsOf(s) <=> \E k \in Of(s, f) : s[k].from < x[2] /\ x[2] <= s[k].to
  BY <1>2, InUnits
<1>5. ASSUME NEW k \in Of(s, f), s[k].from < x[2], x[2] <= s[k].to
      PROVE  from[f] < x[2] /\ x[2] <= size[f]
  <2>1. from[f] <= s[k].from /\ s[k].to <= size[f]
    BY <1>2 DEF Stretch, Run, Within
  <2> QED
    BY <1>1, <1>3, <1>5, <2>1
<1>6. ASSUME from[f] < x[2], x[2] <= size[f]
      PROVE  \E k \in Of(s, f) : s[k].from < x[2] /\ x[2] <= s[k].to
  <2>1. x[2] \in (from[f] + 1)..size[f]
    BY <1>1, <1>6
  <2> QED
    BY <1>2, <2>1 DEF Stretch, Covers
<1> QED
  BY <1>4, <1>5, <1>6 DEF s

------------------------------------------------------------------------------
(* The inductive invariant.  The queue of a file is a run up to its        *)
(* cursor.  What is taken and not saved is queued or in doubt, so a process *)
(* that dies leaves nothing taken above the cursors on disk that is not in *)
(* doubt; what is queued was not taken before, unless it is in doubt.      *)

Queue == batch \o pending

Bounded ==
  /\ \A f \in Files : /\ saved[f] <= size[f] /\ cursors[f] <= size[f]
                      /\ phase # "down" => saved[f] <= cursors[f]
                      /\ phase = "down" => cursors[f] = 0
  /\ phase = "down" => batch = <<>> /\ pending = <<>>

Lined == \A f \in Files : Run(Queue, f, 0, cursors[f])

Unsaved ==
  phase # "down" =>
    \A x \in Units : saved[x[1]] < x[2] /\ x[2] <= cursors[x[1]] /\ taken[x] > 0
                      => x \in Queued \cup unsure

InFlight == took => \A x \in UnitsOf(batch) : taken[x] > 0

Doubt ==
  /\ \A x \in UnitsOf(pending) : taken[x] > 0 => x \in unsure
  /\ ~took => \A x \in UnitsOf(batch) : taken[x] > 0 => x \in unsure
  /\ phase # "down" => \A x \in Units : x[2] > cursors[x[1]] /\ taken[x] > 0 => x \in unsure
  /\ phase = "down" => \A x \in Units : x[2] > saved[x[1]] /\ taken[x] > 0 => x \in unsure

IInv == /\ TypeOK /\ Bounded /\ Lined /\ Unsaved /\ InFlight /\ Doubt
        /\ NothingFallsOut /\ ResentOnlyInDoubt

(* What a step knows of the numbers it compares.                           *)
LEMMA Numbers ==
  ASSUME TypeOK
  PROVE  /\ \A x \in Units : /\ x[1] \in Files /\ x[2] \in Nat /\ x[2] > 0 /\ x = <<x[1], x[2]>>
                             /\ saved[x[1]] \in Nat /\ cursors[x[1]] \in Nat /\ size[x[1]] \in Nat
                             /\ taken[x] \in 0..2
         /\ UnitsOf(batch) \subseteq Units /\ UnitsOf(pending) \subseteq Units
         /\ Queue \in Seq(PieceType) /\ UnitsOf(Queue) = Queued
<1>1. \A x \in Units : x[1] \in Files /\ x[2] \in Nat /\ x[2] > 0 /\ x = <<x[1], x[2]>>
  BY ConstantsAssumption DEF Units, Halves
<1>2. \A f \in Files : saved[f] \in Nat /\ cursors[f] \in Nat /\ size[f] \in Nat
  BY ConstantsAssumption DEF TypeOK
<1>3. UnitsOf(batch) \subseteq Units /\ UnitsOf(pending) \subseteq Units
  BY InUnits DEF TypeOK
<1>4. Queue \in Seq(PieceType) /\ UnitsOf(Queue) = Queued
  BY ConcatProperties, UnitsConcat DEF TypeOK, Queue, Queued
<1> QED
  BY <1>1, <1>2, <1>3, <1>4 DEF TypeOK

(* The queue after a batch was taken off it.                               *)
LEMMA Refill ==
  ASSUME NEW queue \in Seq(PieceType), Drain(queue) \/ DrainIfFull(queue),
         \A f \in Files : Run(queue, f, 0, cursors'[f])
  PROVE  /\ batch' \in Seq(PieceType) /\ pending' \in Seq(PieceType)
         /\ attempt' \in 0..MaxRetries /\ took' = FALSE
         /\ Lined' /\ Queued' = UnitsOf(queue)
<1>1. /\ batch' \in Seq(PieceType) /\ pending' \in Seq(PieceType)
      /\ batch' \o pending' = queue
      /\ attempt' \in 0..MaxRetries /\ took' = FALSE
  BY DrainSplits
<1>2. UnitsOf(batch' \o pending') = UnitsOf(batch') \cup UnitsOf(pending')
  BY <1>1, UnitsConcat
<1>3. Queued' = UnitsOf(batch') \cup UnitsOf(pending')
  BY DEF Queued, UnitsOf
<1> QED
  BY <1>1, <1>2, <1>3 DEF Lined, Queue

LEMMA FromZero ==
  ASSUME NEW s \in Seq(PieceType), NEW f \in Files, NEW a \in Nat, NEW b, Run(s, f, a, b)
  PROVE  Run(s, f, 0, b)
<1>1. \A k \in Of(s, f) : s[k].from \in Nat
  <2>1. \A k \in Of(s, f) : s[k] \in PieceType
    BY ElementOfSeq DEF Of
  <2> QED
    BY <2>1, ConstantsAssumption DEF PieceType
<1> QED
  BY <1>1 DEF Run, Within

LEMMA InitInv == Init => IInv
<1> SUFFICES ASSUME Init PROVE IInv
  OBVIOUS
<1>1. /\ batch \in Seq(PieceType) /\ pending \in Seq(PieceType) /\ Len(Queue) = 0
      /\ UnitsOf(batch) = {} /\ UnitsOf(pending) = {}
  BY DEF Init, Queue, UnitsOf
<1>2. TypeOK
  <2>1. /\ size \in [Files -> 0..(2 * MaxLines)] /\ saved \in [Files -> 0..(2 * MaxLines)]
        /\ cursors \in [Files -> 0..(2 * MaxLines)]
    BY ConstantsAssumption DEF Init
  <2>2. taken \in [Units -> 0..2]
    BY DEF Init
  <2>3. attempt \in 0..MaxRetries /\ saveFailures \in 0..MaxSaveFailures /\ exits \in 0..MaxExits
    BY ConstantsAssumption DEF Init
  <2> QED
    BY <1>1, <2>1, <2>2, <2>3 DEF Init, TypeOK
<1>3. Bounded
  BY DEF Init, Bounded
<1>4. Lined
  BY <1>1 DEF Lined, Run, Linked, Ascending, Within, Of
<1>5. \A x \in Units : x[1] \in Files /\ x[2] > 0 /\ taken[x] = 0 /\ saved[x[1]] = 0 /\ cursors[x[1]] = 0
  BY <1>2, Numbers DEF Init
<1>6. NothingFallsOut /\ ResentOnlyInDoubt
  BY <1>5 DEF NothingFallsOut, ResentOnlyInDoubt, Units, Halves
<1>7. Unsaved /\ InFlight /\ Doubt
  BY <1>1, <1>5 DEF Init, Unsaved, InFlight, Doubt
<1> QED
  BY <1>2, <1>3, <1>4, <1>6, <1>7 DEF IInv

LEMMA WriteStep ==
  ASSUME IInv, NEW f \in Files, Write(f)
  PROVE  IInv'
<1>1. /\ size' = [size EXCEPT ![f] = @ + 1] /\ size[f] < 2 * MaxLines /\ event' = Up
      /\ UNCHANGED <<saved, phase, cursors, pending, batch, attempt, took, taken, unsure,
                     abandoned, saveFailures, exits>>
  BY DEF Write, memory, history, faults
<1>2. TypeOK /\ \A g \in Files : size'[g] >= size[g] /\ saved[g] \in Nat /\ cursors[g] \in Nat
                                 /\ size[g] \in Nat /\ size'[g] \in Nat
  BY <1>1, ConstantsAssumption DEF IInv, TypeOK
<1>3. TypeOK'
  <2>1. size' \in [Files -> 0..(2 * MaxLines)] /\ event' \in BOOLEAN
    BY <1>1, <1>2, ConstantsAssumption DEF TypeOK, Up
  <2> QED
    BY <1>1, <1>2, <2>1 DEF TypeOK
<1>4. Bounded'
  <2>1. Bounded
    BY DEF IInv
  <2> QED
    BY <1>1, <1>2, <2>1 DEF Bounded
<1>5. Lined' /\ Unsaved' /\ InFlight' /\ Doubt' /\ NothingFallsOut' /\ ResentOnlyInDoubt'
  BY <1>1 DEF IInv, Lined, Queue, Unsaved, InFlight, Doubt, NothingFallsOut, ResentOnlyInDoubt,
              Queued
<1> QED
  BY <1>3, <1>4, <1>5 DEF IInv

LEMMA StartStep ==
  ASSUME IInv, Start
  PROVE  IInv'
<1> DEFINE new == NewPieces(saved)
<1>1. /\ phase = "down" /\ phase' = "scanned" /\ event' = FALSE /\ cursors' = size
      /\ DrainIfFull(new)
      /\ UNCHANGED <<size, saved, taken, unsure, abandoned, saveFailures, exits>>
  BY DEF Start, history, faults
<1>2. TypeOK /\ Grown(saved)
  BY DEF IInv, TypeOK, Grown, Bounded, Offsets
<1>3. new \in Seq(PieceType) /\ \A f \in Files : Stretch(new, f, saved[f], size[f])
  BY <1>2, NewStretch
<1>4. \A f \in Files : Run(new, f, 0, cursors'[f])
  <2>1. \A f \in Files : saved[f] \in Nat
    BY <1>2 DEF Grown, Offsets
  <2> QED
    BY <1>1, <1>3, <2>1, FromZero DEF Stretch
<1>5. \A x \in Units : x \in UnitsOf(new) <=> saved[x[1]] < x[2] /\ x[2] <= size[x[1]]
  BY <1>2, NewUnits
<1> HIDE DEF new
<1>6. /\ batch' \in Seq(PieceType) /\ pending' \in Seq(PieceType)
      /\ attempt' \in 0..MaxRetries /\ took' = FALSE
      /\ Lined' /\ Queued' = UnitsOf(new)
  BY <1>1, <1>3, <1>4, Refill
<1>7. TypeOK'
  BY <1>1, <1>2, <1>6 DEF TypeOK
<1>8. Bounded'
  BY <1>1, <1>2 DEF Bounded, Grown, Offsets
<1>9. /\ \A x \in Units : /\ x[1] \in Files /\ x[2] \in Nat /\ saved[x[1]] \in Nat
                          /\ size[x[1]] \in Nat /\ saved[x[1]] <= size[x[1]]
      /\ Queued = {} /\ UnitsOf(batch') \cup UnitsOf(pending') = Queued'
      /\ UnitsOf(batch') \subseteq Units /\ UnitsOf(pending') \subseteq Units
  <2>1. Queued = {}
    BY <1>1 DEF IInv, Bounded, Queued, UnitsOf
  <2> QED
    BY <1>2, <1>6, <2>1, Numbers, InUnits DEF Grown, Queued, UnitsOf
<1>10. Unsaved'
  BY <1>1, <1>5, <1>6 DEF Unsaved
<1>11. Doubt'
  <2>1. \A x \in Units : x[2] > saved[x[1]] /\ taken[x] > 0 => x \in unsure
    BY <1>1 DEF IInv, Doubt
  <2>2. \A x \in UnitsOf(new) : x \in Units /\ x[2] > saved[x[1]]
    BY <1>5, <1>6, <1>9
  <2>3. \A x \in Units : x[2] > size[x[1]] => x[2] > saved[x[1]]
    BY <1>9
  <2> QED
    BY <1>1, <1>6, <1>9, <2>1, <2>2, <2>3 DEF Doubt
<1>12. NothingFallsOut'
  <2> SUFFICES ASSUME NEW x \in Units, x[2] <= saved[x[1]] \/ x[2] <= size[x[1]]
               PROVE  taken[x] > 0 \/ x \in Queued' \cup abandoned
    BY <1>1 DEF NothingFallsOut
  <2>1. CASE x[2] <= saved[x[1]]
    BY <1>9, <2>1 DEF IInv, NothingFallsOut
  <2>2. CASE ~(x[2] <= saved[x[1]])
    BY <1>5, <1>6, <1>9, <2>2
  <2> QED
    BY <2>1, <2>2
<1>13. InFlight' /\ ResentOnlyInDoubt'
  BY <1>1, <1>6 DEF IInv, InFlight, ResentOnlyInDoubt
<1> QED
  BY <1>6, <1>7, <1>8, <1>10, <1>11, <1>12, <1>13 DEF IInv

LEMMA ScanStep ==
  ASSUME IInv, Scan
  PROVE  IInv'
<1> DEFINE new == NewPieces(cursors)
           q == Queue \o new
<1>1. /\ phase = "up" /\ event' = FALSE /\ cursors' = size
      /\ UNCHANGED <<size, saved, phase, taken, unsure, abandoned, saveFailures, exits>>
  BY DEF Scan, history, faults, Up
<1>2. TypeOK /\ Grown(cursors)
  BY DEF IInv, TypeOK, Grown, Bounded, Offsets
<1>3. new \in Seq(PieceType) /\ \A f \in Files : Stretch(new, f, cursors[f], size[f])
  BY <1>2, NewStretch
<1>4. /\ Queue \in Seq(PieceType) /\ UnitsOf(Queue) = Queued
      /\ q \in Seq(PieceType) /\ UnitsOf(q) = Queued \cup UnitsOf(new)
  BY <1>2, <1>3, Numbers, ConcatProperties, UnitsConcat
<1>5. \A f \in Files : Run(q, f, 0, cursors'[f])
  <2>1. \A f \in Files : /\ 0 \in Offsets /\ cursors[f] \in Offsets /\ size[f] \in Offsets
                         /\ 0 <= cursors[f] /\ cursors[f] <= size[f]
    BY <1>2, ConstantsAssumption DEF Grown, Offsets
  <2> QED
    BY <1>1, <1>3, <1>4, <2>1, RunConcat DEF IInv, Lined
<1>6. \A x \in Units : x \in UnitsOf(new) <=> cursors[x[1]] < x[2] /\ x[2] <= size[x[1]]
  BY <1>2, NewUnits
<1>7. /\ batch' \in Seq(PieceType) /\ pending' \in Seq(PieceType)
      /\ attempt' \in 0..MaxRetries
      /\ Lined' /\ Queued' = UnitsOf(q)
      /\ \/ took' = FALSE /\ batch = <<>>
         \/ /\ took' = took /\ batch' = batch
            /\ pending' \in Seq(PieceType) /\ UnitsOf(pending') = UnitsOf(pending) \cup UnitsOf(new)
  <2>1. CASE batch = <<>>
    <3>1. DrainIfFull(pending \o new) /\ pending \in Seq(PieceType)
      BY <1>2, <2>1 DEF Scan, TypeOK
    <3>2. Queue = pending
      BY <2>1, <3>1, ConcatEmptySeq DEF Queue
    <3> QED
      BY <1>4, <1>5, <2>1, <3>1, <3>2, Refill
  <2>2. CASE batch # <<>>
    <3>1. /\ pending' = pending \o new /\ UNCHANGED <<batch, attempt, took>>
          /\ batch \in Seq(PieceType) /\ pending \in Seq(PieceType) /\ attempt \in 0..MaxRetries
      BY <1>2, <2>2 DEF Scan, TypeOK
    <3>2. batch' \o pending' = q
      BY <1>3, <3>1, ConcatAssociative, SMTT(30) DEF Queue
    <3>3. pending' \in Seq(PieceType) /\ UnitsOf(pending') = UnitsOf(pending) \cup UnitsOf(new)
      BY <1>3, <3>1, ConcatProperties, UnitsConcat
    <3>4. Queued' = Queued \cup UnitsOf(new)
      <4>1. Queued' = UnitsOf(batch') \cup UnitsOf(pending')
        BY DEF Queued, UnitsOf
      <4>2. Queued = UnitsOf(batch) \cup UnitsOf(pending)
        BY DEF Queued
      <4> QED
        BY <3>1, <3>3, <4>1, <4>2
    <3> QED
      BY <1>4, <1>5, <3>1, <3>2, <3>3, <3>4 DEF Lined, Queue
  <2> QED
    BY <2>1, <2>2
<1> HIDE DEF new, q
<1>8. TypeOK'
  <2>1. took' \in BOOLEAN
    BY <1>2, <1>7 DEF TypeOK
  <2> QED
    BY <1>1, <1>2, <1>7, <2>1 DEF TypeOK
<1>9. /\ \A x \in Units : /\ x[1] \in Files /\ x[2] \in Nat /\ cursors[x[1]] \in Nat
                          /\ size[x[1]] \in Nat /\ cursors[x[1]] <= size[x[1]]
                          /\ saved[x[1]] \in Nat /\ saved[x[1]] <= cursors[x[1]]
      /\ Queued = UnitsOf(batch) \cup UnitsOf(pending)
      /\ UnitsOf(batch') \cup UnitsOf(pending') = Queued'
      /\ UnitsOf(batch') \subseteq Units /\ UnitsOf(pending') \subseteq Units
      /\ UnitsOf(new) \subseteq Units
  BY <1>1, <1>2, <1>3, <1>7, Numbers, InUnits DEF IInv, Bounded, Queued, UnitsOf
<1>10. Bounded'
  BY <1>1, <1>2 DEF IInv, Bounded, Grown, Offsets
<1>11. Unsaved'
  <2> SUFFICES ASSUME NEW x \in Units, saved[x[1]] < x[2], x[2] <= size[x[1]], taken[x] > 0
               PROVE  x \in Queued \cup UnitsOf(new) \cup unsure
    BY <1>1, <1>4, <1>7 DEF Unsaved
  <2> QED
    BY <1>1, <1>6, <1>9 DEF IInv, Unsaved
<1>12. Doubt'
  <2>1. \A x \in Units : x[2] > cursors[x[1]] /\ taken[x] > 0 => x \in unsure
    BY <1>1 DEF IInv, Doubt
  <2>2. \A x \in UnitsOf(new) : taken[x] > 0 => x \in unsure
    BY <1>6, <1>9, <2>1
  <2>3. \A x \in UnitsOf(pending) : taken[x] > 0 => x \in unsure
    BY DEF IInv, Doubt
  <2>4. \A x \in Units : x[2] > size[x[1]] => x[2] > cursors[x[1]]
    BY <1>9
  <2>5. CASE took' = FALSE /\ batch = <<>>
    <3>1. UnitsOf(batch) = {}
      BY <2>5 DEF UnitsOf
    <3> QED
      BY <1>1, <1>4, <1>7, <1>9, <2>1, <2>2, <2>3, <2>4, <3>1 DEF Doubt
  <2>6. CASE /\ took' = took /\ batch' = batch
             /\ UnitsOf(pending') = UnitsOf(pending) \cup UnitsOf(new)
    <3>1. ~took' => \A x \in UnitsOf(batch') : taken[x] > 0 => x \in unsure
      BY <2>6 DEF IInv, Doubt
    <3>2. \A x \in UnitsOf(pending') : taken[x] > 0 => x \in unsure
      BY <2>2, <2>3, <2>6
    <3> QED
      BY <1>1, <2>1, <2>4, <3>1, <3>2 DEF Doubt
  <2> QED
    BY <1>7, <2>5, <2>6
<1>13. NothingFallsOut'
  <2> SUFFICES ASSUME NEW x \in Units, x[2] <= saved[x[1]] \/ x[2] <= size[x[1]]
               PROVE  taken[x] > 0 \/ x \in Queued \cup UnitsOf(new) \cup abandoned
    BY <1>1, <1>4, <1>7 DEF NothingFallsOut
  <2>1. CASE x[2] <= cursors[x[1]]
    BY <2>1 DEF IInv, NothingFallsOut
  <2>2. CASE ~(x[2] <= cursors[x[1]])
    BY <1>6, <1>9, <2>2
  <2> QED
    BY <2>1, <2>2
<1>14. InFlight' /\ ResentOnlyInDoubt'
  BY <1>1, <1>7 DEF IInv, InFlight, ResentOnlyInDoubt
<1> QED
  BY <1>7, <1>8, <1>10, <1>11, <1>12, <1>13, <1>14 DEF IInv

(* A batch leaves the queue: what follows it is the new queue.             *)
LEMMA NextBatch ==
  ASSUME TypeOK, Lined, UNCHANGED cursors, Drain(pending) \/ DrainIfFull(pending)
  PROVE  /\ batch' \in Seq(PieceType) /\ pending' \in Seq(PieceType)
         /\ attempt' \in 0..MaxRetries /\ took' = FALSE
         /\ Lined' /\ Queued' = UnitsOf(pending)
         /\ UnitsOf(batch') \cup UnitsOf(pending') = UnitsOf(pending)
<1>1. pending \in Seq(PieceType) /\ batch \in Seq(PieceType)
  BY DEF TypeOK
<1>2. \A f \in Files : Run(pending, f, 0, cursors'[f])
  BY <1>1, RunSuffix DEF Lined, Queue
<1>3. /\ batch' \in Seq(PieceType) /\ pending' \in Seq(PieceType)
      /\ attempt' \in 0..MaxRetries /\ took' = FALSE
      /\ Lined' /\ Queued' = UnitsOf(pending)
  BY <1>1, <1>2, Refill
<1> QED
  BY <1>3 DEF Queued, UnitsOf

LEMMA FlushStep ==
  ASSUME IInv, Flush
  PROVE  IInv'
<1>1. /\ phase = "up" /\ batch = <<>> /\ Drain(pending)
      /\ UNCHANGED <<size, event, saved, phase, cursors, taken, unsure, abandoned, saveFailures, exits>>
  BY DEF Flush, history, faults, Up
<1>2. /\ batch' \in Seq(PieceType) /\ pending' \in Seq(PieceType)
      /\ attempt' \in 0..MaxRetries /\ took' = FALSE
      /\ Lined' /\ Queued' = UnitsOf(pending)
      /\ UnitsOf(batch') \cup UnitsOf(pending') = UnitsOf(pending)
  BY <1>1, NextBatch DEF IInv
<1>3. UnitsOf(batch) = {} /\ Queued = UnitsOf(pending)
  BY <1>1 DEF Queued, UnitsOf
<1>4. TypeOK'
  BY <1>1, <1>2 DEF IInv, TypeOK
<1>5. Bounded'
  BY <1>1 DEF IInv, Bounded
<1>6. Doubt'
  <2>1. \A x \in UnitsOf(pending) : taken[x] > 0 => x \in unsure
    BY DEF IInv, Doubt
  <2>2. \A x \in Units : x[2] > cursors[x[1]] /\ taken[x] > 0 => x \in unsure
    BY <1>1 DEF IInv, Doubt
  <2> QED
    BY <1>1, <1>2, <2>1, <2>2 DEF Doubt
<1>7. Unsaved' /\ NothingFallsOut'
  BY <1>1, <1>2, <1>3 DEF IInv, Unsaved, NothingFallsOut
<1>8. InFlight' /\ ResentOnlyInDoubt'
  BY <1>1, <1>2 DEF IInv, InFlight, ResentOnlyInDoubt
<1> QED
  BY <1>2, <1>4, <1>5, <1>6, <1>7, <1>8 DEF IInv

LEMMA TakeStep ==
  ASSUME IInv, Take
  PROVE  IInv'
<1>1. /\ phase = "up" /\ ~took /\ took' = TRUE
      /\ taken' = [x \in Units |->
                     IF x \in UnitsOf(batch) THEN Least(taken[x] + 1, 2) ELSE taken[x]]
      /\ UNCHANGED <<size, event, saved, phase, cursors, pending, batch, attempt,
                     unsure, abandoned, saveFailures, exits>>
  BY DEF Take, Sending, Up, faults
<1>2. TypeOK
  BY DEF IInv
<1>3. /\ \A x \in Units : taken[x] \in 0..2 /\ taken'[x] \in 0..2 /\ taken'[x] >= taken[x]
      /\ \A x \in UnitsOf(batch) : /\ taken'[x] > 0
                                   /\ taken'[x] > 1 => taken[x] > 0
      /\ \A x \in Units \ UnitsOf(batch) : taken'[x] = taken[x]
  <2>1. \A x \in Units : taken[x] \in 0..2 /\ Least(taken[x] + 1, 2) \in 1..2
                         /\ Least(taken[x] + 1, 2) >= taken[x]
                         /\ (Least(taken[x] + 1, 2) > 1 => taken[x] > 0)
    BY <1>2, Numbers DEF Least
  <2>2. \A x \in Units : taken'[x] = IF x \in UnitsOf(batch) THEN Least(taken[x] + 1, 2)
                                     ELSE taken[x]
    BY <1>1
  <2>3. UnitsOf(batch) \subseteq Units
    BY <1>2, Numbers
  <2> QED
    BY <2>1, <2>2, <2>3
<1>4. TypeOK'
  BY <1>1, <1>2, <1>3 DEF TypeOK
<1>5. Bounded' /\ Lined' /\ Unsaved'
  <2>1. Bounded' /\ Lined'
    BY <1>1 DEF IInv, Bounded, Lined, Queue
  <2>2. \A x \in Units : taken'[x] > 0 => taken[x] > 0 \/ x \in Queued
    BY <1>3 DEF Queued
  <2>3. Unsaved'
    BY <1>1, <2>2 DEF IInv, Unsaved, Queued
  <2> QED
    BY <2>1, <2>3
<1>6. \A x \in UnitsOf(batch) : x \in Units /\ x \notin UnitsOf(pending) /\ x[2] <= cursors[x[1]]
                                /\ x[2] \in Nat /\ cursors[x[1]] \in Nat
  <2>1. /\ batch \in Seq(PieceType) /\ pending \in Seq(PieceType)
        /\ \A f \in Files : Ascending(batch \o pending, f)
    BY <1>2 DEF IInv, TypeOK, Lined, Run, Queue
  <2> TAKE x \in UnitsOf(batch)
  <2>2. x \in Units /\ x[1] \in Files /\ x[2] \in Nat /\ cursors[x[1]] \in Nat
    BY <1>2, Numbers
  <2>3. x \notin UnitsOf(pending)
    BY <2>1, Disjoint
  <2>4. x[2] <= cursors[x[1]]
    <3>1. Queue \in Seq(PieceType) /\ x \in UnitsOf(Queue)
      BY <1>2, Numbers DEF Queued
    <3>2. PICK k \in Of(Queue, x[1]) : Queue[k].from < x[2] /\ x[2] <= Queue[k].to
      BY <2>2, <3>1, InUnits
    <3>3. Queue[k].to <= cursors[x[1]]
      BY <2>2, <3>2 DEF IInv, Lined, Run, Within
    <3>4. Queue[k].to \in Int
      <4>1. Queue[k] \in PieceType
        BY <3>1, <3>2, ElementOfSeq DEF Of
      <4> QED
        BY <4>1, ConstantsAssumption DEF PieceType, Halves
    <3> QED
      BY <2>2, <3>2, <3>3, <3>4
  <2> QED
    BY <2>2, <2>3, <2>4
<1>7. InFlight'
  BY <1>1, <1>3 DEF InFlight
<1>8. Doubt'
  <2>1. \A x \in UnitsOf(pending) : x \in Units /\ taken'[x] = taken[x]
    BY <1>2, <1>3, <1>6, Numbers
  <2>2. \A x \in Units : x[2] > cursors[x[1]] => taken'[x] = taken[x]
    BY <1>3, <1>6
  <2> QED
    BY <1>1, <2>1, <2>2 DEF IInv, Doubt
<1>9. NothingFallsOut'
  BY <1>1, <1>3 DEF IInv, NothingFallsOut, Queued
<1>10. ResentOnlyInDoubt'
  <2> SUFFICES ASSUME NEW x \in Units, taken'[x] > 1  PROVE x \in unsure
    BY <1>1 DEF ResentOnlyInDoubt
  <2>1. CASE x \in UnitsOf(batch)
    BY <1>1, <1>3, <2>1 DEF IInv, Doubt
  <2>2. CASE x \notin UnitsOf(batch)
    BY <1>3, <2>2 DEF IInv, ResentOnlyInDoubt
  <2> QED
    BY <2>1, <2>2
<1> QED
  BY <1>4, <1>5, <1>7, <1>8, <1>9, <1>10 DEF IInv

(* The answer came, or it was the last attempt that failed.                *)
LEMMA BatchDone ==
  ASSUME IInv, Up, saved' = cursors, DrainIfFull(pending),
         UNCHANGED <<size, event, phase, cursors, taken, saveFailures, exits>>,
         unsure \subseteq unsure', unsure' \subseteq Units,
         abandoned \subseteq abandoned', abandoned' \subseteq Units,
         \A x \in UnitsOf(batch) : taken[x] > 0 \/ x \in abandoned'
  PROVE  IInv'
<1>1. /\ batch' \in Seq(PieceType) /\ pending' \in Seq(PieceType)
      /\ attempt' \in 0..MaxRetries /\ took' = FALSE
      /\ Lined' /\ Queued' = UnitsOf(pending)
      /\ UnitsOf(batch') \cup UnitsOf(pending') = UnitsOf(pending)
  BY NextBatch DEF IInv
<1>2. Queued = UnitsOf(batch) \cup UnitsOf(pending) /\ phase = "up"
  BY DEF Queued, Up
<1>3. TypeOK /\ \A x \in Units : x[1] \in Files /\ x[2] \in Nat /\ cursors[x[1]] \in Nat
                                 /\ saved[x[1]] \in Nat /\ saved[x[1]] <= cursors[x[1]]
  BY <1>2, Numbers DEF IInv, Bounded
<1>4. TypeOK'
  BY <1>1, <1>3 DEF TypeOK
<1>5. Bounded'
  BY <1>2, <1>3 DEF IInv, Bounded, TypeOK
<1>6. Unsaved' /\ InFlight'
  BY <1>1, <1>3 DEF Unsaved, InFlight
<1>7. Doubt'
  <2>1. \A x \in UnitsOf(pending) : taken[x] > 0 => x \in unsure
    BY DEF IInv, Doubt
  <2>2. \A x \in Units : x[2] > cursors[x[1]] /\ taken[x] > 0 => x \in unsure
    BY <1>2 DEF IInv, Doubt
  <2> QED
    BY <1>1, <1>2, <2>1, <2>2 DEF Doubt
<1>8. NothingFallsOut'
  <2> SUFFICES ASSUME NEW x \in Units, x[2] <= cursors[x[1]]
               PROVE  taken[x] > 0 \/ x \in UnitsOf(pending) \cup abandoned'
    BY <1>1 DEF NothingFallsOut
  <2>1. taken[x] > 0 \/ x \in Queued \cup abandoned
    BY DEF IInv, NothingFallsOut
  <2> QED
    BY <1>2, <2>1
<1>9. ResentOnlyInDoubt'
  BY DEF IInv, ResentOnlyInDoubt
<1> QED
  BY <1>1, <1>4, <1>5, <1>6, <1>7, <1>8, <1>9 DEF IInv

LEMMA SentStep ==
  ASSUME IInv, Sent
  PROVE  IInv'
<1>1. /\ Up /\ took /\ saved' = cursors /\ DrainIfFull(pending)
      /\ UNCHANGED <<size, event, phase, cursors, taken, unsure, abandoned, saveFailures, exits>>
  BY DEF Sent, Sending, history, faults
<1>2. \A x \in UnitsOf(batch) : taken[x] > 0
  BY <1>1 DEF IInv, InFlight
<1>3. unsure \subseteq Units /\ abandoned \subseteq Units
  BY DEF IInv, TypeOK
<1> QED
  BY <1>1, <1>2, <1>3, BatchDone

LEMMA InDoubtUnits ==
  ASSUME TypeOK
  PROVE  (unsure \cup InDoubt) \subseteq Units
BY Numbers DEF InDoubt, TypeOK

LEMMA GiveUpStep ==
  ASSUME IInv, GiveUp
  PROVE  IInv'
<1>1. /\ Up /\ saved' = cursors /\ DrainIfFull(pending)
      /\ abandoned' = abandoned \cup UnitsOf(batch)
      /\ unsure' = unsure \cup InDoubt
      /\ UNCHANGED <<size, event, phase, cursors, taken, saveFailures, exits>>
  BY DEF GiveUp, Sending, faults
<1>2. unsure' \subseteq Units /\ abandoned' \subseteq Units
  BY <1>1, InDoubtUnits, Numbers DEF IInv, TypeOK
<1> QED
  BY <1>1, <1>2, BatchDone

(* The batch is put back: the queue is what it was, as a whole.            *)
LEMMA SaveFailsStep ==
  ASSUME IInv, SaveFails
  PROVE  IInv'
<1>1. /\ phase = "up" /\ saveFailures < MaxSaveFailures /\ saveFailures' = saveFailures + 1
      /\ \/ saved' = saved /\ unsure' = unsure \cup InDoubt
         \/ saved' = [f \in Files |-> 0] /\ unsure' = unsure \cup Delivered
      /\ DrainIfFull(Queue)
      /\ UNCHANGED <<size, event, phase, cursors, taken, abandoned, exits>>
  BY DEF SaveFails, Sending, Up, Queue
<1>2. TypeOK /\ Queue \in Seq(PieceType) /\ UnitsOf(Queue) = Queued
  BY Numbers DEF IInv
<1>3. \A f \in Files : Run(Queue, f, 0, cursors'[f])
  BY <1>1 DEF IInv, Lined
<1>4. /\ batch' \in Seq(PieceType) /\ pending' \in Seq(PieceType)
      /\ attempt' \in 0..MaxRetries /\ took' = FALSE
      /\ Lined' /\ Queued' = Queued
  BY <1>1, <1>2, <1>3, Refill
<1>5. Queued = UnitsOf(batch) \cup UnitsOf(pending) /\ Queued' = UnitsOf(batch') \cup UnitsOf(pending')
  BY DEF Queued, UnitsOf
<1>6. unsure \subseteq unsure' /\ unsure' \subseteq Units
  BY <1>1, <1>2, InDoubtUnits DEF TypeOK, Delivered
<1>7. \A x \in Units : /\ x[1] \in Files /\ x[2] \in Nat /\ x[2] > 0
                       /\ saved[x[1]] \in Nat /\ cursors[x[1]] \in Nat
  BY <1>2, Numbers
<1>8. TypeOK'
  <2>1. saved' \in [Files -> 0..(2 * MaxLines)] /\ saveFailures' \in 0..MaxSaveFailures
    BY <1>1, <1>2, ConstantsAssumption DEF TypeOK
  <2>2. took' \in BOOLEAN
    BY <1>4
  <2> QED
    BY <1>1, <1>2, <1>4, <1>6, <2>1, <2>2 DEF TypeOK
<1>9. Bounded'
  <2>1. \A f \in Files : cursors[f] \in Nat /\ size[f] \in Nat
    BY <1>2, ConstantsAssumption DEF TypeOK
  <2>2. \A f \in Files : /\ saved[f] <= size[f] /\ cursors[f] <= size[f]
                         /\ saved[f] <= cursors[f]
    BY <1>1 DEF IInv, Bounded
  <2>3. \A f \in Files : saved'[f] <= size[f] /\ saved'[f] <= cursors[f]
    BY <1>1, <2>1, <2>2
  <2> QED
    BY <1>1, <2>2, <2>3 DEF Bounded
<1>10. \A x \in Units : taken[x] > 0 /\ x \in Queued => x \in unsure'
  <2>1. UnitsOf(batch) \cup UnitsOf(pending) \subseteq Units
    BY <1>2, Numbers
  <2>2. \A x \in UnitsOf(batch) : taken[x] > 0 => x \in unsure'
    BY <1>1, <2>1 DEF IInv, Doubt, InDoubt, Delivered
  <2>3. \A x \in UnitsOf(pending) : taken[x] > 0 => x \in unsure
    BY DEF IInv, Doubt
  <2> QED
    BY <1>5, <1>6, <2>2, <2>3
<1>11. Unsaved'
  <2>1. CASE saved' = saved
    BY <1>1, <1>4, <1>6, <2>1 DEF IInv, Unsaved
  <2>2. CASE unsure' = unsure \cup Delivered
    BY <1>1, <2>2 DEF Unsaved, Delivered
  <2> QED
    BY <1>1, <2>1, <2>2
<1>12. Doubt'
  <2>1. \A x \in Queued' : x \in Units /\ (taken[x] > 0 => x \in unsure')
    BY <1>2, <1>4, <1>10, InUnits
  <2>2. \A x \in Units : x[2] > cursors[x[1]] /\ taken[x] > 0 => x \in unsure
    BY <1>1 DEF IInv, Doubt
  <2> QED
    BY <1>1, <1>5, <1>6, <2>1, <2>2 DEF Doubt
<1>13. NothingFallsOut'
  <2> SUFFICES ASSUME NEW x \in Units, x[2] <= saved'[x[1]] \/ x[2] <= cursors[x[1]]
               PROVE  taken[x] > 0 \/ x \in Queued \cup abandoned
    BY <1>1, <1>4 DEF NothingFallsOut
  <2>1. x[2] <= saved[x[1]] \/ x[2] <= cursors[x[1]]
    BY <1>1, <1>7
  <2> QED
    BY <2>1 DEF IInv, NothingFallsOut
<1>14. InFlight' /\ ResentOnlyInDoubt'
  BY <1>1, <1>4, <1>6 DEF IInv, InFlight, ResentOnlyInDoubt
<1> QED
  BY <1>4, <1>8, <1>9, <1>11, <1>12, <1>13, <1>14 DEF IInv

LEMMA RetryStep ==
  ASSUME IInv, Retry
  PROVE  IInv'
<1>1. /\ attempt < MaxRetries /\ attempt' = attempt + 1 /\ took' = FALSE
      /\ unsure' = unsure \cup InDoubt
      /\ UNCHANGED <<size, event, saved, phase, cursors, pending, batch, taken, abandoned, saveFailures, exits>>
  BY DEF Retry, faults
<1>2. TypeOK'
  <2>1. attempt' \in 0..MaxRetries
    BY <1>1, ConstantsAssumption DEF IInv, TypeOK
  <2>2. unsure' \subseteq Units
    BY <1>1, InDoubtUnits DEF IInv
  <2> QED
    BY <1>1, <2>1, <2>2 DEF IInv, TypeOK
<1>3. Bounded' /\ Lined' /\ Unsaved' /\ NothingFallsOut'
  BY <1>1 DEF IInv, Bounded, Lined, Queue, Unsaved, NothingFallsOut, Queued
<1>4. InFlight' /\ ResentOnlyInDoubt'
  BY <1>1 DEF IInv, InFlight, ResentOnlyInDoubt
<1>5. Doubt'
  <2>1. \A x \in UnitsOf(batch) : taken[x] > 0 => x \in unsure'
    BY <1>1 DEF IInv, Doubt, InDoubt
  <2> QED
    BY <1>1, <2>1 DEF IInv, Doubt
<1> QED
  BY <1>2, <1>3, <1>4, <1>5 DEF IInv

(* The process ends.  What is in doubt above the new cursors on disk, and  *)
(* what is lost below them, is up to how it ends.                          *)
LEMMA ProcessGone ==
  ASSUME IInv, Gone, UNCHANGED <<size, taken>>,
         saved' \in [Files -> Offsets], \A f \in Files : saved'[f] <= size[f],
         unsure \subseteq unsure', unsure' \subseteq Units,
         abandoned' \subseteq Units,
         \A x \in Units : x[2] > saved'[x[1]] /\ taken[x] > 0 => x \in unsure',
         \A x \in Units : x[2] <= saved'[x[1]] => taken[x] > 0 \/ x \in abandoned'
  PROVE  IInv'
<1>1. /\ exits < MaxExits /\ exits' = exits + 1 /\ saveFailures' = saveFailures /\ phase' = "down" /\ event' = FALSE
      /\ cursors' = [f \in Files |-> 0]
      /\ pending' = <<>> /\ batch' = <<>> /\ attempt' = 0 /\ took' = FALSE
  BY DEF Gone
<1>2. TypeOK /\ \A f \in Files : size[f] \in Nat
  BY ConstantsAssumption DEF IInv, TypeOK
<1>3. TypeOK'
  <2>1. /\ cursors' \in [Files -> 0..(2 * MaxLines)] /\ saved' \in [Files -> 0..(2 * MaxLines)]
        /\ attempt' \in 0..MaxRetries
        /\ saveFailures' \in 0..MaxSaveFailures /\ exits' \in 0..MaxExits
    BY <1>1, <1>2, ConstantsAssumption DEF TypeOK, Offsets
  <2>2. pending' \in Seq(PieceType) /\ batch' \in Seq(PieceType)
    BY <1>1
  <2>3. event' \in BOOLEAN /\ took' \in BOOLEAN /\ phase' \in {"down", "scanned", "up"}
    BY <1>1
  <2> QED
    BY <1>2, <2>1, <2>2, <2>3 DEF TypeOK
<1>4. Bounded'
  BY <1>1, <1>2 DEF Bounded
<1>5. Lined'
  <2>1. Len(batch' \o pending') = 0
    BY <1>1
  <2> QED
    BY <2>1 DEF Lined, Queue, Run, Linked, Ascending, Within, Of
<1>6. UnitsOf(batch') = {} /\ UnitsOf(pending') = {}
  BY <1>1 DEF UnitsOf
<1>7. Unsaved' /\ InFlight'
  BY <1>1 DEF Unsaved, InFlight
<1>8. Doubt'
  BY <1>1, <1>6 DEF Doubt
<1>9. NothingFallsOut'
  <2> SUFFICES ASSUME NEW x \in Units, x[2] <= saved'[x[1]] \/ x[2] <= cursors'[x[1]]
               PROVE  taken[x] > 0 \/ x \in abandoned'
    BY DEF NothingFallsOut
  <2>1. x[1] \in Files /\ x[2] \in Nat /\ x[2] > 0 /\ cursors'[x[1]] = 0
    BY <1>1, <1>2, Numbers
  <2> QED
    BY <2>1
<1>10. ResentOnlyInDoubt'
  <2>1. \A x \in Units : taken[x] \in 0..2
    BY <1>2, Numbers
  <2> QED
    BY <2>1 DEF IInv, ResentOnlyInDoubt
<1> QED
  BY <1>3, <1>4, <1>5, <1>7, <1>8, <1>9, <1>10 DEF IInv

LEMMA StopStep ==
  ASSUME IInv, Stop
  PROVE  IInv'
<1>1. /\ Gone /\ phase = "up" /\ saved' = cursors /\ UNCHANGED <<size, taken>>
      /\ abandoned' = abandoned \cup Queued /\ unsure' = unsure \cup InDoubt
  BY DEF Stop, Up
<1>2. TypeOK /\ unsure' \subseteq Units /\ abandoned' \subseteq Units
  BY <1>1, InDoubtUnits, Numbers DEF IInv, TypeOK, Queued
<1>3. saved' \in [Files -> Offsets] /\ \A f \in Files : saved'[f] <= size[f]
  BY <1>1, <1>2 DEF IInv, TypeOK, Bounded, Offsets
<1>4. \A x \in Units : x[2] > saved'[x[1]] /\ taken[x] > 0 => x \in unsure'
  BY <1>1 DEF IInv, Doubt
<1>5. \A x \in Units : x[2] <= saved'[x[1]] => taken[x] > 0 \/ x \in abandoned'
  BY <1>1 DEF IInv, NothingFallsOut
<1> QED
  BY <1>1, <1>2, <1>3, <1>4, <1>5, ProcessGone

LEMMA KillStep ==
  ASSUME IInv, Kill
  PROVE  IInv'
<1>1. /\ Gone /\ phase # "down" /\ UNCHANGED <<saved, size, taken>>
      /\ abandoned' = abandoned \cup {x \in Queued : x[2] <= saved[x[1]]}
      /\ unsure' = unsure \cup InDoubt
  BY DEF Kill
<1>2. TypeOK /\ unsure' \subseteq Units /\ abandoned' \subseteq Units
  BY <1>1, InDoubtUnits, Numbers DEF IInv, TypeOK, Queued
<1>3. saved' \in [Files -> Offsets] /\ \A f \in Files : saved'[f] <= size[f]
  BY <1>1, <1>2 DEF IInv, TypeOK, Bounded, Offsets
<1>4. ASSUME NEW x \in Units, x[2] > saved[x[1]], taken[x] > 0  PROVE x \in unsure'
  <2>1. CASE x[2] <= cursors[x[1]]
    <3>1. x[1] \in Files /\ x[2] \in Nat /\ saved[x[1]] \in Nat
      BY <1>2, Numbers
    <3>2. x \in Queued \cup unsure
      BY <1>1, <1>4, <2>1, <3>1 DEF IInv, Unsaved
    <3> QED
      BY <1>1, <1>4, <3>2 DEF IInv, Doubt, Queued, InDoubt
  <2>2. CASE ~(x[2] <= cursors[x[1]])
    <3>1. x[2] > cursors[x[1]]
      BY <1>2, <2>2, Numbers
    <3> QED
      BY <1>1, <1>4, <3>1 DEF IInv, Doubt
  <2> QED
    BY <2>1, <2>2
<1>5. \A x \in Units : x[2] <= saved[x[1]] => taken[x] > 0 \/ x \in abandoned'
  BY <1>1 DEF IInv, NothingFallsOut
<1> QED
  BY <1>1, <1>2, <1>3, <1>4, <1>5, ProcessGone

LEMMA KillWhileSavingStep ==
  ASSUME IInv, KillWhileSaving
  PROVE  IInv'
<1>1. /\ Gone /\ saved' = [f \in Files |-> 0] /\ UNCHANGED <<size, taken, abandoned>>
      /\ unsure' = unsure \cup {x \in Units : taken[x] > 0}
  BY DEF KillWhileSaving, Delivered
<1>2. TypeOK /\ unsure' \subseteq Units /\ abandoned' \subseteq Units
  BY <1>1 DEF IInv, TypeOK
<1>3. saved' \in [Files -> Offsets] /\ \A f \in Files : saved'[f] <= size[f]
  BY <1>1, <1>2, ConstantsAssumption DEF TypeOK, Offsets
<1>4. \A x \in Units : x[2] > saved'[x[1]] /\ taken[x] > 0 => x \in unsure'
  BY <1>1
<1>5. \A x \in Units : ~(x[2] <= saved'[x[1]])
  BY <1>1, <1>2, Numbers
<1> QED
  BY <1>1, <1>2, <1>3, <1>4, <1>5, ProcessGone

LEMMA NextStep ==
  ASSUME IInv, [Next]_vars
  PROVE  IInv'
<1>1. CASE Watch
  <2>1. /\ phase = "scanned" /\ phase' = "up"
        /\ UNCHANGED <<size, event, saved, cursors, pending, batch, attempt, took, taken,
                       unsure, abandoned, saveFailures, exits>>
    BY <1>1 DEF Watch, memory, history, faults
  <2>2. TypeOK' /\ Bounded' /\ Unsaved' /\ Doubt'
    BY <2>1 DEF IInv, TypeOK, Bounded, Unsaved, Doubt, Queued
  <2>3. Lined' /\ InFlight' /\ NothingFallsOut' /\ ResentOnlyInDoubt'
    BY <2>1 DEF IInv, Lined, Queue, InFlight, NothingFallsOut, ResentOnlyInDoubt, Queued
  <2> QED
    BY <2>2, <2>3 DEF IInv
<1>2. CASE UNCHANGED vars
  <2>1. UNCHANGED <<size, event, saved, phase, cursors, pending, batch, attempt, took, taken,
                    unsure, abandoned, saveFailures, exits>>
    BY <1>2 DEF vars, memory, history, faults
  <2>2. TypeOK' /\ Bounded' /\ Unsaved' /\ Doubt'
    BY <2>1 DEF IInv, TypeOK, Bounded, Unsaved, Doubt, Queued
  <2>3. Lined' /\ InFlight' /\ NothingFallsOut' /\ ResentOnlyInDoubt'
    BY <2>1 DEF IInv, Lined, Queue, InFlight, NothingFallsOut, ResentOnlyInDoubt, Queued
  <2> QED
    BY <2>2, <2>3 DEF IInv
<1> QED
  BY <1>1, <1>2, WriteStep, StartStep, ScanStep, FlushStep, TakeStep, SentStep, RetryStep,
     GiveUpStep, SaveFailsStep, StopStep, KillStep, KillWhileSavingStep DEF Next

LEMMA Invariant == Spec => []IInv
<1>1. IInv /\ [Next]_vars => IInv'
  BY NextStep
<1> QED
  BY InitInv, <1>1, PTL DEF Spec

(* Every variable of the router keeps its type; no attempt is made past    *)
(* MAX_RETRIES.                                                            *)
THEOREM TypeCorrect == Spec => []TypeOK
<1>1. IInv => TypeOK
  BY DEF IInv
<1> QED
  BY Invariant, <1>1, PTL

(* What a cursor has passed was taken, is queued, or is one of the losses  *)
(* that have a name.                                                       *)
THEOREM NothingLost == Spec => []NothingFallsOut
<1>1. IInv => NothingFallsOut
  BY DEF IInv
<1> QED
  BY Invariant, <1>1, PTL

(* No half line is sent twice unless an answer or the cursors were lost,   *)
(* or the cursors could not be written after the post.                     *)
THEOREM NothingResent == Spec => []ResentOnlyInDoubt
<1>1. IInv => ResentOnlyInDoubt
  BY DEF IInv
<1> QED
  BY Invariant, <1>1, PTL

(* The lines of a file wait in the order they were written, without a gap, *)
(* up to its cursor.                                                       *)
THEOREM LinesInOrder == Spec => []QueueInOrder
<1>1. IInv => QueueInOrder
  <2> SUFFICES ASSUME IInv, NEW f \in Files, NEW k \in Of(Queue, f)
               PROVE  LET later == {j \in Of(Queue, f) : j > k}
                      IN IF later = {} THEN Queue[k].to = cursors[f]
                         ELSE \E j \in later : /\ \A i \in later : j <= i
                                               /\ Queue[k].to = Queue[j].from
    BY Zenon DEF QueueInOrder, Queue, Of
  <2>1. Of(Queue, f) \subseteq Nat
    BY Numbers, LenProperties DEF IInv, Of
  <2>2. \/ (\A j \in Of(Queue, f) : j <= k) /\ Queue[k].to = cursors[f]
        \/ \E j \in Of(Queue, f) : /\ j > k /\ Queue[k].to = Queue[j].from
                                   /\ \A i \in Of(Queue, f) : i > k => j <= i
    BY DEF IInv, Lined, Run, Linked
  <2>3. \A j \in Of(Queue, f) : ~(j > k /\ j <= k)
    BY <2>1
  <2> QED
    BY <2>1, <2>2, <2>3
<1> QED
  BY Invariant, <1>1, PTL

(* "never re-sends data", without the exceptions: while every answer to a  *)
(* post that was taken arrives, the process lives and the cursors can be   *)
(* written, no half line is taken twice, whatever post fails and is        *)
(* retried or given up.                                                    *)
THEOREM OnceWhenAnswered ==
  ASSUME ~LostAnswers, MaxExits = 0, MaxSaveFailures = 0
  PROVE  Spec => [](\A x \in Units : taken[x] <= 1)
<1>1. Init => unsure = {}
  BY DEF Init
<1>2. IInv /\ unsure = {} /\ [Next]_vars => (unsure = {})'
  <2> SUFFICES ASSUME IInv, unsure = {}, [Next]_vars  PROVE unsure' = {}
    OBVIOUS
  <2>1. ~Gone
    BY DEF Gone, IInv, TypeOK
  <2>2. CASE Retry \/ GiveUp
    BY <2>2 DEF Retry, GiveUp, InDoubt
  <2>3. CASE Start \/ Watch \/ Scan \/ Flush \/ Take \/ Sent \/ UNCHANGED vars
    BY <2>3 DEF Start, Watch, Scan, Flush, Take, Sent, vars, history
  <2>4. CASE \E f \in Files : Write(f)
    BY <2>4 DEF Write, history
  <2>5. ~(Stop \/ Kill \/ KillWhileSaving \/ SaveFails)
    BY <2>1 DEF Stop, Kill, KillWhileSaving, SaveFails, IInv, TypeOK
  <2> QED
    BY <2>2, <2>3, <2>4, <2>5 DEF Next
<1>3. IInv /\ unsure = {} => \A x \in Units : taken[x] <= 1
  <2> SUFFICES ASSUME IInv, unsure = {}, NEW x \in Units  PROVE taken[x] <= 1
    OBVIOUS
  <2>1. taken[x] \in 0..2 /\ ~(taken[x] > 1)
    BY DEF IInv, TypeOK, ResentOnlyInDoubt
  <2> QED
    BY <2>1
<1> QED
  BY <1>1, <1>2, <1>3, Invariant, PTL DEF Spec

=============================================================================
