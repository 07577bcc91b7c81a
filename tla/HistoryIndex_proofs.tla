------------------------- MODULE HistoryIndex_proofs -------------------------
(***************************************************************************)
(* The index with history, for every set of keys, every number of blocks   *)
(* and every order of pruning, compaction and restarts: lookups that are   *)
(* answerable answer with the position of their height, the records that   *)
(* have not expired are the last committed block, and an Init that comes   *)
(* to its last record makes the B-tree of it.                              *)
(***************************************************************************)
EXTENDS HistoryIndex, SequenceTheorems, WellFoundedInduction, TLAPS

-----------------------------------------------------------------------------
(* The inductive invariant *)

\* The type invariant, variable by variable.
Types ==
    /\ host \in {"OnvaKV", "test"} /\ proc \in {"running", "panicked", "hanging"}
    /\ bt \in [Keys -> Positions \cup {NoPos}]
    /\ db \in [Recs -> Positions \cup {NoPos, NoRec}]
    /\ batch \in [Recs -> Positions \cup {NoPos, NoRec, NoChange}]
    /\ isWriting \in BOOLEAN /\ iters \in 0..MaxIters
    /\ currHeight \in 0..MaxHeight /\ committed \in 0..currHeight
    /\ pruneHeight \in (-1)..MaxHeight /\ everPruned \in (-1)..MaxHeight
    /\ changed \subseteq Keys
    /\ hist \in [0..MaxHeight -> [Keys -> Positions \cup {NoPos}]]
    /\ isWriting => iters = 0

\* At most one block is not committed; outside a write phase the B-tree is the
\* one after the current block, unless Init panicked; a filter prunes no more
\* than was ever asked for; a process that is stuck in Init is in no block.
PhaseOK ==
    /\ currHeight \in {committed, committed + 1}
    /\ isWriting => currHeight = committed + 1
    /\ ~isWriting /\ proc # "panicked" => bt = hist[currHeight]
    /\ pruneHeight <= everPruned
    /\ proc # "running" => ~isWriting /\ currHeight = committed

\* The record under which a position that has not expired is filed.
LatestRec(p) == IF p = NoPos THEN NoRec ELSE p

\* What the batch of a block that is not committed says of the records of k:
\* the expired position and the new one if k was changed, otherwise nothing.
BatchSays(k) ==
    IF k \in changed /\ currHeight = committed + 1
    THEN \A g \in 1..Max64 : batch[<<k, g>>] =
             IF g = currHeight THEN hist[committed][k]
             ELSE IF g = Max64 THEN LatestRec(bt[k]) ELSE NoChange
    ELSE /\ bt[k] = hist[committed][k]
         /\ \A g \in 1..Max64 : batch[<<k, g>>] = NoChange
BatchOK == proc = "running" => \A k \in Keys : BatchSays(k)

\* The records that have not expired are those of the last committed block, and
\* none expires later than that block but those.
LatestOK ==
    \A k \in Keys :
        /\ db[<<k, Max64>>] = LatestRec(hist[committed][k])
        /\ \A g \in committed + 1 .. Max64 - 1 : db[<<k, g>>] = NoRec

\* The first record of k that expires after h holds the position of k at h, and
\* if there is none, k had no position.
FirstAfter(k, h, g) ==
    /\ db[<<k, g>>] # NoRec
    /\ \A i \in h + 1 .. g - 1 : db[<<k, i>>] = NoRec
Answers(k, h) ==
    \/ \E g \in h + 1 .. Max64 : FirstAfter(k, h, g) /\ db[<<k, g>>] = hist[h][k]
    \/ hist[h][k] = NoPos /\ \A g \in h + 1 .. Max64 : db[<<k, g>>] = NoRec
HistoryOK == \A h \in 0..committed, k \in Keys : h > everPruned => Answers(k, h)

Inv == Types /\ PhaseOK /\ BatchOK /\ LatestOK /\ HistoryOK

-----------------------------------------------------------------------------
(* The order of bytes.Compare *)

\* Before, position by position.
Less(a, b) ==
    \E n \in 1..Len(a) : n <= Len(b) /\ (\A i \in 1 .. n - 1 : a[i] = b[i]) /\ a[n] < b[n]

\* Two sequences agree on their first m members if and only if their prefixes
\* of that length are equal.
LEMMA PrefixPointwise ==
    ASSUME NEW a \in Seq(Int), NEW b \in Seq(Int), NEW m \in 0..Len(a), m <= Len(b)
    PROVE  SubSeq(a, 1, m) = SubSeq(b, 1, m) <=> \A i \in 1..m : a[i] = b[i]
<1>1. /\ Len(a) \in Nat /\ Len(b) \in Nat /\ m \in Int /\ m \in 0..Len(b)
      /\ (\A i \in 1..m : a[i] \in Int /\ b[i] \in Int)
  BY ElementOfSeq, LenProperties
<1>2. /\ SubSeq(a, 1, m) \in Seq(Int) /\ SubSeq(b, 1, m) \in Seq(Int)
      /\ Len(SubSeq(a, 1, m)) = m /\ Len(SubSeq(b, 1, m)) = m
      /\ \A i \in 1..m : SubSeq(a, 1, m)[i] = a[i] /\ SubSeq(b, 1, m)[i] = b[i]
  BY <1>1, SubSeqProperties
<1>3. ASSUME \A i \in 1..m : a[i] = b[i] PROVE SubSeq(a, 1, m) = SubSeq(b, 1, m)
  <2>1. \A i \in 1..Len(SubSeq(a, 1, m)) : SubSeq(a, 1, m)[i] = SubSeq(b, 1, m)[i]
    BY <1>2, <1>3
  <2>. QED
    BY <1>2, <2>1, SeqEqual
<1>4. ASSUME SubSeq(a, 1, m) = SubSeq(b, 1, m), NEW i \in 1..m PROVE a[i] = b[i]
  BY <1>2, <1>4
<1>. QED
  BY <1>3, <1>4

\* All of a is found at the front of b, which is longer.
Shorter(a, b) == Len(a) < Len(b) /\ \A i \in 1..Len(a) : a[i] = b[i]

\* The first difference decides, or the length.
LEMMA BeforePointwise ==
    ASSUME NEW a \in Seq(Int), NEW b \in Seq(Int)
    PROVE  Before(a, b) <=> Less(a, b) \/ Shorter(a, b)
<1>0. Len(a) \in Nat /\ Len(b) \in Nat
  BY LenProperties
<1>1. \A n \in 1..Len(a) : n <= Len(b) => n - 1 \in 0..Len(a) /\ n - 1 <= Len(b)
  BY <1>0
<1>2. \A n \in 1..Len(a) : n <= Len(b) =>
         (SubSeq(a, 1, n - 1) = SubSeq(b, 1, n - 1) <=> \A i \in 1 .. n - 1 : a[i] = b[i])
  BY <1>1, PrefixPointwise
<1>3. Len(a) < Len(b) => (SubSeq(b, 1, Len(a)) = a <=> \A i \in 1..Len(a) : a[i] = b[i])
  <2>1. SUFFICES ASSUME Len(a) < Len(b)
                 PROVE  SubSeq(b, 1, Len(a)) = a <=> \A i \in 1..Len(a) : a[i] = b[i]
    OBVIOUS
  <2>2. Len(a) \in 0..Len(a) /\ Len(a) <= Len(b)
    BY <1>0, <2>1
  <2>3. SubSeq(a, 1, Len(a)) = SubSeq(b, 1, Len(a)) <=> \A i \in 1..Len(a) : a[i] = b[i]
    BY <2>2, PrefixPointwise
  <2>4. SubSeq(a, 1, Len(a)) = a
    <3>1. /\ SubSeq(a, 1, Len(a)) \in Seq(Int) /\ Len(SubSeq(a, 1, Len(a))) = Len(a)
          /\ \A i \in 1..Len(a) : SubSeq(a, 1, Len(a))[i] = a[i]
      BY <1>0, <2>2, SubSeqProperties
    <3>. QED
      BY <3>1, SeqEqual
  <2>. QED
    BY <2>3, <2>4
<1>4. (\E n \in 1..Len(a) : n <= Len(b) /\ SubSeq(a, 1, n - 1) = SubSeq(b, 1, n - 1) /\ a[n] < b[n])
      <=> Less(a, b)
  BY <1>2 DEF Less
<1>5. (Len(a) < Len(b) /\ SubSeq(b, 1, Len(a)) = a) <=> Shorter(a, b)
  BY <1>3 DEF Shorter
<1>. QED
  BY <1>4, <1>5 DEF Before

LEMMA LessAsymmetric ==
    ASSUME NEW a \in Seq(Int), NEW b \in Seq(Int), Less(a, b)
    PROVE  ~Less(b, a)
<1>. SUFFICES ASSUME Less(b, a) PROVE FALSE
  OBVIOUS
<1>0. Len(a) \in Nat /\ Len(b) \in Nat
  BY LenProperties
<1>1. PICK n \in 1..Len(a) : n <= Len(b) /\ (\A i \in 1 .. n - 1 : a[i] = b[i]) /\ a[n] < b[n]
  BY DEF Less
<1>2. PICK m \in 1..Len(b) : m <= Len(a) /\ (\A i \in 1 .. m - 1 : b[i] = a[i]) /\ b[m] < a[m]
  BY DEF Less
<1>3. a[n] \in Int /\ b[n] \in Int /\ a[m] \in Int /\ b[m] \in Int
  <2>1. n \in 1..Len(b) /\ m \in 1..Len(a)
    BY <1>0, <1>1, <1>2
  <2>. QED
    BY <2>1, ElementOfSeq
<1>4. CASE n < m
  <2>1. n \in 1 .. m - 1
    BY <1>0, <1>4
  <2>. QED
    BY <1>1, <1>2, <1>3, <2>1
<1>5. CASE m < n
  <2>1. m \in 1 .. n - 1
    BY <1>0, <1>5
  <2>. QED
    BY <1>1, <1>2, <1>3, <2>1
<1>6. CASE m = n
  BY <1>1, <1>2, <1>3, <1>6
<1>. QED
  BY <1>0, <1>4, <1>5, <1>6

LEMMA LeastNumber ==
    ASSUME NEW S \in SUBSET Nat, S # {}
    PROVE  \E m \in S : \A i \in S : m <= i
<1> DEFINE R == OpToRel(<, Nat)
<1>1. IsWellFoundedOn(R, Nat)
  BY NatLessThanWellFounded
<1>. HIDE DEF R
<1>2. PICK x \in S : \A y \in S : ~ (<<y, x>> \in R)
  BY <1>1, WFMin
<1>3. \A y \in S : ~ (y < x)
  BY <1>2, Zenon DEF OpToRel, R
<1>4. \A y \in S : x <= y
  BY <1>3
<1>. QED
  BY <1>4

LEMMA BeforeAsymmetric ==
    ASSUME NEW a \in Seq(Int), NEW b \in Seq(Int), Before(a, b)
    PROVE  ~Before(b, a)
<1>0. Len(a) \in Nat /\ Len(b) \in Nat /\ (\A i \in 1..Len(a) : a[i] \in Int)
      /\ \A i \in 1..Len(b) : b[i] \in Int
  BY LenProperties, ElementOfSeq
<1>1. /\ Less(a, b) \/ Shorter(a, b)
      /\ Before(b, a) <=> Less(b, a) \/ Shorter(b, a)
  BY BeforePointwise
<1>2. ~(Less(a, b) /\ Less(b, a))
  BY LessAsymmetric
<1>3. ~(Less(a, b) /\ Shorter(b, a))
  BY <1>0 DEF Less, Shorter
<1>4. ~(Shorter(a, b) /\ Less(b, a))
  BY <1>0 DEF Less, Shorter
<1>5. ~(Shorter(a, b) /\ Shorter(b, a))
  BY <1>0 DEF Shorter
<1>. QED
  BY <1>1, <1>2, <1>3, <1>4, <1>5

\* What does not begin with s lies on the same side of everything that does.
LEMMA SameSide ==
    ASSUME NEW s \in Seq(Int), NEW a \in Seq(Int), NEW c \in Seq(Int), NEW b \in Seq(Int),
           BeginsWith(a, s), BeginsWith(c, s), ~BeginsWith(b, s), ~Before(b, a)
    PROVE  Before(c, b)
<1>0. Len(a) \in Nat /\ Len(b) \in Nat /\ Len(c) \in Nat /\ Len(s) \in Nat
  BY LenProperties
<1>a. /\ Len(s) <= Len(a) /\ \A i \in 1..Len(s) : a[i] = s[i]
      /\ Len(s) <= Len(c) /\ \A i \in 1..Len(s) : c[i] = s[i]
  BY DEF BeginsWith
<1>b. ~(Len(s) <= Len(b) /\ \A i \in 1..Len(s) : b[i] = s[i])
  BY DEF BeginsWith
<1> DEFINE D == {i \in 1..Len(b) : i <= Len(s) /\ b[i] # s[i]}
<1>1. D # {}
  <2>1. SUFFICES ASSUME D = {} PROVE FALSE
    OBVIOUS
  <2>2. \A i \in 1..Len(b) : i <= Len(s) => b[i] = s[i]
    BY <2>1
  <2>3. Len(b) < Len(s)
    <3>1. SUFFICES ASSUME Len(s) <= Len(b) PROVE FALSE
      BY <1>0
    <3>2. \A i \in 1..Len(s) : i \in 1..Len(b) /\ i <= Len(s)
      BY <1>0, <3>1
    <3>. QED
      BY <1>b, <2>2, <3>1, <3>2
  <2>4. Shorter(b, a)
    <3>1. Len(b) < Len(a)
      BY <1>0, <1>a, <2>3
    <3>2. \A i \in 1..Len(b) : i <= Len(s) /\ i \in 1..Len(s)
      BY <1>0, <2>3
    <3>3. \A i \in 1..Len(b) : b[i] = a[i]
      BY <1>a, <2>2, <3>2
    <3>. QED
      BY <3>1, <3>3 DEF Shorter
  <2>. QED
    BY <2>4, BeforePointwise
<1>2. D \in SUBSET Nat
  OBVIOUS
<1>3. PICK n \in D : \A i \in D : n <= i
  BY <1>1, <1>2, LeastNumber
<1>4. n \in 1..Len(b) /\ n \in 1..Len(s) /\ n \in 1..Len(a) /\ n \in 1..Len(c) /\ b[n] # s[n]
  <2>1. n \in 1..Len(b) /\ n <= Len(s) /\ b[n] # s[n]
    BY <1>3
  <2>2. Len(s) <= Len(a) /\ Len(s) <= Len(c)
    BY <1>a
  <2>. HIDE DEF D
  <2>3. ASSUME NEW x \in Nat, NEW y \in Nat, NEW z \in Nat, x <= y
        PROVE  \A i \in 1..z : i <= x => i \in 1..x /\ i \in 1..y
    BY <2>3
  <2>4. n \in 1..Len(s) /\ n \in 1..Len(a)
    BY <1>0, <2>1, <2>2, <2>3, Zenon
  <2>5. n \in 1..Len(c)
    BY <1>0, <2>1, <2>2, <2>3, Zenon
  <2>. QED
    BY <2>1, <2>4, <2>5, Zenon
<1>. HIDE DEF D
<1>5. \A i \in 1 .. n - 1 : b[i] = s[i] /\ a[i] = s[i] /\ c[i] = s[i]
  <2>1. \A i \in 1 .. n - 1 : i \in 1..Len(b) /\ i \in 1..Len(s) /\ i <= Len(s) /\ ~(n <= i)
    <3>1. ASSUME NEW x \in Nat, NEW y \in Nat, NEW m \in 1..x, m \in 1..y
          PROVE  \A i \in 1 .. m - 1 : i \in 1..x /\ i \in 1..y /\ i <= y /\ ~(m <= i)
      BY <3>1
    <3>2. n \in 1..Len(b) /\ n \in 1..Len(s)
      BY <1>4
    <3>. QED
      BY <1>0, <3>1, <3>2, Zenon
  <2>2. \A i \in 1 .. n - 1 : i \notin D
    BY <1>3, <2>1
  <2>3. \A i \in 1 .. n - 1 : b[i] = s[i]
    BY <2>1, <2>2 DEF D
  <2>. QED
    BY <1>a, <2>1, <2>3
<1>6. a[n] = s[n] /\ c[n] = s[n] /\ b[n] \in Int /\ s[n] \in Int
  BY <1>4, <1>a, ElementOfSeq
<1>7. ~(b[n] < s[n])
  <2>1. SUFFICES ASSUME b[n] < s[n] PROVE FALSE
    OBVIOUS
  <2>2. Less(b, a)
    <3>1. n <= Len(a)
      BY <1>0, <1>4
    <3>2. b[n] < a[n]
      BY <1>6, <2>1
    <3>3. \A i \in 1 .. n - 1 : b[i] = a[i]
      BY <1>5
    <3>. QED
      BY <1>4, <3>1, <3>2, <3>3 DEF Less
  <2>. QED
    BY <2>2, BeforePointwise
<1>8. Less(c, b)
  <2>1. n <= Len(b)
    BY <1>0, <1>4
  <2>2. c[n] < b[n]
    BY <1>4, <1>6, <1>7
  <2>3. \A i \in 1 .. n - 1 : c[i] = b[i]
    BY <1>5
  <2>. QED
    BY <1>4, <2>1, <2>2, <2>3 DEF Less
<1>. QED
  BY <1>8, BeforePointwise

-----------------------------------------------------------------------------
(* The order of records *)

LEMMA Heights == MaxHeight \in Nat /\ Max64 = MaxHeight + 2 /\ Max64 \in Nat
BY IndexAssumption DEF Max64

LEMMA KeyFacts ==
    ASSUME NEW k \in Keys
    PROVE  /\ k \in Seq(Int) /\ Len(k) \in Nat \ {0}
           /\ \A i \in 1..Len(k) : k[i] \in 0..255
<1>1. k \in Seq(0..255) /\ Len(k) > 0
  BY IndexAssumption
<1>2. Len(k) \in Nat /\ \A i \in 1..Len(k) : k[i] \in 0..255
  BY <1>1, ElementOfSeq, LenProperties
<1>3. k \in Seq(Int)
  <2>1. 0..255 \subseteq Int
    OBVIOUS
  <2>. QED
    BY <1>1, <2>1, SeqMonotonic
<1>. QED
  BY <1>1, <1>2, <1>3

\* A record as bytes: the bytes of the key and then those of the height.
LEMMA RecordBytes ==
    ASSUME NEW k \in Keys, NEW g \in 1..Max64
    PROVE  /\ AsBytes(<<k, g>>) \in Seq(Int)
           /\ Len(AsBytes(<<k, g>>)) = Len(k) + 2
           /\ \A i \in 1..Len(k) : AsBytes(<<k, g>>)[i] = k[i]
           /\ AsBytes(<<k, g>>)[Len(k) + 1] = IF g = Max64 THEN 255 ELSE 0
           /\ AsBytes(<<k, g>>)[Len(k) + 2] = IF g = Max64 THEN 255 ELSE g
<1>1. k \in Seq(Int) /\ Len(k) \in Nat \ {0}
  BY KeyFacts
<1>2. /\ HeightBytes(g) \in Seq(Int) /\ Len(HeightBytes(g)) = 2
      /\ HeightBytes(g)[1] = IF g = Max64 THEN 255 ELSE 0
      /\ HeightBytes(g)[2] = IF g = Max64 THEN 255 ELSE g
  BY Heights DEF HeightBytes
<1>3. AsBytes(<<k, g>>) = k \o HeightBytes(g)
  BY DEF AsBytes
<1>4. /\ k \o HeightBytes(g) \in Seq(Int)
      /\ Len(k \o HeightBytes(g)) = Len(k) + 2
      /\ \A i \in 1 .. Len(k) + 2 : (k \o HeightBytes(g))[i] =
            IF i <= Len(k) THEN k[i] ELSE HeightBytes(g)[i - Len(k)]
  <2>1. /\ k \o HeightBytes(g) \in Seq(Int)
        /\ Len(k \o HeightBytes(g)) = Len(k) + Len(HeightBytes(g))
        /\ \A i \in 1 .. Len(k) + Len(HeightBytes(g)) : (k \o HeightBytes(g))[i] =
              IF i <= Len(k) THEN k[i] ELSE HeightBytes(g)[i - Len(k)]
    BY <1>1, <1>2, ConcatProperties, Zenon
  <2>. QED
    BY <1>2, <2>1, Zenon
<1>5. /\ Len(k) + 1 \in 1 .. Len(k) + 2 /\ ~(Len(k) + 1 <= Len(k)) /\ Len(k) + 1 - Len(k) = 1
      /\ Len(k) + 2 \in 1 .. Len(k) + 2 /\ ~(Len(k) + 2 <= Len(k)) /\ Len(k) + 2 - Len(k) = 2
      /\ \A i \in 1..Len(k) : i \in 1 .. Len(k) + 2 /\ i <= Len(k)
  BY <1>1
<1>6. \A i \in 1..Len(k) : (k \o HeightBytes(g))[i] = k[i]
  BY <1>4, <1>5, Zenon
<1>7. /\ (k \o HeightBytes(g))[Len(k) + 1] = HeightBytes(g)[1]
      /\ (k \o HeightBytes(g))[Len(k) + 2] = HeightBytes(g)[2]
  <2> DEFINE s == k \o HeightBytes(g)  hb == HeightBytes(g)  l == Len(k)
  <2>1. l \in Nat /\ \A i \in 1 .. l + 2 : s[i] = IF i <= l THEN k[i] ELSE hb[i - l]
    BY <1>1, <1>4
  <2>. HIDE DEF s, hb, l
  <2>2. s[l + 1] = hb[1] /\ s[l + 2] = hb[2]
    BY <2>1
  <2>. QED
    BY <2>2 DEF s, hb, l
<1>. QED
  BY <1>2, <1>3, <1>4, <1>6, <1>7, Zenon

\* The records of a key are in the order of their heights.
LEMMA SameKeyOrder ==
    ASSUME NEW k \in Keys, NEW g \in 1..Max64, NEW h \in 1..Max64, g < h
    PROVE  Less(AsBytes(<<k, g>>), AsBytes(<<k, h>>))
<1> DEFINE a == AsBytes(<<k, g>>)  b == AsBytes(<<k, h>>)
<1>1. Len(k) \in Nat
  BY KeyFacts
<1>2. g # Max64 /\ g \in Int /\ h \in Int /\ g >= 1
  BY Heights
<1>3. /\ Len(a) = Len(k) + 2 /\ Len(b) = Len(k) + 2
      /\ \A i \in 1..Len(k) : a[i] = b[i]
      /\ a[Len(k) + 1] = 0 /\ b[Len(k) + 1] = (IF h = Max64 THEN 255 ELSE 0)
      /\ a[Len(k) + 2] = g /\ b[Len(k) + 2] = (IF h = Max64 THEN 255 ELSE h)
  <2>1. /\ Len(a) = Len(k) + 2
        /\ \A i \in 1..Len(k) : a[i] = k[i]
        /\ a[Len(k) + 1] = (IF g = Max64 THEN 255 ELSE 0)
        /\ a[Len(k) + 2] = (IF g = Max64 THEN 255 ELSE g)
    BY RecordBytes, Zenon
  <2>2. /\ Len(b) = Len(k) + 2
        /\ \A i \in 1..Len(k) : b[i] = k[i]
        /\ b[Len(k) + 1] = (IF h = Max64 THEN 255 ELSE 0)
        /\ b[Len(k) + 2] = (IF h = Max64 THEN 255 ELSE h)
    BY RecordBytes, Zenon
  <2>. HIDE DEF a, b
  <2>. QED
    BY <1>2, <2>1, <2>2
<1>. HIDE DEF a, b
<1>4. CASE h = Max64
  <2>1. /\ Len(k) + 1 \in 1..Len(a) /\ Len(k) + 1 <= Len(b)
        /\ a[Len(k) + 1] < b[Len(k) + 1] /\ (Len(k) + 1) - 1 = Len(k)
    BY <1>1, <1>3, <1>4
  <2>2. Less(a, b)
    BY <1>3, <2>1 DEF Less
  <2>. QED
    BY <2>2 DEF a, b
<1>5. CASE h # Max64
  <2>1. Len(k) + 2 \in 1..Len(a) /\ Len(k) + 2 <= Len(b) /\ a[Len(k) + 2] < b[Len(k) + 2]
    BY <1>1, <1>3, <1>5
  <2>2. \A i \in 1 .. (Len(k) + 2) - 1 : a[i] = b[i]
    <3>1. \A i \in 1 .. (Len(k) + 2) - 1 : i \in 1..Len(k) \/ i = Len(k) + 1
      BY <1>1
    <3>. QED
      BY <1>3, <1>5, <3>1
  <2>3. Less(a, b)
    BY <2>1, <2>2 DEF Less
  <2>. QED
    BY <2>3 DEF a, b
<1>. QED
  BY <1>4, <1>5

\* Which record comes first.
LEMMA RecordOrder ==
    ASSUME NEW j \in Keys, NEW k \in Keys, NEW g \in 1..Max64, NEW h \in 1..Max64
    PROVE  /\ Before(AsBytes(<<j, g>>), AsBytes(<<k, h>>)) => ~Before(AsBytes(<<k, h>>), AsBytes(<<j, g>>))
           /\ j = k /\ g < h => Before(AsBytes(<<j, g>>), AsBytes(<<k, h>>))
<1>1. AsBytes(<<j, g>>) \in Seq(Int) /\ AsBytes(<<k, h>>) \in Seq(Int)
  BY RecordBytes
<1>. QED
  BY <1>1, BeforeAsymmetric, BeforePointwise, SameKeyOrder

\* The records of a key begin with it, and those that have expired with it and
\* the upper byte of their heights.
LEMMA RecordPrefix ==
    ASSUME NEW k \in Keys, NEW g \in 1..Max64
    PROVE  /\ k \in Seq(Int) /\ k \o <<0>> \in Seq(Int)
           /\ BeginsWith(AsBytes(<<k, g>>), k)
           /\ g # Max64 => BeginsWith(AsBytes(<<k, g>>), k \o <<0>>)
<1> DEFINE b == AsBytes(<<k, g>>)
           l == Len(k)
           s == k \o <<0>>
<1>1. k \in Seq(Int) /\ l \in Nat
  BY KeyFacts
<1>2. /\ Len(b) = l + 2 /\ \A i \in 1..l : b[i] = k[i]
      /\ b[l + 1] = IF g = Max64 THEN 255 ELSE 0
  BY RecordBytes, Zenon
<1>3. s \in Seq(Int) /\ Len(s) = l + 1 /\ \A i \in 1 .. l + 1 : s[i] = IF i <= l THEN k[i] ELSE 0
  <2> DEFINE z == <<0>>
  <2>1. z \in Seq(Int) /\ Len(z) = 1 /\ z[1] = 0
    OBVIOUS
  <2>. HIDE DEF z
  <2>2. /\ k \o z \in Seq(Int) /\ Len(k \o z) = Len(k) + Len(z)
        /\ \A i \in 1 .. Len(k) + Len(z) : (k \o z)[i] = IF i <= Len(k) THEN k[i] ELSE z[i - Len(k)]
    BY <1>1, <2>1, ConcatProperties
  <2>3. \A i \in 1 .. l + 1 : ~(i <= l) => i - l = 1
    BY <1>1
  <2>4. k \o z \in Seq(Int) /\ Len(k \o z) = l + 1
        /\ \A i \in 1 .. l + 1 : (k \o z)[i] = IF i <= l THEN k[i] ELSE 0
    BY <2>1, <2>2, <2>3
  <2>. QED
    BY <2>4 DEF z
<1>. HIDE DEF b, l, s
<1>4. BeginsWith(b, s) <=> Len(s) <= Len(b) /\ \A i \in 1..Len(s) : b[i] = s[i]
  BY DEF BeginsWith
<1>5. g # Max64 => BeginsWith(b, s)
  <2>1. \A i \in 1 .. l + 1 : i \in 1..l \/ i = l + 1
    BY <1>1
  <2>. QED
    BY <1>1, <1>2, <1>3, <1>4, <2>1
<1>6. BeginsWith(b, k)
  BY <1>1, <1>2 DEF BeginsWith, l
<1>. QED
  BY <1>1, <1>3, <1>5, <1>6 DEF b, s

-----------------------------------------------------------------------------
(* Lookups *)

\* What the bytes of the record of k that expires at g and of those before begin with.
Stem(k, g) == IF g = Max64 THEN k ELSE k \o <<0>>

\* The iterator of GetAtHeight stops at the first record of k that expires
\* after h, if k has one and no record of another key begins with what that
\* record and the sought bytes begin with.
LEMMA SeekFinds ==
    ASSUME NEW k \in Keys, NEW h \in 0..MaxHeight, NEW g \in h + 1 .. Max64, FirstAfter(k, h, g),
           Undisturbed(k, Stem(k, g))
    PROVE  Seek(k, h + 1) = <<k, g>>
<1> DEFINE S == {r \in Recs : db[r] # NoRec /\ ~Before(AsBytes(r), AsBytes(<<k, h + 1>>))}
           r0 == <<k, g>>
           s == Stem(k, g)
<1>1. h + 1 \in 1..Max64 /\ h + 1 # Max64 /\ g \in 1..Max64 /\ h \in Int /\ g \in Int
  BY Heights
<1>2. r0 \in S
  <2>1. r0 \in Recs /\ db[r0] # NoRec
    BY <1>1 DEF Recs, FirstAfter
  <2>2. CASE g = h + 1
    BY <1>1, <2>1, <2>2, RecordOrder
  <2>3. CASE h + 1 < g
    BY <1>1, <2>1, <2>3, RecordOrder
  <2>. QED
    BY <1>1, <2>2, <2>3
<1>3. ASSUME NEW q \in S PROVE q = r0 \/ Before(AsBytes(r0), AsBytes(q))
  <2>1. PICK j \in Keys, i \in 1..Max64 : q = <<j, i>>
    BY DEF Recs
  <2>2. db[<<j, i>>] # NoRec /\ ~Before(AsBytes(<<j, i>>), AsBytes(<<k, h + 1>>))
    BY <2>1
  <2>3. CASE j = k
    <3>1. ~(i < h + 1)
      BY <1>1, <2>2, <2>3, RecordOrder
    <3>2. i \notin h + 1 .. g - 1
      BY <2>2, <2>3 DEF FirstAfter
    <3>3. i = g \/ g < i
      BY <1>1, <3>1, <3>2
    <3>. QED
      BY <1>1, <2>1, <2>3, <3>3, RecordOrder
  <2>4. CASE j # k
    <3>1. ~BeginsWith(AsBytes(<<j, i>>), s)
      <4>1. <<j, i>> \in Recs /\ <<j, i>>[1] # k
        BY <2>4 DEF Recs
      <4>. QED
        BY <2>2, <4>1 DEF Undisturbed
    <3>2. /\ s \in Seq(Int) /\ BeginsWith(AsBytes(<<k, h + 1>>), s) /\ BeginsWith(AsBytes(<<k, g>>), s)
          /\ AsBytes(<<k, h + 1>>) \in Seq(Int) /\ AsBytes(<<k, g>>) \in Seq(Int)
          /\ AsBytes(<<j, i>>) \in Seq(Int)
      <4>1. AsBytes(<<k, h + 1>>) \in Seq(Int) /\ AsBytes(<<k, g>>) \in Seq(Int) /\ AsBytes(<<j, i>>) \in Seq(Int)
        BY <1>1, RecordBytes
      <4>2. CASE g = Max64
        BY <1>1, <4>1, <4>2, RecordPrefix DEF Stem
      <4>3. CASE g # Max64
        BY <1>1, <4>1, <4>3, RecordPrefix DEF Stem
      <4>. QED
        BY <4>2, <4>3
    <3>. HIDE DEF s
    <3>3. Before(AsBytes(<<k, g>>), AsBytes(<<j, i>>))
      BY <2>2, <3>1, <3>2, SameSide
    <3>. QED
      BY <2>1, <3>3
  <2>. QED
    BY <2>3, <2>4
<1>4. ASSUME NEW r \in S, \A q \in S : q = r \/ Before(AsBytes(r), AsBytes(q)) PROVE r = r0
  <2>1. PICK j \in Keys, i \in 1..Max64 : r = <<j, i>>
    BY DEF Recs
  <2>2. r = r0 \/ Before(AsBytes(r), AsBytes(r0))
    BY <1>2, <1>4
  <2>3. r = r0 \/ Before(AsBytes(r0), AsBytes(r))
    BY <1>3
  <2>. QED
    BY <1>1, <2>1, <2>2, <2>3, RecordOrder
<1>5. Seek(k, h + 1) = CHOOSE r \in S : \A q \in S : q = r \/ Before(AsBytes(r), AsBytes(q))
  BY <1>2 DEF Seek
<1>. HIDE DEF S, r0
<1>6. Seek(k, h + 1) = r0
  BY <1>2, <1>3, <1>4, <1>5
<1>. QED
  BY <1>6 DEF r0

\* The bound of GetAtHeight is not below the records of k, but for the latest
\* one of a key that ends in 255.
LEMMA WithinBound ==
    ASSUME NEW k \in Keys, NEW h \in 0..MaxHeight, NEW g \in 1..Max64,
           k[Len(k)] # 255 \/ g # Max64
    PROVE  ~Before(UpperBound(k, h), AsBytes(<<k, g>>))
<1> DEFINE l == Len(k)
           c == [k EXCEPT ![Len(k)] = 255]
           b == AsBytes(<<k, g>>)
<1>1. k \in Seq(Int) /\ l \in Nat \ {0} /\ l \in 1..Len(k) /\ k[l] \in 0..255
  BY KeyFacts
<1>2. c \in Seq(Int) /\ Len(c) = l /\ c[l] = 255 /\ \A i \in 1 .. l : i # l => c[i] = k[i]
  BY <1>1, ExceptSeq
<1> DEFINE t == <<255, HeightBytes(h + 1)[2]>>
<1>3. t \in Seq(Int) /\ Len(t) = 2 /\ t[1] = 255
  BY Heights DEF HeightBytes
<1>4. UpperBound(k, h) = c \o t
  BY DEF UpperBound
<1>5. /\ b \in Seq(Int) /\ Len(b) = l + 2 /\ \A i \in 1..l : b[i] = k[i]
      /\ b[l + 1] = IF g = Max64 THEN 255 ELSE 0
  BY RecordBytes, Zenon
<1>. HIDE DEF c, t, b
<1> DEFINE a == c \o t
<1>6. a \in Seq(Int) /\ Len(a) = l + 2 /\ (\A i \in 1..l : a[i] = c[i]) /\ a[l + 1] = 255
  <2>1. /\ a \in Seq(Int) /\ Len(a) = Len(c) + Len(t)
        /\ \A i \in 1 .. Len(c) + Len(t) : a[i] = IF i <= Len(c) THEN c[i] ELSE t[i - Len(c)]
    <3>1. c \in Seq(Int) /\ t \in Seq(Int)
      BY <1>2, <1>3
    <3>. QED
      BY <3>1, ConcatProperties
  <2>. HIDE DEF a, l
  <2>2. a \in Seq(Int) /\ Len(a) = l + 2 /\ (\A i \in 1..l : a[i] = c[i]) /\ a[l + 1] = 255
    BY <1>1, <1>2, <1>3, <2>1
  <2>. QED
    BY <2>2
<1>. HIDE DEF a
<1>7. ~Less(a, b)
  <2>1. ASSUME NEW n \in 1..Len(a), \A i \in 1 .. n - 1 : a[i] = b[i], a[n] < b[n] PROVE FALSE
    <3>. HIDE DEF l
    <3>1. l \in Nat \ {0} /\ a[l] = 255 /\ b[l] = k[l] /\ k[l] \in 0..255
      <4>1. l \in 1..l
        BY <1>1 DEF l
      <4>. QED
        BY <1>1, <1>2, <1>5, <1>6, <4>1
    <3>2. CASE n < l
      <4>1. n \in 1..l /\ n # l
        BY <3>1, <3>2
      <4>2. a[n] = b[n] /\ b[n] = k[n]
        <5>1. a[n] = c[n]
          BY <1>6, <4>1, Zenon
        <5>2. c[n] = k[n]
          BY <1>2, <4>1, Zenon
        <5>3. b[n] = k[n]
          BY <1>5, <4>1, Zenon
        <5>. QED
          BY <5>1, <5>2, <5>3
      <4>3. k[n] \in Int
        BY <1>1, <4>1, ElementOfSeq DEF l
      <4>. QED
        BY <2>1, <4>2, <4>3
    <3>3. CASE n = l
      <4>1. a[l] < b[l]
        BY <2>1, <3>3
      <4>2. 255 < k[l]
        BY <3>1, <4>1, Zenon
      <4>3. \A x \in 0..255 : ~(255 < x)
        OBVIOUS
      <4>. QED
        BY <3>1, <4>2, <4>3, Zenon
    <3>4. CASE l < n
      <4>1. l \in 1 .. n - 1
        BY <3>1, <3>4
      <4>2. k[l] = 255
        BY <2>1, <3>1, <4>1
      <4>3. b[l + 1] = 0 /\ a[l + 1] = 255
        BY <1>5, <1>6, <4>2 DEF l
      <4>4. n = l + 1 \/ l + 1 \in 1 .. n - 1
        BY <3>1, <3>4
      <4>. QED
        BY <2>1, <4>3, <4>4
    <3>. QED
      BY <3>1, <3>2, <3>3, <3>4
  <2>. QED
    BY <2>1 DEF Less
<1>8. Before(a, b) <=> Less(a, b)
  <2>1. l \in Nat
    BY <1>1
  <2>2. ~Shorter(a, b)
    BY <1>5, <1>6, <2>1 DEF Shorter
  <2>. QED
    BY <1>5, <1>6, <2>2, BeforePointwise
<1>. QED
  BY <1>4, <1>7, <1>8 DEF a, b

\* What the invariant says of the records is what a lookup answers.
LEMMA LookupAnswers ==
    ASSUME Inv, NEW h \in 0..committed, NEW k \in Keys, h > everPruned, Answerable(k, h)
    PROVE  GetAtHeight(k, h) = hist[h][k]
<1>1. /\ h \in 0..MaxHeight /\ h \in Int /\ committed \in Int /\ everPruned \in Int
      /\ pruneHeight \in Int /\ pruneHeight <= everPruned
      /\ Max64 \in h + 1 .. Max64 /\ Max64 \in Int
  BY Heights DEF Inv, Types, PhaseOK
<1> DEFINE expired == \E g \in h + 1 .. Max64 - 1 : db[<<k, g>>] # NoRec
<1>2. Answers(k, h)
  BY DEF Inv, HistoryOK
<1>3. ~(\A g \in h + 1 .. Max64 : db[<<k, g>>] = NoRec)
  <2>1. CASE expired
    <3>1. PICK g \in h + 1 .. Max64 - 1 : db[<<k, g>>] # NoRec
      BY <2>1
    <3>2. g \in h + 1 .. Max64
      BY <1>1
    <3>. QED
      BY <3>1, <3>2
  <2>2. CASE ~expired
    BY <1>1, <2>2 DEF Answerable
  <2>. QED
    BY <2>1, <2>2
<1>4. PICK g \in h + 1 .. Max64 : FirstAfter(k, h, g) /\ db[<<k, g>>] = hist[h][k]
  BY <1>2, <1>3 DEF Answers
<1>5. g \in 1..Max64 /\ g \in Int
  BY <1>1
<1>6. /\ Undisturbed(k, Stem(k, g))
      /\ k[Len(k)] # 255 \/ g # Max64
  <2>1. CASE g = Max64
    <3>1. ~expired
      BY <1>4, <2>1 DEF FirstAfter
    <3>. QED
      BY <2>1, <3>1 DEF Answerable, Stem
  <2>2. CASE g # Max64
    <3>1. g \in h + 1 .. Max64 - 1
      BY <1>1, <1>5, <2>2
    <3>2. expired
      BY <1>4, <3>1 DEF FirstAfter
    <3>. QED
      BY <2>2, <3>2 DEF Answerable, Stem
  <2>. QED
    BY <2>1, <2>2
<1>7. Seek(k, h + 1) = <<k, g>>
  BY <1>1, <1>4, <1>6, SeekFinds
<1>8. ~Before(UpperBound(k, h), AsBytes(<<k, g>>))
  BY <1>1, <1>5, <1>6, WithinBound
<1>9. ~(h <= pruneHeight)
  BY <1>1
<1>10. <<k, g>> # NoRec
  BY <1>5, IndexAssumption
<1>. QED
  BY <1>4, <1>7, <1>8, <1>9, <1>10 DEF GetAtHeight

-----------------------------------------------------------------------------
(* Preservation *)

LEMMA TypesEquiv == TypeOK <=> Types
BY DEF TypeOK, Types

LEMMA RecIn == \A k \in Keys, g \in 1..Max64 : <<k, g>> \in Recs
BY DEF Recs

\* The heights a step may be about.
LEMMA HeightFacts ==
    ASSUME Types, PhaseOK
    PROVE  /\ committed \in Nat /\ currHeight \in Nat /\ committed <= MaxHeight
           /\ currHeight <= MaxHeight /\ committed <= currHeight
           /\ committed \in 0..MaxHeight /\ currHeight \in 0..MaxHeight
           /\ pruneHeight \in Int /\ everPruned \in Int
           /\ pruneHeight <= MaxHeight /\ everPruned <= MaxHeight
           /\ \A k \in Keys : hist[committed][k] \in Positions \cup {NoPos}
BY Heights DEF Types, PhaseOK

\* A position is not the absence of a record, and a record is a change.
LEMMA LatestRecType ==
    ASSUME NEW p \in Positions \cup {NoPos}
    PROVE  /\ LatestRec(p) \in Positions \cup {NoRec}
           /\ LatestRec(p) # NoChange /\ p # NoRec /\ p # NoChange
           /\ LatestRec(p) = NoRec <=> p = NoPos
           /\ LatestRec(p) # NoRec => LatestRec(p) = p
BY IndexAssumption DEF LatestRec

\* The answers depend on the records after the height and on its history only.
LEMMA SameAnswers ==
    ASSUME NEW k \in Keys, NEW h \in 0..MaxHeight, Answers(k, h), hist'[h] = hist[h],
           \A g \in h + 1 .. Max64 : db'[<<k, g>>] = db[<<k, g>>]
    PROVE  Answers(k, h)'
<1>1. CASE hist[h][k] = NoPos /\ \A g \in h + 1 .. Max64 : db[<<k, g>>] = NoRec
  BY <1>1 DEF Answers
<1>2. ASSUME NEW g \in h + 1 .. Max64, FirstAfter(k, h, g), db[<<k, g>>] = hist[h][k]
      PROVE  Answers(k, h)'
  <2>1. \A i \in h + 1 .. g - 1 : i \in h + 1 .. Max64
    BY Heights
  <2>2. FirstAfter(k, h, g)' /\ db'[<<k, g>>] = hist'[h][k]
    BY <1>2, <2>1 DEF FirstAfter
  <2>. QED
    BY <2>2 DEF Answers
<1>. QED
  BY <1>1, <1>2 DEF Answers

\* What the latest records say, a lookup at the last committed block answers.
LEMMA LatestAnswers ==
    ASSUME Types, PhaseOK, LatestOK, NEW k \in Keys
    PROVE  Answers(k, committed)
<1>1. committed \in Nat /\ committed <= MaxHeight /\ hist[committed][k] \in Positions \cup {NoPos}
  BY HeightFacts
<1>2. /\ db[<<k, Max64>>] = LatestRec(hist[committed][k])
      /\ \A g \in committed + 1 .. Max64 - 1 : db[<<k, g>>] = NoRec
  BY DEF LatestOK
<1>3. Max64 \in committed + 1 .. Max64
  BY <1>1, Heights
<1>4. CASE hist[committed][k] = NoPos
  <2>1. db[<<k, Max64>>] = NoRec
    BY <1>1, <1>2, <1>4, LatestRecType
  <2>2. \A g \in committed + 1 .. Max64 : g = Max64 \/ g \in committed + 1 .. Max64 - 1
    BY <1>1, Heights
  <2>. QED
    BY <1>2, <1>4, <2>1, <2>2 DEF Answers
<1>5. CASE hist[committed][k] # NoPos
  <2>1. db[<<k, Max64>>] # NoRec /\ db[<<k, Max64>>] = hist[committed][k]
    BY <1>1, <1>2, <1>5, LatestRecType
  <2>2. FirstAfter(k, committed, Max64)
    BY <1>2, <1>3, <2>1 DEF FirstAfter
  <2>. QED
    BY <1>3, <2>1, <2>2 DEF Answers
<1>. QED
  BY <1>4, <1>5

LEMMA LatestAnswersAll == Types /\ PhaseOK /\ LatestOK => \A k \in Keys : Answers(k, committed)
BY LatestAnswers

LEMMA InitInv == Init => Inv
<1>. SUFFICES ASSUME Init PROVE Inv
  OBVIOUS
<1>. USE DEF Init
<1>1. Types
  <2>1. MaxHeight \in Nat /\ MaxIters \in Nat
    BY IndexAssumption
  <2>2. Latest \in [Keys -> Positions \cup {NoPos}]
    BY DEF Latest
  <2>3. /\ bt \in [Keys -> Positions \cup {NoPos}]
        /\ hist \in [0..MaxHeight -> [Keys -> Positions \cup {NoPos}]]
    BY <2>2
  <2>4. db \in [Recs -> Positions \cup {NoPos, NoRec}]
    OBVIOUS
  <2>5. batch \in [Recs -> Positions \cup {NoPos, NoRec, NoChange}]
    BY DEF NoBatch
  <2>6. isWriting \in BOOLEAN /\ changed \subseteq Keys /\ (isWriting => iters = 0)
    OBVIOUS
  <2>7. 0 \in 0..MaxIters /\ 0 \in 0..MaxHeight /\ 0 \in 0..0 /\ -1 \in (-1)..MaxHeight
    BY ONLY <2>1
  <2>8. /\ iters \in 0..MaxIters /\ currHeight \in 0..MaxHeight /\ committed \in 0..currHeight
        /\ pruneHeight \in (-1)..MaxHeight /\ everPruned \in (-1)..MaxHeight
    BY <2>7
  <2>. QED
    BY <2>3, <2>4, <2>5, <2>6, <2>8 DEF Types
<1>2. PhaseOK
  BY Heights DEF PhaseOK
<1>3. \A k \in Keys : hist[committed][k] = NoPos /\ bt[k] = NoPos
  BY Heights DEF Latest
<1>4. BatchOK
  BY <1>3, RecIn DEF BatchOK, BatchSays, NoBatch
<1>5. LatestOK
  <2>1. \A k \in Keys : \A g \in 1..Max64 : db[<<k, g>>] = NoRec
    BY RecIn
  <2>2. Max64 \in 1..Max64 /\ \A g \in committed + 1 .. Max64 - 1 : g \in 1..Max64
    BY Heights
  <2>. QED
    BY <1>3, <2>1, <2>2 DEF LatestOK, LatestRec
<1>6. HistoryOK
  <2>1. 0..committed = {committed}
    OBVIOUS
  <2>. QED
    BY <1>1, <1>2, <1>5, <2>1, LatestAnswers DEF HistoryOK
<1>. QED
  BY <1>1, <1>2, <1>4, <1>5, <1>6 DEF Inv

LEMMA BeginWriteInv == ASSUME Inv, BeginWrite PROVE Inv'
<1>. USE DEF BeginWrite, Running
<1>1. Types /\ PhaseOK
  BY DEF Inv
<1>2. Types'
  BY <1>1, HeightFacts, Heights DEF Types
<1>3. PhaseOK'
  BY <1>1, HeightFacts DEF PhaseOK
<1>4. BatchOK'
  <2>1. \A k \in Keys : bt[k] = hist[committed][k]
    BY <1>1 DEF PhaseOK
  <2>2. currHeight # committed + 1
    BY <1>1, HeightFacts
  <2>. QED
    BY <2>1, <2>2 DEF Inv, BatchOK, BatchSays
<1>5. (LatestOK /\ HistoryOK)'
  BY DEF Inv, LatestOK, HistoryOK, Answers, FirstAfter
<1>. QED
  BY <1>2, <1>3, <1>4, <1>5 DEF Inv

\* A change of a key that the block has not changed: its old position is the one
\* of the last committed block.
LEMMA ChangeInv ==
    ASSUME Inv, NEW k \in Keys, NEW v \in Positions \cup {NoPos}, Change(k),
           bt' = [bt EXCEPT ![k] = v],
           batch' = [batch EXCEPT ![<<k, currHeight>>] = bt[k], ![<<k, Max64>>] = LatestRec(v)]
    PROVE  Inv'
<1>. USE DEF Change, Running
<1>1. Types /\ PhaseOK
  BY DEF Inv
<1>2. /\ currHeight = committed + 1 /\ currHeight \in 1..Max64 /\ currHeight # Max64
      /\ Max64 \in 1..Max64
  BY <1>1, HeightFacts, Heights DEF PhaseOK
<1>3. <<k, currHeight>> \in Recs /\ <<k, Max64>> \in Recs
  BY <1>2, RecIn
<1>4. LatestRec(v) \in Positions \cup {NoRec} /\ bt[k] \in Positions \cup {NoPos}
  BY <1>1, LatestRecType DEF Types
<1>5. batch' \in [Recs -> Positions \cup {NoPos, NoRec, NoChange}]
  BY <1>1, <1>3, <1>4 DEF Types
<1>6. Types'
  BY <1>1, <1>5 DEF Types
<1>7. PhaseOK'
  BY <1>1 DEF PhaseOK
<1>8. ASSUME NEW j \in Keys, NEW g \in 1..Max64
      PROVE  batch'[<<j, g>>] = IF j = k /\ g = Max64 THEN LatestRec(v)
                                ELSE IF j = k /\ g = currHeight THEN bt[k] ELSE batch[<<j, g>>]
  <2>1. <<j, g>> \in Recs
    BY RecIn
  <2>2. <<j, g>> = <<k, Max64>> <=> j = k /\ g = Max64
    OBVIOUS
  <2>3. <<j, g>> = <<k, currHeight>> <=> j = k /\ g = currHeight
    OBVIOUS
  <2>. QED
    BY <1>1, <1>3, <2>1, <2>2, <2>3 DEF Types
<1>9. ASSUME NEW j \in Keys PROVE BatchSays(j)'
  <2>1. BatchSays(j)
    BY DEF Inv, BatchOK
  <2>2. CASE j = k
    <3>1. bt[k] = hist[committed][k] /\ \A g \in 1..Max64 : batch[<<k, g>>] = NoChange
      BY <2>1, <2>2 DEF BatchSays
    <3>2. bt'[k] = v
      BY <1>1 DEF Types
    <3>3. \A g \in 1..Max64 : batch'[<<k, g>>] =
             IF g = currHeight THEN hist[committed][k] ELSE IF g = Max64 THEN LatestRec(v) ELSE NoChange
      <4>1. ASSUME NEW g \in 1..Max64
            PROVE  batch'[<<k, g>>] = IF g = Max64 THEN LatestRec(v)
                                      ELSE IF g = currHeight THEN bt[k] ELSE NoChange
        <5>1. batch[<<k, g>>] = NoChange
          BY <3>1
        <5>2. batch'[<<k, g>>] = IF k = k /\ g = Max64 THEN LatestRec(v)
                                 ELSE IF k = k /\ g = currHeight THEN bt[k] ELSE batch[<<k, g>>]
          BY <1>8
        <5>. QED
          BY <5>1, <5>2
      <4>. QED
        BY <1>2, <3>1, <4>1
    <3>4. k \in changed' /\ LatestRec(bt[k])' = LatestRec(v)
      BY <3>2 DEF LatestRec
    <3>. QED
      BY <1>2, <2>2, <3>3, <3>4 DEF BatchSays
  <2>3. CASE j # k
    <3>1. bt'[j] = bt[j] /\ \A g \in 1..Max64 : batch'[<<j, g>>] = batch[<<j, g>>]
      BY <1>1, <1>8, <2>3 DEF Types
    <3>2. j \in changed' <=> j \in changed
      BY <2>3
    <3>. QED
      BY <2>1, <3>1, <3>2 DEF BatchSays
  <2>. QED
    BY <2>2, <2>3
<1>10. BatchOK'
  BY <1>9 DEF BatchOK
<1>11. (LatestOK /\ HistoryOK)'
  BY DEF Inv, LatestOK, HistoryOK, Answers, FirstAfter
<1>. QED
  BY <1>6, <1>7, <1>10, <1>11 DEF Inv

LEMMA SetInv == ASSUME Inv, NEW k \in Keys, NEW v \in Positions, Set(k, v) PROVE Inv'
<1>1. LatestRec(v) = v
  BY IndexAssumption DEF LatestRec
<1>. QED
  BY <1>1, ChangeInv DEF Set

LEMMA DeleteInv == ASSUME Inv, NEW k \in Keys, Delete(k) PROVE Inv'
<1>1. LatestRec(NoPos) = NoRec
  BY DEF LatestRec
<1>. QED
  BY <1>1, ChangeInv DEF Delete

LEMMA EndWriteInv == ASSUME Inv, EndWrite PROVE Inv'
<1>. USE DEF EndWrite, Running
<1>1. Types /\ PhaseOK
  BY DEF Inv
<1>2. currHeight = committed + 1 /\ currHeight \in 0..MaxHeight /\ committed \in Nat /\ committed \in 0..MaxHeight
  BY <1>1, HeightFacts DEF PhaseOK
<1>3. Types'
  BY <1>1, <1>2 DEF Types
<1>4. /\ hist'[currHeight] = bt
      /\ \A h \in 0..committed : h \in 0..MaxHeight /\ hist'[h] = hist[h]
  BY <1>1, <1>2, Heights DEF Types
<1>5. PhaseOK'
  BY <1>1, <1>4 DEF PhaseOK
<1>6. hist'[committed] = hist[committed]
  BY <1>2, <1>4
<1>7. (BatchOK /\ LatestOK)'
  BY <1>6 DEF Inv, BatchOK, BatchSays, LatestOK
<1>8. HistoryOK'
  BY <1>4 DEF Inv, HistoryOK, Answers, FirstAfter
<1>. QED
  BY <1>3, <1>5, <1>7, <1>8 DEF Inv

\* The batch files the expired position of every changed key under the height of
\* the block: the answers for earlier heights that came from the latest record
\* now come from there.
LEMMA CloseOldBatchInv == ASSUME Inv, CloseOldBatch PROVE Inv'
<1>. USE DEF CloseOldBatch, Running
<1>1. Types /\ PhaseOK /\ LatestOK
  BY DEF Inv
<1>2. /\ currHeight = committed + 1 /\ committed \in Nat /\ currHeight <= MaxHeight /\ committed <= MaxHeight
      /\ currHeight \in 0..MaxHeight /\ bt = hist[currHeight]
      /\ committed' = currHeight /\ hist' = hist
  BY <1>1, HeightFacts DEF PhaseOK
<1>3. \A j \in Keys : hist[committed][j] \in Positions \cup {NoPos} /\ bt[j] \in Positions \cup {NoPos}
  BY <1>1, HeightFacts DEF Types
<1>4. Types'
  <2>1. db' \in [Recs -> Positions \cup {NoPos, NoRec}]
    BY <1>1 DEF Types
  <2>2. batch' \in [Recs -> Positions \cup {NoPos, NoRec, NoChange}]
    BY DEF NoBatch
  <2>. QED
    BY <1>1, <1>2, <2>1, <2>2, Heights DEF Types
<1>5. PhaseOK'
  BY <1>1, <1>2 DEF PhaseOK
<1>6. BatchOK'
  <2>1. ~(currHeight' = committed' + 1)
    BY <1>2
  <2>2. \A k \in Keys, g \in 1..Max64 : batch'[<<k, g>>] = NoChange
    BY RecIn DEF NoBatch
  <2>. QED
    BY <1>2, <2>1, <2>2 DEF BatchOK, BatchSays
<1>7. ASSUME NEW k \in Keys, NEW g \in 1..Max64
      PROVE  db'[<<k, g>>] = IF k \in changed /\ g = currHeight THEN hist[committed][k]
                             ELSE IF g = Max64 THEN LatestRec(bt[k]) ELSE db[<<k, g>>]
  <2>1. BatchSays(k) /\ <<k, g>> \in Recs
    BY RecIn DEF Inv, BatchOK
  <2>2. db'[<<k, g>>] = IF batch[<<k, g>>] = NoChange THEN db[<<k, g>>] ELSE batch[<<k, g>>]
    BY <2>1
  <2>3. CASE k \in changed
    <3>1. batch[<<k, g>>] = IF g = currHeight THEN hist[committed][k]
                            ELSE IF g = Max64 THEN LatestRec(bt[k]) ELSE NoChange
      BY <1>2, <2>1, <2>3 DEF BatchSays
    <3>2. hist[committed][k] # NoChange /\ LatestRec(bt[k]) # NoChange
      BY <1>3, LatestRecType
    <3>. QED
      BY <2>2, <2>3, <3>1, <3>2
  <2>4. CASE k \notin changed
    <3>1. bt[k] = hist[committed][k] /\ batch[<<k, g>>] = NoChange
      BY <2>1, <2>4 DEF BatchSays
    <3>2. db[<<k, Max64>>] = LatestRec(bt[k])
      BY <1>1, <3>1 DEF LatestOK
    <3>. QED
      BY <2>2, <2>4, <3>1, <3>2
  <2>. QED
    BY <2>3, <2>4
<1>8. LatestOK'
  <2>1. Max64 \in 1..Max64 /\ Max64 # currHeight
    BY <1>2, Heights
  <2>2. \A k \in Keys : db'[<<k, Max64>>] = LatestRec(hist'[committed'][k])
    BY <1>2, <1>7, <2>1
  <2>3. \A g \in committed' + 1 .. Max64 - 1 :
           g \in 1..Max64 /\ g # Max64 /\ g # currHeight /\ g \in committed + 1 .. Max64 - 1
    BY <1>2, Heights
  <2>4. \A k \in Keys : \A g \in committed' + 1 .. Max64 - 1 : db'[<<k, g>>] = NoRec
    <3>1. ASSUME NEW k \in Keys, NEW g \in committed' + 1 .. Max64 - 1 PROVE db'[<<k, g>>] = NoRec
      <4>1. db[<<k, g>>] = NoRec
        BY <1>1, <2>3 DEF LatestOK
      <4>2. g \in 1..Max64 /\ g # Max64 /\ g # currHeight
        BY <2>3
      <4>. QED
        BY <1>7, <4>1, <4>2
    <3>. QED
      BY <3>1
  <2>. QED
    BY <2>2, <2>4 DEF LatestOK
<1>9. ASSUME NEW k \in Keys, NEW h \in 0..committed, h > everPruned PROVE Answers(k, h)'
  <2>1. Answers(k, h) /\ h \in 0..MaxHeight /\ h \in Nat /\ h < currHeight
    <3>1. Answers(k, h)
      BY <1>9, Zenon DEF Inv, HistoryOK
    <3>2. h \in 0..MaxHeight /\ h \in Nat /\ h < currHeight
      BY <1>2, Heights
    <3>. QED
      BY <3>1, <3>2
  <2>2. \A g \in h + 1 .. Max64 : g \in 1..Max64
    BY <2>1, Heights
  <2>3. \A g \in currHeight .. Max64 - 1 : db[<<k, g>>] = NoRec
    BY <1>1, <1>2 DEF LatestOK
  <2>4. CASE k \notin changed
    <3>1. LatestRec(bt[k]) = db[<<k, Max64>>]
      <4>1. BatchSays(k)
        BY DEF Inv, BatchOK
      <4>2. bt[k] = hist[committed][k]
        BY <2>4, <4>1 DEF BatchSays
      <4>. QED
        BY <1>1, <4>2 DEF LatestOK
    <3>2. \A g \in h + 1 .. Max64 : db'[<<k, g>>] = db[<<k, g>>]
      BY <1>7, <2>2, <2>4, <3>1
    <3>. QED
      BY <1>2, <2>1, <3>2, SameAnswers
  <2>5. CASE k \in changed
    <3>1. /\ currHeight \in h + 1 .. Max64 /\ db'[<<k, currHeight>>] = hist[committed][k]
          /\ db'[<<k, currHeight>>] # NoRec
      <4>1. currHeight \in h + 1 .. Max64
        BY <1>2, <2>1, Heights
      <4>. QED
        BY <1>3, <1>7, <2>2, <2>5, <4>1, LatestRecType
    <3>2. \A i \in h + 1 .. currHeight - 1 : db'[<<k, i>>] = db[<<k, i>>]
      <4>1. \A i \in h + 1 .. currHeight - 1 : i \in 1..Max64 /\ i # currHeight /\ i # Max64
        BY <1>2, <2>1, Heights
      <4>. QED
        BY <1>7, <4>1
    <3>3. ASSUME \A i \in h + 1 .. currHeight - 1 : db[<<k, i>>] = NoRec,
                 hist[committed][k] = hist[h][k]
          PROVE  Answers(k, h)'
      <4>1. FirstAfter(k, h, currHeight)' /\ db'[<<k, currHeight>>] = hist'[h][k]
        BY <1>2, <3>1, <3>2, <3>3 DEF FirstAfter
      <4>. QED
        BY <3>1, <4>1 DEF Answers
    <3>4. CASE hist[h][k] = NoPos /\ \A g \in h + 1 .. Max64 : db[<<k, g>>] = NoRec
      <4>1. Max64 \in h + 1 .. Max64 /\ \A i \in h + 1 .. currHeight - 1 : i \in h + 1 .. Max64
        BY <1>2, <2>1, Heights
      <4>2. LatestRec(hist[committed][k]) = NoRec
        BY <1>1, <3>4, <4>1 DEF LatestOK
      <4>3. hist[committed][k] = NoPos
        BY <1>3, <4>2, LatestRecType
      <4>. QED
        BY <3>3, <3>4, <4>1, <4>3
    <3>5. ASSUME NEW g \in h + 1 .. Max64, FirstAfter(k, h, g), db[<<k, g>>] = hist[h][k]
          PROVE  Answers(k, h)'
      <4>1. g \in Int /\ g \notin currHeight .. Max64 - 1
        BY <2>1, <2>3, <3>5, Heights DEF FirstAfter
      <4>2. CASE g < currHeight
        <5>1. \A i \in h + 1 .. g : i \in h + 1 .. currHeight - 1
          BY <1>2, <2>1, <4>1, <4>2
        <5>2. g \in h + 1 .. g /\ \A i \in h + 1 .. g - 1 : i \in h + 1 .. g
          BY <2>1, <4>1
        <5>3. FirstAfter(k, h, g)' /\ db'[<<k, g>>] = hist'[h][k]
          BY <1>2, <3>2, <3>5, <5>1, <5>2 DEF FirstAfter
        <5>. QED
          BY <5>3 DEF Answers
      <4>3. CASE g = Max64
        <5>1. \A i \in h + 1 .. currHeight - 1 : i \in h + 1 .. g - 1
          BY <1>2, <2>1, <4>3, Heights
        <5>2. hist[committed][k] = hist[h][k]
          BY <1>1, <1>3, <3>5, <4>3, LatestRecType DEF LatestOK, FirstAfter
        <5>. QED
          BY <3>3, <3>5, <5>1, <5>2 DEF FirstAfter
      <4>. QED
        BY <1>2, <4>1, <4>2, <4>3, Heights
    <3>. QED
      BY <2>1, <3>4, <3>5 DEF Answers
  <2>. QED
    BY <2>4, <2>5
<1>10. HistoryOK'
  <2>1. \A h \in 0..committed' : h = committed' \/ h \in 0..committed
    BY <1>2
  <2>2. \A k \in Keys : Answers(k, committed)'
    <3>1. (Types /\ PhaseOK /\ LatestOK => \A k \in Keys : Answers(k, committed))'
      BY LatestAnswersAll, PTL
    <3>. QED
      BY <1>4, <1>5, <1>8, <3>1
  <2>3. everPruned' = everPruned
    OBVIOUS
  <2>4. ASSUME NEW h \in 0..committed', NEW k \in Keys, h > everPruned' PROVE Answers(k, h)'
    <3>1. CASE h = committed'
      BY <2>2, <3>1 DEF Answers, FirstAfter
    <3>2. CASE h \in 0..committed
      BY <1>9, <2>3, <2>4, <3>2
    <3>. QED
      BY <2>1, <3>1, <3>2
  <2>. QED
    BY <2>4 DEF HistoryOK
<1>. QED
  BY <1>4, <1>5, <1>6, <1>8, <1>10 DEF Inv


LEMMA IteratorInv == ASSUME Inv, OpenIterator \/ CloseIterator PROVE Inv'
<1>. USE DEF OpenIterator, CloseIterator, Running
<1>1. Types'
  <2>1. iters' \in 0..MaxIters /\ (isWriting => iters' = 0)
    BY IndexAssumption DEF Inv, Types
  <2>. QED
    BY <2>1 DEF Inv, Types
<1>2. (PhaseOK /\ BatchOK)'
  BY DEF Inv, PhaseOK, BatchOK, BatchSays
<1>3. (LatestOK /\ HistoryOK)'
  BY DEF Inv, LatestOK, HistoryOK, Answers, FirstAfter
<1>. QED
  BY <1>1, <1>2, <1>3 DEF Inv

LEMMA SetPruneHeightInv ==
    ASSUME Inv, NEW h \in 0..committed, SetPruneHeight(h) PROVE Inv'
<1>. USE DEF SetPruneHeight, Running
<1>1. Types /\ PhaseOK
  BY DEF Inv
<1>2. /\ h \in (-1)..MaxHeight /\ everPruned \in Int /\ pruneHeight \in Int
      /\ pruneHeight <= everPruned
  BY <1>1, HeightFacts, Heights DEF PhaseOK
<1>3. Types'
  BY <1>1, <1>2 DEF Types
<1>4. everPruned' \in Int /\ everPruned <= everPruned' /\ pruneHeight' <= everPruned'
  BY <1>2
<1>5. PhaseOK'
  BY <1>1, <1>4 DEF PhaseOK
<1>6. (BatchOK /\ LatestOK)'
  BY DEF Inv, BatchOK, BatchSays, LatestOK
<1>7. ASSUME NEW i \in 0..committed, NEW k \in Keys, i > everPruned' PROVE Answers(k, i)'
  <2>1. i > everPruned
    BY <1>2, <1>4, <1>7
  <2>2. Answers(k, i)
    BY <2>1, Zenon DEF Inv, HistoryOK
  <2>. QED
    BY <2>2 DEF Answers, FirstAfter
<1>8. HistoryOK'
  BY <1>7 DEF HistoryOK
<1>. QED
  BY <1>3, <1>5, <1>6, <1>8 DEF Inv

\* Compaction drops only what expired before a prune height: no answer above it
\* was there, and no record that has not expired.
LEMMA CompactionInv == ASSUME Inv, NEW r \in Recs, Compaction(r) PROVE Inv'
<1>. USE DEF Compaction, Filter, Running
<1>1. Types /\ PhaseOK /\ LatestOK
  BY DEF Inv
<1>2. PICK j \in Keys, e \in 1..Max64 : r = <<j, e>>
  BY DEF Recs
<1>3. /\ e < pruneHeight /\ pruneHeight <= everPruned /\ everPruned <= MaxHeight
      /\ e \in Int /\ pruneHeight \in Int /\ everPruned \in Int /\ e # Max64
  BY <1>1, <1>2, HeightFacts, Heights DEF PhaseOK
<1>4. Types'
  BY <1>1 DEF Types
<1>5. ASSUME NEW k \in Keys, NEW g \in 1..Max64
      PROVE  /\ g # e => db'[<<k, g>>] = db[<<k, g>>]
             /\ db'[<<k, g>>] \in {db[<<k, g>>], NoRec}
  BY <1>1, <1>2, RecIn DEF Types
<1>6. (PhaseOK /\ BatchOK)'
  BY DEF Inv, PhaseOK, BatchOK, BatchSays
<1>7. LatestOK'
  <2>1. committed \in Nat /\ Max64 \in 1..Max64 /\ \A g \in committed + 1 .. Max64 - 1 : g \in 1..Max64
    BY <1>1, HeightFacts, Heights
  <2>2. ASSUME NEW k \in Keys PROVE db'[<<k, Max64>>] = LatestRec(hist[committed][k])
    BY <1>1, <1>3, <1>5, <2>1 DEF LatestOK
  <2>3. ASSUME NEW k \in Keys, NEW g \in committed + 1 .. Max64 - 1 PROVE db'[<<k, g>>] = NoRec
    <3>1. db[<<k, g>>] = NoRec /\ g \in 1..Max64
      BY <1>1, <2>1 DEF LatestOK
    <3>. QED
      BY <1>5, <3>1
  <2>. QED
    BY <2>2, <2>3 DEF LatestOK, LatestRec
<1>8. ASSUME NEW h \in 0..committed, NEW k \in Keys, h > everPruned PROVE Answers(k, h)'
  <2>1. Answers(k, h)
    BY <1>8, Zenon DEF Inv, HistoryOK
  <2>2. h \in 0..MaxHeight
    BY <1>1, HeightFacts, Heights
  <2>3. \A g \in h + 1 .. Max64 : g \in 1..Max64 /\ g # e
    BY <1>3, <1>8, Heights
  <2>4. \A g \in h + 1 .. Max64 : db'[<<k, g>>] = db[<<k, g>>]
    BY <1>5, <2>3
  <2>. QED
    BY <2>1, <2>2, <2>4, SameAnswers
<1>9. HistoryOK'
  BY <1>8 DEF HistoryOK
<1>. QED
  BY <1>4, <1>6, <1>7, <1>9 DEF Inv

\* What a start finds in RocksDB is the last committed block.
LEMMA RebuildsLatest == ASSUME Inv PROVE Unexpired = hist[committed]
<1>1. Types /\ PhaseOK /\ LatestOK
  BY DEF Inv
<1>2. ASSUME NEW k \in Keys
      PROVE  (IF db[<<k, Max64>>] = NoRec THEN NoPos ELSE db[<<k, Max64>>]) = hist[committed][k]
  <2>1. db[<<k, Max64>>] = LatestRec(hist[committed][k])
    BY <1>1 DEF LatestOK
  <2>2. hist[committed][k] \in Positions \cup {NoPos}
    BY <1>1, HeightFacts
  <2>. QED
    BY <2>1, <2>2, LatestRecType
<1>3. hist[committed] \in [Keys -> Positions \cup {NoPos}]
  BY <1>1, HeightFacts DEF Types
<1>. QED
  BY <1>2, <1>3 DEF Unexpired

LEMMA RestartInv == ASSUME Inv, Restart PROVE Inv'
<1>. USE DEF Restart
<1>1. Types /\ PhaseOK
  BY DEF Inv
<1>2. /\ committed \in Nat /\ committed \in 0..MaxHeight /\ everPruned \in (-1)..MaxHeight
      /\ MaxHeight \in Nat
  BY <1>1, HeightFacts, Heights DEF Types
<1>3. \A h \in 0..committed : h \in 0..MaxHeight /\ hist'[h] = hist[h]
  BY <1>2
<1>4. /\ proc' \in {"running", "panicked", "hanging"} /\ (proc' = "panicked" <=> InitPanics)
      /\ bt' = (IF InitPanics THEN Latest ELSE hist[committed]) /\ hist'[committed] = hist[committed]
  BY <1>2, <1>3, RebuildsLatest DEF InitFromDB, InitHangs
<1>5. Types'
  <2>1. hist' \in [0..MaxHeight -> [Keys -> Positions \cup {NoPos}]]
    BY <1>1 DEF Types, Latest
  <2>2. batch' \in [Recs -> Positions \cup {NoPos, NoRec, NoChange}]
    BY DEF NoBatch
  <2>3. bt' \in [Keys -> Positions \cup {NoPos}]
    BY <1>1, <1>2, <1>4 DEF Types, Latest
  <2>. QED
    <3>0. MaxIters \in Nat
      BY IndexAssumption, Zenon
    <3>a. /\ isWriting' = FALSE /\ iters' = 0 /\ currHeight' = committed /\ committed' = committed
          /\ pruneHeight' = -1 /\ everPruned' = everPruned /\ changed' = {}
      OBVIOUS
    <3>b. iters' \in 0..MaxIters
      BY ONLY <3>0, <3>a
    <3>c. /\ currHeight' \in 0..MaxHeight /\ committed' \in 0..currHeight'
          /\ pruneHeight' \in (-1)..MaxHeight /\ everPruned' \in (-1)..MaxHeight
      BY ONLY <1>2, <3>a
    <3>1. /\ isWriting' \in BOOLEAN /\ iters' \in 0..MaxIters /\ (isWriting' => iters' = 0)
          /\ currHeight' \in 0..MaxHeight /\ committed' \in 0..currHeight'
          /\ pruneHeight' \in (-1)..MaxHeight /\ everPruned' \in (-1)..MaxHeight
          /\ changed' \subseteq Keys
      BY <3>a, <3>b, <3>c, Zenon
    <3>2. db' \in [Recs -> Positions \cup {NoPos, NoRec}]
      BY <1>1 DEF Types
    <3>3. host' \in {"OnvaKV", "test"}
      BY <1>1 DEF Types
    <3>. QED
      BY <1>4, <2>1, <2>2, <2>3, <3>1, <3>2, <3>3 DEF Types
<1>6. PhaseOK'
  BY <1>2, <1>4 DEF PhaseOK
<1>7. BatchOK'
  <2>1. \A k \in Keys, g \in 1..Max64 : batch'[<<k, g>>] = NoChange
    BY RecIn DEF NoBatch
  <2>. QED
    BY <1>4, <2>1 DEF BatchOK, BatchSays
<1>8. LatestOK'
  BY <1>4 DEF Inv, LatestOK
<1>9. ASSUME NEW h \in 0..committed, NEW k \in Keys, h > everPruned PROVE Answers(k, h)'
  <2>1. Answers(k, h)
    BY <1>9 DEF Inv, HistoryOK
  <2>2. hist'[h] = hist[h] /\ db' = db
    BY <1>3
  <2>. QED
    BY <2>1, <2>2 DEF Answers, FirstAfter
<1>10. HistoryOK'
  <2>1. committed' = committed /\ everPruned' = everPruned
    OBVIOUS
  <2>. QED
    BY <1>9, <2>1, Zenon DEF HistoryOK
<1>. QED
  BY <1>5, <1>6, <1>7, <1>8, <1>10 DEF Inv

-----------------------------------------------------------------------------
(* The theorems *)

LEMMA NextInv == Inv /\ [Next]_vars => Inv'
<1>. SUFFICES ASSUME Inv, [Next]_vars PROVE Inv'
  OBVIOUS
<1>1. CASE UNCHANGED vars
  <2>. USE <1>1 DEF vars
  <2>1. Types'
    BY DEF Inv, Types
  <2>2. (PhaseOK /\ BatchOK)'
    BY DEF Inv, PhaseOK, BatchOK, BatchSays
  <2>3. (LatestOK /\ HistoryOK)'
    BY DEF Inv, LatestOK, HistoryOK, Answers, FirstAfter
  <2>. QED
    BY <2>1, <2>2, <2>3 DEF Inv
<1>2. ASSUME NEW k \in Keys, Delete(k) \/ \E v \in PositionsAt(currHeight) : Set(k, v) PROVE Inv'
  <2>1. PositionsAt(currHeight) \subseteq Positions
    BY IndexAssumption DEF Inv, Types
  <2>. QED
    BY <1>2, <2>1, DeleteInv, SetInv
<1>. QED
  BY <1>1, <1>2, BeginWriteInv, EndWriteInv, CloseOldBatchInv, IteratorInv, RestartInv,
     SetPruneHeightInv, CompactionInv DEF Next

\* The records of every key describe its whole history above the prune height,
\* in every reachable state.
THEOREM Invariance == Spec => []Inv
<1>1. Init => Inv
  BY InitInv
<1>2. Inv /\ [Next]_vars => Inv'
  BY NextInv
<1>. QED
  BY <1>1, <1>2, PTL DEF Spec

\* Type correctness, and that no iterator is open in a write phase
\* (indextree.go: BeginWrite, Iterator, ReverseIterator).
THEOREM TypeCorrect == Spec => []TypeOK
<1>1. Inv => TypeOK
  BY TypesEquiv DEF Inv
<1>. QED
  BY <1>1, Invariance, PTL

\* The records that have not expired are the last committed block wherever a
\* crash comes, and an Init that comes to its last record, which that of a new
\* OnvaKV with history does not, makes the B-tree of them (indextree.go: Init).
THEOREM InitIsFaithful == Spec => []InitRebuildsLatest
<1>1. ASSUME Inv PROVE InitRebuildsLatest
  <2>1. Unexpired = hist[committed]
    BY <1>1, RebuildsLatest
  <2>2. PhaseOK
    BY <1>1 DEF Inv
  <2>3. proc = "running" /\ ~isWriting => bt = hist[currHeight]
    BY <2>2 DEF PhaseOK
  <2>4. proc = "hanging" => bt = hist[committed]
    BY <2>2 DEF PhaseOK
  <2>. QED
    BY <2>1, <2>3, <2>4 DEF InitRebuildsLatest
<1>. QED
  BY <1>1, Invariance, PTL

\* A lookup above every prune height that can be answered is answered with the
\* position of that height, for every set of keys and every history of changes,
\* prunings, compactions and restarts (indextree.go: GetAtHeight).
THEOREM LookupsAreHistorical == Spec => []LookupsSeeHistory
<1>1. Inv => LookupsSeeHistory
  BY LookupAnswers DEF LookupsSeeHistory
<1>. QED
  BY <1>1, Invariance, PTL

=============================================================================
