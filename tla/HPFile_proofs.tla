---------------------------- MODULE HPFile_proofs ----------------------------
(***************************************************************************)
(* The head-prunable file, for every size of buffer, segment and window    *)
(* and all calls of Append that fit them: no byte that is kept is lost   *)
(* or misplaced, and the window read ahead never goes stale.               *)
(***************************************************************************)
EXTENDS HPFile, NaturalsInduction, SequenceTheorems, WellFoundedInduction, TLAPS

-----------------------------------------------------------------------------
(* Induction on numbers, without an operator as a parameter *)

LEMMA LeastNumber ==
    ASSUME NEW S \in SUBSET Nat, S # {}
    PROVE  \E m \in S : \A i \in S : m <= i
<1> DEFINE R == OpToRel(<, Nat)
<1>1. IsWellFoundedOn(R, Nat)
  BY NatLessThanWellFounded
<1>. HIDE DEF R
<1>2. PICK x \in S : \A y \in S : ~ (<<y, x>> \in R)
  BY <1>1, WFMin
<1>3. \A y \in S : ~ (y < x)
  BY <1>2, Zenon DEF OpToRel, R
<1>4. \A y \in S : x <= y
  BY <1>3
<1>. QED
  BY <1>4

\* A set that holds 0 and with every number the next one holds all of them.
LEMMA SetInduction ==
    ASSUME NEW n \in Nat, NEW S, 0 \in S, \A i \in 1..n : i - 1 \in S => i \in S
    PROVE  \A i \in 0..n : i \in S
<1> DEFINE B == {i \in 0..n : i \notin S}
<1>. SUFFICES ASSUME B # {} PROVE FALSE
  OBVIOUS
<1>1. PICK m \in B : \A i \in B : m <= i
  <2>1. B \in SUBSET Nat
    OBVIOUS
  <2>. HIDE DEF B
  <2>. QED
    BY <2>1, LeastNumber
<1>2. m \in 1..n /\ m - 1 \in 0..n /\ ~(m <= m - 1)
  BY <1>1
<1>3. m - 1 \in S
  BY <1>1, <1>2
<1>. QED
  BY <1>1, <1>2, <1>3

\* A function on 0..n can be defined from its value at 0, each value from the one before.
IsRecursion(g, n, S, base, F) ==
    g \in [0..n -> S] /\ g[0] = base /\ \A i \in 1..n : g[i] = F[<<g[i - 1], i>>]

LEMMA RecursionExists ==
    ASSUME NEW n, n \in Nat, NEW S, NEW base, base \in S, NEW F, F \in [S \X (1..n) -> S]
    PROVE  \E g : IsRecursion(g, n, S, base, F)
<1> DEFINE Good(m, g) == g[0] = base /\ \A i \in 1..m : g[i] = F[<<g[i - 1], i>>]
           T == {m \in 0..n : \E g \in [0..m -> S] : Good(m, g)}
<1>1. 0 \in T
  <2>1. [i \in 0..0 |-> base] \in [0..0 -> S] /\ Good(0, [i \in 0..0 |-> base])
    OBVIOUS
  <2>2. 0 \in 0..n
    OBVIOUS
  <2>. HIDE DEF Good
  <2>. QED
    BY <2>1, <2>2
<1>2. ASSUME NEW m \in 1..n, m - 1 \in T PROVE m \in T
  <2>1. PICK g \in [0..m - 1 -> S] : Good(m - 1, g)
    BY <1>2
  <2> DEFINE h == [i \in 0..m |-> IF i = m THEN F[<<g[m - 1], m>>] ELSE g[i]]
  <2>2. F[<<g[m - 1], m>>] \in S
    OBVIOUS
  <2>3. h \in [0..m -> S]
    BY <2>2
  <2>4. Good(m, h)
    <3>1. h[0] = base
      BY <2>1
    <3>2. ASSUME NEW i \in 1..m PROVE h[i] = F[<<h[i - 1], i>>]
      <4>1. h[i - 1] = g[i - 1]
        OBVIOUS
      <4>2. CASE i = m
        <5>1. h[m] = F[<<g[m - 1], m>>]
          OBVIOUS
        <5>. HIDE DEF h
        <5>. QED
          BY <4>1, <4>2, <5>1
      <4>3. CASE i # m
        <5>1. i \in 1..m - 1 /\ h[i] = g[i]
          BY <4>3
        <5>. QED
          BY <2>1, <4>1, <5>1
      <4>. QED
        BY <4>2, <4>3
    <3>. QED
      BY <3>1, <3>2
  <2>. HIDE DEF Good, h
  <2>. QED
    BY <2>3, <2>4
<1>. HIDE DEF T
<1>3. n \in T
  BY <1>1, <1>2, SetInduction
<1>. QED
  BY <1>3 DEF T, IsRecursion

-----------------------------------------------------------------------------
(* The sums of a call *)

LEMMA SumsDef ==
    ASSUME NEW lens \in Seq(Nat)
    PROVE  /\ Sums(lens) \in [0..Len(lens) -> Nat]
           /\ Sums(lens)[0] = 0
           /\ \A i \in 1..Len(lens) : Sums(lens)[i] = Sums(lens)[i - 1] + lens[i]
<1> DEFINE n == Len(lens)
           F == [p \in Nat \X (1..n) |-> p[1] + lens[p[2]]]
<1>1. n \in Nat
  BY LenProperties
<1>2. \A i \in 1..n : lens[i] \in Nat
  BY ElementOfSeq
<1>3. \A x \in Nat, i \in 1..n : F[<<x, i>>] = x + lens[i]
  OBVIOUS
<1>4. F \in [Nat \X (1..n) -> Nat]
  BY <1>2
<1>5. Sums(lens) = CHOOSE sum : sum = [i \in 0..n |-> IF i = 0 THEN 0 ELSE sum[i - 1] + lens[i]]
  BY DEF Sums
<1>. HIDE DEF F, n
<1>6. PICK g \in [0..n -> Nat] : g[0] = 0 /\ \A i \in 1..n : g[i] = F[<<g[i - 1], i>>]
  <2>1. 0 \in Nat
    OBVIOUS
  <2>2. \E g : IsRecursion(g, n, Nat, 0, F)
    BY ONLY <1>1, <1>4, <2>1, RecursionExists
  <2>. QED
    BY <2>2 DEF IsRecursion
<1>7. g = [i \in 0..n |-> IF i = 0 THEN 0 ELSE g[i - 1] + lens[i]]
  <2>1. ASSUME NEW i \in 1..n PROVE g[i] = g[i - 1] + lens[i]
    <3>1. i - 1 \in 0..n
      BY <1>1
    <3>2. g[i - 1] \in Nat
      BY <3>1
    <3>. QED
      BY <1>3, <1>6, <3>2
  <2>2. ASSUME NEW i \in 0..n PROVE g[i] = IF i = 0 THEN 0 ELSE g[i - 1] + lens[i]
    <3>1. i = 0 \/ i \in 1..n
      BY <1>1
    <3>2. 0 \notin 1..n
      BY <1>1
    <3>. QED
      BY <1>6, <2>1, <3>1, <3>2
  <2>. QED
    BY ONLY <2>2, g \in [0..n -> Nat]
<1> DEFINE h == CHOOSE sum : sum = [i \in 0..n |-> IF i = 0 THEN 0 ELSE sum[i - 1] + lens[i]]
<1>8. h = [i \in 0..n |-> IF i = 0 THEN 0 ELSE h[i - 1] + lens[i]]
  BY ONLY <1>7
<1>. HIDE DEF h
<1>9. \A i \in 0..n : h[i] = IF i = 0 THEN 0 ELSE h[i - 1] + lens[i]
  BY ONLY <1>8
<1>10. h[0] = 0 /\ \A i \in 1..n : h[i] = h[i - 1] + lens[i]
  BY ONLY <1>1, <1>9
<1>11. \A i \in 0..n : h[i] \in Nat
  <2> DEFINE T == {i \in 0..n : h[i] \in Nat}
  <2>1. 0 \in T
    BY ONLY <1>1, <1>10
  <2>2. ASSUME NEW i \in 1..n, i - 1 \in T PROVE i \in T
    <3>1. i \in 0..n /\ h[i] = h[i - 1] + lens[i] /\ h[i - 1] \in Nat /\ lens[i] \in Nat
      BY <1>1, <1>2, <1>10, <2>2
    <3>. QED
      BY ONLY <3>1
  <2>. HIDE DEF T
  <2>3. \A i \in 0..n : i \in T
    BY ONLY <1>1, <2>1, <2>2, SetInduction
  <2>. QED
    BY ONLY <2>3 DEF T
<1>12. h \in [0..n -> Nat]
  BY ONLY <1>8, <1>11
<1>. QED
  BY <1>5, <1>10, <1>12, Zenon DEF n, h

-----------------------------------------------------------------------------
(* Offsets *)

LEMMA Constants ==
    /\ BufferSize \in Nat \ {0} /\ BlockSize \in Nat \ {0} /\ PreReadBufSize \in Nat \ {0}
    /\ \A lens \in SliceLists :
          /\ lens \in Seq(Nat)
          /\ SumOf(lens) > 0 /\ SumOf(lens) <= BlockSize /\ SumOf(lens) <= BufferSize + 1
          /\ \A i \in 1..Len(lens) : lens[i] <= BufferSize
BY HPFileAssumption, Zenon

LEMMA Quotient ==
    ASSUME NEW B \in Nat \ {0}, NEW p \in Int, NEW q \in Int,
           NEW r \in 0..(B - 1), NEW t \in Nat, B * p + r <= B * q + t
    PROVE  t < B => p <= q
<1>. SUFFICES ASSUME t < B, q + 1 <= p PROVE FALSE
  OBVIOUS
<1>1. B * (p - (q + 1)) >= 0
  OBVIOUS
<1>2. B * (p - (q + 1)) = B * p - B * q - B
  OBVIOUS
<1>3. B * p \in Int /\ B * q \in Int
  OBVIOUS
<1>. QED
  BY <1>1, <1>2, <1>3

\* Every offset is the number of a segment and a position in it, in one way only, and the
\* numbers of the segments are ordered as the offsets are.
LEMMA Offsets ==
    ASSUME NEW off \in Nat
    PROVE  /\ FileID(off) \in Nat /\ Pos(off) \in 0..(BlockSize - 1)
           /\ off = BlockSize * FileID(off) + Pos(off)
<1>1. BlockSize \in Nat \ {0}
  BY Constants
<1>. QED
  BY ONLY <1>1, off \in Nat DEF FileID, Pos

LEMMA OffsetOf ==
    ASSUME NEW q \in Nat, NEW r \in 0..(BlockSize - 1)
    PROVE  /\ q * BlockSize + r \in Nat
           /\ FileID(q * BlockSize + r) = q /\ Pos(q * BlockSize + r) = r
<1> DEFINE off == q * BlockSize + r
           p == FileID(off)
           t == Pos(off)
<1>1. BlockSize \in Nat \ {0}
  BY Constants
<1>2. off \in Nat /\ off = BlockSize * q + r
  BY ONLY <1>1, q \in Nat, r \in 0..(BlockSize - 1)
<1>3. p \in Nat /\ t \in 0..(BlockSize - 1) /\ off = BlockSize * p + t
  BY <1>2, Offsets
<1>. HIDE DEF off, p, t
<1>4. p <= q
  BY ONLY <1>1, <1>2, <1>3, Quotient, q \in Nat, r \in 0..(BlockSize - 1)
<1>5. q <= p
  BY ONLY <1>1, <1>2, <1>3, Quotient, q \in Nat, r \in 0..(BlockSize - 1)
<1>6. p = q
  BY ONLY <1>3, <1>4, <1>5, q \in Nat
<1>7. t = r
  <2>1. BlockSize * q \in Int
    BY ONLY <1>1, q \in Nat
  <2>. QED
    BY ONLY <1>1, <1>2, <1>3, <1>6, <2>1, r \in 0..(BlockSize - 1)
<1>. QED
  BY <1>2, <1>6, <1>7 DEF off, p, t

LEMMA OffsetsOrdered ==
    ASSUME NEW a \in Nat, NEW b \in Nat, a <= b
    PROVE  FileID(a) <= FileID(b)
<1>1. BlockSize \in Nat \ {0}
  BY Constants
<1>2. /\ FileID(a) \in Nat /\ Pos(a) \in 0..(BlockSize - 1)
      /\ a = BlockSize * FileID(a) + Pos(a)
      /\ FileID(b) \in Nat /\ Pos(b) \in 0..(BlockSize - 1)
      /\ b = BlockSize * FileID(b) + Pos(b)
  BY Offsets
<1>. QED
  BY <1>1, <1>2, Quotient

-----------------------------------------------------------------------------
(* Writing *)

LEMMA SeqFacts ==
    ASSUME NEW s \in Seq(Nat), NEW t \in Seq(Nat)
    PROVE  /\ Len(s) \in Nat /\ s \o t \in Seq(Nat) /\ Len(s \o t) = Len(s) + Len(t)
           /\ \A i \in 1..Len(s) : (s \o t)[i] = s[i]
           /\ \A i \in 1..Len(t) : (s \o t)[Len(s) + i] = t[i]
<1>1. Len(s) \in Nat /\ Len(t) \in Nat
  BY LenProperties
<1>2. /\ s \o t \in Seq(Nat) /\ Len(s \o t) = Len(s) + Len(t)
      /\ \A i \in 1..(Len(s) + Len(t)) :
            (s \o t)[i] = IF i <= Len(s) THEN s[i] ELSE t[i - Len(s)]
  BY ConcatProperties
<1>3. ASSUME NEW i \in 1..Len(s) PROVE (s \o t)[i] = s[i]
  <2>1. i \in 1..(Len(s) + Len(t)) /\ i <= Len(s)
    BY <1>1
  <2>. QED
    BY <1>2, <2>1
<1>4. ASSUME NEW i \in 1..Len(t) PROVE (s \o t)[Len(s) + i] = t[i]
  <2>1. /\ Len(s) + i \in 1..(Len(s) + Len(t)) /\ ~(Len(s) + i <= Len(s))
        /\ (Len(s) + i) - Len(s) = i
    BY <1>1
  <2>. QED
    BY <1>2, <2>1
<1>. QED
  BY <1>1, <1>2, <1>3, <1>4

\* A sequence given by its elements.
LEMMA MakeSeq ==
    ASSUME NEW n \in Nat, NEW f \in [1..n -> Nat]
    PROVE  f \in Seq(Nat) /\ Len(f) = n
<1>1. f \in Seq(Nat)
  BY SeqDef
<1>2. Len(f) \in Nat /\ DOMAIN f = 1..Len(f)
  BY <1>1, LenProperties
<1>. QED
  BY <1>1, <1>2

\* A write at the end of a file appends.
LEMMA WriteAtEnd ==
    ASSUME NEW file \in Seq(Nat), NEW bytes \in Seq(Nat)
    PROVE  WriteAt(file, Len(file), bytes) = file \o bytes
<1> DEFINE w == WriteAt(file, Len(file), bytes)
           m == Len(file)
           k == Len(bytes)
<1>1. m \in Nat /\ k \in Nat
  BY LenProperties
<1>2. /\ \A i \in 1..m : file[i] \in Nat
      /\ \A i \in 1..k : bytes[i] \in Nat
  BY ElementOfSeq
<1>3. /\ file \o bytes \in Seq(Nat) /\ Len(file \o bytes) = m + k
      /\ \A i \in 1..m : (file \o bytes)[i] = file[i]
      /\ \A i \in 1..k : (file \o bytes)[m + i] = bytes[i]
  BY SeqFacts
<1>4. w = [i \in 1..(IF m + k > m THEN m + k ELSE m) |->
              IF i > m /\ i <= m + k THEN bytes[i - m] ELSE IF i <= m THEN file[i] ELSE 0]
  BY Zenon DEF WriteAt
<1>5. (IF m + k > m THEN m + k ELSE m) = m + k
  BY ONLY <1>1
<1>. HIDE DEF w, m, k
<1>6. w = [i \in 1..(m + k) |->
              IF i > m /\ i <= m + k THEN bytes[i - m] ELSE IF i <= m THEN file[i] ELSE 0]
  BY ONLY <1>4, <1>5, Zenon
<1>7. ASSUME NEW i \in 1..(m + k) PROVE w[i] = (file \o bytes)[i] /\ w[i] \in Nat
  <2>1. CASE i <= m
    <3>1. i \in 1..m /\ ~(i > m)
      BY ONLY <1>1, <2>1, i \in 1..(m + k)
    <3>2. w[i] = file[i]
      BY ONLY <1>6, <2>1, <3>1, i \in 1..(m + k)
    <3>. QED
      BY <1>2, <1>3, <3>1, <3>2, Zenon
  <2>2. CASE i > m
    <3>1. i - m \in 1..k /\ m + (i - m) = i /\ i <= m + k
      BY ONLY <1>1, <2>2, i \in 1..(m + k)
    <3>2. w[i] = bytes[i - m]
      BY ONLY <1>6, <2>2, <3>1, i \in 1..(m + k)
    <3>3. (file \o bytes)[m + (i - m)] = bytes[i - m]
      BY <1>3, <3>1, Zenon
    <3>. QED
      BY <1>2, <3>1, <3>2, <3>3, Zenon
  <2>3. i <= m \/ i > m
    BY ONLY <1>1, i \in 1..(m + k)
  <2>. QED
    BY <2>1, <2>2, <2>3, Zenon
<1>8. w \in [1..(m + k) -> Nat]
  BY ONLY <1>6, <1>7
<1>9. w \in Seq(Nat) /\ Len(w) = m + k
  BY <1>1, <1>8, MakeSeq
<1>10. w = file \o bytes
  BY <1>3, <1>7, <1>9, SeqEqual
<1>. QED
  BY <1>10 DEF w, m

\* The latest segment while Append works on it: the handle is at its end.
Segment == {st \in [file : Seq(Nat), off : Nat, buffer : Seq(Nat), size : Nat] :
                Len(st.buffer) <= BufferSize /\ st.off = Len(st.file)
                /\ st.size = st.off + Len(st.buffer)}
Bytes(st) == st.file \o st.buffer

LEMMA SegmentFields ==
    ASSUME NEW st \in Segment
    PROVE  /\ st.file \in Seq(Nat) /\ st.buffer \in Seq(Nat) /\ st.off \in Nat /\ st.size \in Nat
           /\ Len(st.file) \in Nat /\ Len(st.buffer) \in Nat
           /\ Len(st.buffer) <= BufferSize /\ st.off = Len(st.file)
           /\ st.size = Len(st.file) + Len(st.buffer)
           /\ st = [file |-> st.file, off |-> st.off, buffer |-> st.buffer, size |-> st.size]
<1>1. /\ st \in [file : Seq(Nat), off : Nat, buffer : Seq(Nat), size : Nat]
      /\ Len(st.buffer) <= BufferSize /\ st.off = Len(st.file)
      /\ st.size = st.off + Len(st.buffer)
  BY DEF Segment
<1>2. /\ st.file \in Seq(Nat) /\ st.buffer \in Seq(Nat) /\ st.off \in Nat /\ st.size \in Nat
      /\ st = [file |-> st.file, off |-> st.off, buffer |-> st.buffer, size |-> st.size]
  BY ONLY <1>1
<1>3. Len(st.file) \in Nat /\ Len(st.buffer) \in Nat
  BY <1>2, LenProperties
<1>. QED
  BY <1>1, <1>2, <1>3, Zenon

LEMMA MakeSegment ==
    ASSUME NEW file \in Seq(Nat), NEW buf \in Seq(Nat), NEW off, NEW size,
           Len(buf) <= BufferSize, off = Len(file), size = Len(file) + Len(buf)
    PROVE  [file |-> file, off |-> off, buffer |-> buf, size |-> size] \in Segment
<1>1. Len(file) \in Nat /\ Len(buf) \in Nat
  BY LenProperties
<1>2. off \in Nat /\ size \in Nat
  BY <1>1
<1>. QED
  BY <1>2 DEF Segment

LEMMA SegmentBytes ==
    ASSUME NEW st \in Segment
    PROVE  Bytes(st) \in Seq(Nat) /\ Len(Bytes(st)) = st.size
<1>1. /\ st.file \in Seq(Nat) /\ st.buffer \in Seq(Nat)
      /\ st.size = Len(st.file) + Len(st.buffer)
  BY SegmentFields
<1>2. /\ st.file \o st.buffer \in Seq(Nat)
      /\ Len(st.file \o st.buffer) = Len(st.file) + Len(st.buffer)
  BY <1>1, ConcatProperties
<1>. QED
  BY <1>1, <1>2, Zenon DEF Bytes

LEMMA FlushedProp ==
    ASSUME NEW file \in Seq(Nat), NEW buf \in Seq(Nat), NEW size
    PROVE  Flushed([file |-> file, off |-> Len(file), buffer |-> buf, size |-> size])
           = [file |-> file \o buf, off |-> Len(file) + Len(buf), buffer |-> <<>>, size |-> size]
<1> DEFINE st == [file |-> file, off |-> Len(file), buffer |-> buf, size |-> size]
<1>1. st.file = file /\ st.off = Len(file) /\ st.buffer = buf /\ st.size = size
  OBVIOUS
<1>2. WriteAt(st.file, st.off, st.buffer) = file \o buf
  BY <1>1, WriteAtEnd, Zenon
<1>3. Flushed(st) = [st EXCEPT !.file = file \o buf, !.off = @ + Len(buf), !.buffer = <<>>]
  BY <1>1, <1>2, Zenon DEF Flushed
<1>. QED
  BY <1>3

LEMMA Associative ==
    \A s, t, u \in Seq(Nat) : (s \o t) \o u = s \o (t \o u) /\ s \o t \in Seq(Nat)
BY ConcatAssociative, ConcatProperties

\* A slice is appended to the segment and its buffer, where the buffer is full in two parts.
LEMMA AppendSliceProp ==
    ASSUME NEW st \in Segment, NEW bytes \in Seq(Nat), Len(bytes) <= BufferSize
    PROVE  /\ AppendSlice(st, bytes) \in Segment
           /\ Bytes(AppendSlice(st, bytes)) = Bytes(st) \o bytes
           /\ Len(AppendSlice(st, bytes).file) >= Len(st.file)
<1> DEFINE file == st.file
           buf == st.buffer
           room == BufferSize - Len(buf)
           k == Len(bytes)
           pre == SubSeq(bytes, 1, room)
           suf == SubSeq(bytes, room + 1, k)
<1>1. BufferSize \in Nat
  BY Constants
<1>2. /\ file \in Seq(Nat) /\ buf \in Seq(Nat) /\ Len(file) \in Nat /\ Len(buf) \in Nat
      /\ Len(buf) <= BufferSize /\ st.off = Len(file) /\ st.size = Len(file) + Len(buf)
      /\ st = [file |-> file, off |-> Len(file), buffer |-> buf, size |-> st.size]
  BY SegmentFields
<1> DEFINE off0 == Len(file)
           size0 == st.size
<1>r. st = [file |-> file, off |-> off0, buffer |-> buf, size |-> size0]
  BY <1>2, Zenon
<1>3. k \in Nat /\ k <= BufferSize
  BY LenProperties
<1>4. room \in Nat
  BY ONLY <1>1, <1>2
<1>. HIDE DEF file, buf, room, k, off0, size0
<1>5. CASE k > room
  <2>1. /\ room \in 0..k /\ 1 \in 1..(k + 1) /\ room \in (1 - 1)..k /\ k \in room..k
        /\ k - (room + 1) + 1 = k - room /\ room + 1 <= k
    BY ONLY <1>3, <1>4, <1>5
  <2>2. \A i \in 1..k : bytes[i] \in Nat
    BY ElementOfSeq DEF k
  <2>3. pre \in Seq(Nat) /\ Len(pre) = room
    <3>1. \A i \in 1..room : bytes[i] \in Nat
      BY ONLY <1>3, <1>4, <1>5, <2>2
    <3>2. pre \in Seq(Nat) /\ Len(pre) = IF 1 <= room THEN room - 1 + 1 ELSE 0
      BY ONLY <1>4, <3>1, SubSeqProperties
    <3>. QED
      BY ONLY <1>4, <3>2
  <2>4. suf \in Seq(Nat) /\ Len(suf) = k - room
    <3>1. \A i \in (room + 1)..k : bytes[i] \in Nat
      BY ONLY <1>3, <1>4, <1>5, <2>2
    <3>2. suf \in Seq(Nat) /\ Len(suf) = IF room + 1 <= k THEN k - (room + 1) + 1 ELSE 0
      BY ONLY <1>3, <1>4, <3>1, SubSeqProperties
    <3>. QED
      BY ONLY <2>1, <3>2
  <2>5. pre \o suf = bytes
    <3>1. pre \o suf = SubSeq(bytes, 1, k)
      BY <2>1, ConcatAdjacentSubSeq DEF k
    <3>2. SubSeq(bytes, 1, k) = bytes
      BY SubSeqFull DEF k
    <3>. QED
      BY <3>1, <3>2
  <2>. HIDE DEF pre, suf
  <2> DEFINE full == [file |-> file, off |-> Len(file), buffer |-> buf \o pre, size |-> st.size]
             st2 == AppendSlice(st, bytes)
             off2 == Len(file) + Len(buf \o pre)
  <2>6. [st EXCEPT !.buffer = @ \o pre] = full
    <3>1. st.buffer = buf
      BY DEF buf
    <3> DEFINE x == buf \o pre
    <3>. HIDE DEF x
    <3>2. [st EXCEPT !.buffer = x] = [file |-> file, off |-> off0, buffer |-> x, size |-> size0]
      BY ONLY <1>r
    <3>. QED
      BY <3>1, <3>2, Zenon DEF x, off0, size0
  <2>7. st2 = [Flushed([st EXCEPT !.buffer = @ \o pre])
                 EXCEPT !.buffer = suf, !.size = @ + k]
    BY <1>5 DEF AppendSlice, pre, suf, room, buf, k
  <2>8. buf \o pre \in Seq(Nat) /\ Len(buf \o pre) = Len(buf) + room
    BY <1>2, <2>3, ConcatProperties
  <2>9. Flushed(full) = [file |-> file \o (buf \o pre), off |-> off2, buffer |-> <<>>,
                         size |-> st.size]
    BY <1>2, <2>8, FlushedProp
  <2>10. st2 = [file |-> file \o (buf \o pre), off |-> off2, buffer |-> suf,
                size |-> st.size + k]
    <3>1. st2 = [Flushed(full) EXCEPT !.buffer = suf, !.size = @ + k]
      BY <2>6, <2>7, Zenon
    <3>2. Flushed(full).size = st.size
      BY ONLY <2>9
    <3> DEFINE fl == Flushed(full)
               x == file \o (buf \o pre)
               y == size0 + k
               e == <<>>
    <3>3. fl = [file |-> x, off |-> off2, buffer |-> e, size |-> size0]
      BY <2>9, Zenon DEF size0
    <3>. HIDE DEF fl, x, y, e, st2, off2
    <3> DEFINE r == [fl EXCEPT !.buffer = suf, !.size = y]
    <3>4. r \in [file : {x}, off : {off2}, buffer : {suf}, size : {y}]
      BY ONLY <3>3
    <3>. HIDE DEF r
    <3>5. r = [file |-> x, off |-> off2, buffer |-> suf, size |-> y]
      BY ONLY <3>4
    <3>. QED
      BY <3>1, <3>2, <3>5, Zenon DEF r, fl, x, y, size0
  <2>11. file \o (buf \o pre) \in Seq(Nat) /\ Len(file \o (buf \o pre)) = off2
    BY <1>2, <2>8, ConcatProperties
  <2>12. /\ Len(suf) <= BufferSize /\ st.size + k = Len(file \o (buf \o pre)) + Len(suf)
    <3>1. off2 = Len(file) + (Len(buf) + room)
      BY <2>8, Zenon
    <3>2. Len(suf) <= BufferSize
      BY ONLY <1>1, <1>3, <1>4, <1>5, <2>4
    <3>3. (Len(file) + Len(buf)) + k = (Len(file) + (Len(buf) + room)) + (k - room)
      BY ONLY <1>2, <1>3, <1>4
    <3>. HIDE DEF off2
    <3>. QED
      BY <1>2, <2>4, <2>11, <3>1, <3>2, <3>3, Zenon
  <2>13. st2 \in Segment
    <3>1. [file |-> file \o (buf \o pre), off |-> off2, buffer |-> suf, size |-> st.size + k]
            \in Segment
      BY ONLY <2>4, <2>11, <2>12, MakeSegment
    <3>. QED
      BY <2>10, <3>1, Zenon
  <2>14. Bytes(st2) = (file \o buf) \o bytes
    <3>1. st2.file = file \o (buf \o pre) /\ st2.buffer = suf
      BY ONLY <2>10
    <3>2. /\ (file \o buf) \o pre = file \o (buf \o pre)
          /\ file \o buf \in Seq(Nat)
      <4>1. file \in Seq(Nat) /\ buf \in Seq(Nat) /\ pre \in Seq(Nat)
        BY <1>2, <2>3, Zenon
      <4>2. (file \o buf) \o pre = file \o (buf \o pre)
        BY <4>1, Associative
      <4>3. file \o buf \in Seq(Nat)
        BY <4>1, ConcatProperties
      <4>. QED
        BY <4>2, <4>3, Zenon
    <3>3. ((file \o buf) \o pre) \o suf = (file \o buf) \o (pre \o suf)
      BY <2>3, <2>4, <3>2, Associative
    <3>. QED
      BY <2>5, <3>1, <3>2, <3>3, Zenon DEF Bytes
  <2>15. Len(st2.file) >= Len(file)
    <3>1. st2.file = file \o (buf \o pre)
      BY ONLY <2>10
    <3>2. Len(st2.file) = Len(file) + (Len(buf) + room)
      BY <2>8, <2>11, <3>1, Zenon
    <3>. QED
      BY ONLY <1>2, <1>4, <3>2
  <2>. QED
    BY <2>13, <2>14, <2>15, Zenon DEF Bytes, file, buf
<1>6. CASE ~(k > room)
  <2> DEFINE st2 == AppendSlice(st, bytes)
  <2>1. st2 = [st EXCEPT !.buffer = @ \o bytes, !.size = @ + k]
    BY <1>6 DEF AppendSlice, room, buf, k
  <2>2. st2 = [file |-> file, off |-> Len(file), buffer |-> buf \o bytes, size |-> st.size + k]
    <3>1. st.buffer = buf
      BY DEF buf
    <3> DEFINE x == buf \o bytes
               y == size0 + k
    <3>. HIDE DEF x, y
    <3> DEFINE r == [st EXCEPT !.buffer = x, !.size = y]
    <3>2. r \in [file : {file}, off : {off0}, buffer : {x}, size : {y}]
      BY ONLY <1>r
    <3>. HIDE DEF r
    <3>3. r = [file |-> file, off |-> off0, buffer |-> x, size |-> y]
      BY ONLY <3>2
    <3>. QED
      BY <2>1, <3>1, <3>3, Zenon DEF r, x, y, off0, size0
  <2>3. buf \o bytes \in Seq(Nat) /\ Len(buf \o bytes) = Len(buf) + k
    BY <1>2, ConcatProperties DEF k
  <2>4. Len(buf \o bytes) <= BufferSize
    <3>1. Len(buf) + k <= BufferSize
      BY ONLY <1>1, <1>2, <1>3, <1>6 DEF room
    <3>. QED
      BY <2>3, <3>1, Zenon
  <2>5. st.size + k = Len(file) + Len(buf \o bytes)
    <3>1. (Len(file) + Len(buf)) + k = Len(file) + (Len(buf) + k)
      BY ONLY <1>2, <1>3
    <3>. QED
      BY <1>2, <2>3, <3>1, Zenon
  <2>6. st2 \in Segment
    <3>1. [file |-> file, off |-> Len(file), buffer |-> buf \o bytes, size |-> st.size + k]
            \in Segment
      BY ONLY <1>2, <2>3, <2>4, <2>5, MakeSegment
    <3>. QED
      BY <2>2, <3>1, Zenon
  <2>7. Bytes(st2) = (file \o buf) \o bytes
    <3>1. st2.file = file /\ st2.buffer = buf \o bytes
      BY ONLY <2>2
    <3>2. file \o (buf \o bytes) = (file \o buf) \o bytes
      BY <1>2, Associative
    <3>. QED
      BY <3>1, <3>2, Zenon DEF Bytes
  <2>8. Len(st2.file) >= Len(file)
    <3>1. st2.file = file
      BY ONLY <2>2
    <3>2. Len(file) >= Len(file)
      BY ONLY <1>2
    <3>. QED
      BY <3>1, <3>2, Zenon
  <2>. QED
    BY <2>6, <2>7, <2>8, Zenon DEF Bytes, file, buf
<1>. QED
  BY <1>5, <1>6, Zenon

\* The bytes of the i-th slice of a call: the numbers of the positions they are written at.
LEMMA SliceBytes ==
    ASSUME NEW lens \in Seq(Nat), Size \in Nat, NEW i \in 1..Len(lens)
    PROVE  /\ BytesOf(lens)[i] \in Seq(Nat) /\ Len(BytesOf(lens)[i]) = lens[i]
           /\ \A j \in 1..lens[i] : BytesOf(lens)[i][j] = Size + Sums(lens)[i - 1] + j
<1> DEFINE n == Len(lens)
           a == Size + Sums(lens)[i - 1]
           k == lens[i]
           b == [j \in 1..k |-> a + j]
<1>1. n \in Nat
  BY LenProperties
<1>2. k \in Nat
  BY ElementOfSeq
<1>3. Sums(lens) \in [0..n -> Nat]
  BY SumsDef
<1>i. i \in 1..n
  OBVIOUS
<1>. HIDE DEF n
<1>4. i - 1 \in 0..n
  BY ONLY <1>1, <1>i
<1>5. Sums(lens)[i - 1] \in Nat
  BY ONLY <1>3, <1>4
<1>6. a \in Nat
  BY ONLY <1>5, Size \in Nat
<1>7. BytesOf(lens)[i] = b
  BY DEF BytesOf
<1>. HIDE DEF a, k
<1>8. b \in [1..k -> Nat] /\ \A j \in 1..k : b[j] = a + j
  BY ONLY <1>2, <1>6
<1>. HIDE DEF b
<1>9. b \in Seq(Nat) /\ Len(b) = k
  BY <1>2, <1>8, MakeSeq
<1>. QED
  BY <1>7, <1>8, <1>9, Zenon DEF a, k

LEMMA LoopDef ==
    ASSUME NEW lens \in Seq(Nat), Size \in Nat, Latest \in Segment,
           \A i \in 1..Len(lens) : lens[i] <= BufferSize
    PROVE  LET st == AppendLoop(lens)
           IN  /\ st[0] = Latest
               /\ \A i \in 1..Len(lens) : st[i] = AppendSlice(st[i - 1], BytesOf(lens)[i])
<1> DEFINE n == Len(lens)
           bytes == BytesOf(lens)
           F == [p \in Segment \X (1..n) |-> AppendSlice(p[1], bytes[p[2]])]
           Rec(st) == [i \in 0..n |-> IF i = 0 THEN Latest ELSE AppendSlice(st[i - 1], bytes[i])]
           h == CHOOSE st : st = Rec(st)
<1>1. n \in Nat
  BY LenProperties
<1>2. \A i \in 1..n : bytes[i] \in Seq(Nat) /\ Len(bytes[i]) <= BufferSize
  BY SliceBytes
<1>3. \A x \in Segment, i \in 1..n : AppendSlice(x, bytes[i]) \in Segment
  BY <1>2, AppendSliceProp
<1>4. AppendLoop(lens) = h
  BY DEF AppendLoop
<1>. HIDE DEF n, bytes
<1>5. \A x \in Segment, i \in 1..n : F[<<x, i>>] = AppendSlice(x, bytes[i])
  OBVIOUS
<1>6. F \in [Segment \X (1..n) -> Segment]
  BY ONLY <1>3
<1>. HIDE DEF F
<1>7. PICK g : IsRecursion(g, n, Segment, Latest, F)
  BY ONLY <1>1, <1>6, Latest \in Segment, RecursionExists
<1>8. /\ g \in [0..n -> Segment] /\ g[0] = Latest
      /\ \A i \in 1..n : g[i] = F[<<g[i - 1], i>>]
  BY <1>7, Zenon DEF IsRecursion
<1>9. g = Rec(g)
  <2>1. ASSUME NEW i \in 1..n PROVE g[i] = AppendSlice(g[i - 1], bytes[i])
    <3>1. i - 1 \in 0..n
      BY ONLY <1>1, i \in 1..n
    <3>2. g[i - 1] \in Segment
      BY ONLY <1>8, <3>1
    <3>. QED
      BY <1>5, <1>8, <3>2, Zenon
  <2>2. ASSUME NEW i \in 0..n
        PROVE  g[i] = IF i = 0 THEN Latest ELSE AppendSlice(g[i - 1], bytes[i])
    <3>1. i = 0 \/ (i \in 1..n /\ i # 0)
      BY ONLY <1>1, i \in 0..n
    <3>. QED
      BY <1>8, <2>1, <3>1, Zenon
  <2>3. g \in [0..n -> Segment]
    BY <1>8, Zenon
  <2>. QED
    BY ONLY <2>2, <2>3
<1>10. h = Rec(h)
  <2>. HIDE DEF Rec
  <2>. QED
    BY ONLY <1>9, Zenon
<1>. HIDE DEF h
<1>11. \A i \in 0..n : h[i] = IF i = 0 THEN Latest ELSE AppendSlice(h[i - 1], bytes[i])
  BY ONLY <1>10
<1>12. 0 \in 0..n /\ \A i \in 1..n : i \in 0..n /\ i # 0
  BY ONLY <1>1
<1>13. h[0] = Latest /\ \A i \in 1..n : h[i] = AppendSlice(h[i - 1], bytes[i])
  BY <1>11, <1>12, Zenon
<1>. QED
  BY <1>4, <1>13, Zenon DEF n, bytes

\* What a call of Append makes of the latest segment: what was there, then the new bytes.
LEMMA LoopProp ==
    ASSUME NEW lens \in SliceLists, Size \in Nat, Latest \in Segment
    PROVE  LET st == AppendLoop(lens)[Len(lens)]
           IN  /\ st \in Segment /\ st.size = latestFileSize + SumOf(lens)
               /\ Len(st.file) >= Len(Latest.file)
               /\ \A i \in 1..latestFileSize : Bytes(st)[i] = Bytes(Latest)[i]
               /\ \A j \in 1..SumOf(lens) : Bytes(st)[latestFileSize + j] = Size + j
<1> DEFINE n == Len(lens)
           st == AppendLoop(lens)
           S == Sums(lens)
           bytes == BytesOf(lens)
           base == Bytes(Latest)
           b == latestFileSize
           len0 == Len(Latest.file)
           Good(i) == /\ st[i] \in Segment /\ Len(Bytes(st[i])) = b + S[i]
                      /\ Len(st[i].file) >= len0
                      /\ \A p \in 1..b : Bytes(st[i])[p] = base[p]
                      /\ \A j \in 1..S[i] : Bytes(st[i])[b + j] = Size + j
           T == {i \in 0..n : Good(i)}
<1>1. lens \in Seq(Nat) /\ \A i \in 1..Len(lens) : lens[i] <= BufferSize
  BY Constants, Zenon
<1>2. n \in Nat
  BY <1>1, LenProperties
<1>3. /\ S \in [0..n -> Nat] /\ S[0] = 0
      /\ \A i \in 1..n : S[i] = S[i - 1] + lens[i]
  BY <1>1, SumsDef
<1>4. st[0] = Latest /\ \A i \in 1..n : st[i] = AppendSlice(st[i - 1], bytes[i])
  BY <1>1, LoopDef
<1>5. \A i \in 1..n : /\ bytes[i] \in Seq(Nat) /\ Len(bytes[i]) = lens[i] /\ lens[i] \in Nat
                      /\ lens[i] <= BufferSize
                      /\ \A j \in 1..lens[i] : bytes[i][j] = Size + S[i - 1] + j
  BY <1>1, SliceBytes, ElementOfSeq
<1>6. Latest.size = b
  BY DEF Latest
<1>7. b \in Nat /\ base \in Seq(Nat) /\ Len(base) = b /\ len0 \in Nat
  BY <1>6, SegmentFields, SegmentBytes
<1>. HIDE DEF n, st, S, bytes, base, b, len0
<1>8. 0 \in T
  <2>1. 0 \in 0..n
    BY ONLY <1>2
  <2>2. Len(base) = b + S[0]
    BY ONLY <1>3, <1>7
  <2>3. ~ \E j : j \in 1..S[0]
    BY ONLY <1>3
  <2>. QED
    <3>1. len0 >= len0
      BY ONLY <1>7
    <3>. QED
      BY <1>4, <2>1, <2>2, <2>3, <3>1, Zenon DEF base, len0
<1>9. ASSUME NEW i \in 1..n, i - 1 \in T PROVE i \in T
  <2> DEFINE old == Bytes(st[i - 1])
             new == Bytes(st[i])
             m == S[i - 1]
             k == lens[i]
  <2>1. i \in 0..n /\ i - 1 \in 0..n
    BY ONLY <1>2, i \in 1..n
  <2>2. /\ st[i - 1] \in Segment /\ Len(old) = b + m
        /\ Len(st[i - 1].file) >= len0
        /\ \A p \in 1..b : old[p] = base[p]
        /\ \A j \in 1..m : old[b + j] = Size + j
    BY <1>9, Zenon
  <2>3. m \in Nat /\ k \in Nat /\ S[i] = m + k
    <3>1. m \in Nat
      BY ONLY <1>3, <2>1
    <3>2. k \in Nat
      BY <1>5, Zenon
    <3>3. S[i] = m + k
      BY <1>3, Zenon
    <3>. QED
      BY <3>1, <3>2, <3>3, Zenon
  <2>4. /\ bytes[i] \in Seq(Nat) /\ Len(bytes[i]) = k /\ k <= BufferSize
        /\ \A j \in 1..k : bytes[i][j] = Size + m + j
    BY <1>5, Zenon
  <2>5. /\ st[i] \in Segment /\ new = old \o bytes[i]
        /\ Len(st[i].file) >= Len(st[i - 1].file)
    <3>1. /\ AppendSlice(st[i - 1], bytes[i]) \in Segment
          /\ Bytes(AppendSlice(st[i - 1], bytes[i])) = old \o bytes[i]
          /\ Len(AppendSlice(st[i - 1], bytes[i]).file) >= Len(st[i - 1].file)
      BY <2>2, <2>4, AppendSliceProp
    <3>2. st[i] = AppendSlice(st[i - 1], bytes[i])
      BY <1>4, Zenon
    <3>. QED
      BY <3>1, <3>2, Zenon
  <2>6. old \in Seq(Nat)
    BY <2>2, SegmentBytes
  <2>. HIDE DEF old, new, m, k
  <2>7. /\ Len(new) = (b + m) + k
        /\ \A p \in 1..(b + m) : new[p] = old[p]
        /\ \A j \in 1..k : new[(b + m) + j] = bytes[i][j]
    <3>1. /\ Len(old \o bytes[i]) = Len(old) + Len(bytes[i])
          /\ \A p \in 1..Len(old) : (old \o bytes[i])[p] = old[p]
          /\ \A j \in 1..Len(bytes[i]) : (old \o bytes[i])[Len(old) + j] = bytes[i][j]
      BY <2>4, <2>6, SeqFacts
    <3>. QED
      BY <2>2, <2>4, <2>5, <3>1, Zenon
  <2>8. Len(new) = b + S[i]
    <3>1. (b + m) + k = b + (m + k)
      BY ONLY <1>7, <2>3
    <3>. QED
      BY <2>3, <2>7, <3>1, Zenon
  <2>9. ASSUME NEW p \in 1..b PROVE new[p] = base[p]
    <3>1. p \in 1..(b + m)
      BY ONLY <1>7, <2>3, p \in 1..b
    <3>. QED
      BY <2>2, <2>7, <3>1, Zenon
  <2>10. ASSUME NEW j \in 1..S[i] PROVE new[b + j] = Size + j
    <3>1. j \in 1..(m + k)
      BY <2>3, Zenon
    <3>2. CASE j \in 1..m
      <4>1. b + j \in 1..(b + m)
        BY ONLY <1>7, <2>3, <3>2
      <4>. QED
        BY <2>2, <2>7, <3>2, <4>1, Zenon
    <3>3. CASE j - m \in 1..k
      <4>1. (b + m) + (j - m) = b + j /\ Size + m + (j - m) = Size + j
        BY ONLY <1>7, <2>3, <3>1, Size \in Nat
      <4>2. new[(b + m) + (j - m)] = Size + m + (j - m)
        BY <2>4, <2>7, <3>3, Zenon
      <4>. QED
        BY <4>1, <4>2, Zenon
    <3>4. j \in 1..m \/ j - m \in 1..k
      BY ONLY <2>3, <3>1
    <3>. QED
      BY <3>2, <3>3, <3>4, Zenon
  <2>11. Len(st[i].file) >= len0
    <3>1. Len(st[i].file) \in Nat /\ Len(st[i - 1].file) \in Nat
      BY <2>2, <2>5, SegmentFields
    <3>. QED
      BY ONLY <1>7, <2>2, <2>5, <3>1
  <2>. QED
    BY <2>1, <2>5, <2>8, <2>9, <2>10, <2>11, Zenon DEF new
<1>. HIDE DEF T
<1>10. \A i \in 0..n : i \in T
  BY ONLY <1>2, <1>8, <1>9, SetInduction
<1>11. n \in T
  <2>1. n \in 0..n
    BY ONLY <1>2
  <2>. QED
    BY <1>10, <2>1, Zenon
<1>12. Good(n)
  BY <1>11, Zenon DEF T
<1>13. st[n].size = Len(Bytes(st[n]))
  BY <1>12, SegmentBytes
<1>. QED
  BY <1>12, <1>13, Zenon DEF n, st, S, b, base, len0, SumOf

-----------------------------------------------------------------------------
(* The inductive invariant *)

\* The bytes of a segment, with what is still in the buffer.
Seg(id) == IF id = largestID THEN files[id] \o buffer ELSE files[id]

Types ==
    /\ largestID \in Nat /\ latestFileSize \in Nat /\ writeOffset \in Nat
    /\ files \in [DOMAIN files -> Seq(Nat)] /\ DOMAIN files \subseteq 0..largestID
    /\ buffer \in Seq(Nat) /\ Len(buffer) <= BufferSize
    /\ locked \in BOOLEAN /\ readPanic \in BOOLEAN /\ truncated \in BOOLEAN
    /\ slices \subseteq [start : Nat, len : Nat \ {0}]
    /\ prunedTo \in Nat
    /\ preReader \in [fileID : Int, start : Nat, end : Nat, buf : Seq(Nat)]

\* No segment is missing behind the point of pruning, all but the latest one are full, and
\* the file handle is at the end of the latest one except between Truncate and Reopen.
SegmentsOK ==
    /\ prunedTo <= Size
    /\ FileID(prunedTo)..largestID \subseteq DOMAIN files
    /\ \A id \in DOMAIN files : id < largestID => Len(files[id]) >= BlockSize
    /\ latestFileSize < BlockSize
    /\ truncated => buffer = <<>> /\ latestFileSize = Len(files[largestID]) /\ writeOffset = 0
    /\ ~truncated => /\ writeOffset = Len(files[largestID])
                     /\ latestFileSize = writeOffset + Len(buffer)

\* The file begins, or a slice ends, at this position.
Adjoins(pos) == pos = 0 \/ \E t \in slices : t.start + t.len = pos

\* The slices lie one behind the other from the head of the file to its end.
SlicesOK ==
    /\ \A s \in slices : s.start + s.len <= Size /\ Adjoins(s.start)
    /\ \A s, t \in slices : s.start < t.start => s.start + s.len <= t.start
    /\ Adjoins(Size)

BytesOK(s) ==
    /\ FileID(s.start) \in DOMAIN files
    /\ Pos(s.start) + s.len <= Len(Seg(FileID(s.start)))
    /\ \A j \in 1..s.len : Seg(FileID(s.start))[Pos(s.start) + j] = s.start + j

ContentsOK == \A s \in Kept : BytesOK(s)

\* The window is never ahead of the latest segment, so it holds no byte of a slice that is
\* yet to come.
WindowOK ==
    /\ preReader.end = preReader.start + Len(preReader.buf)
    /\ ~truncated =>
          /\ preReader.fileID <= largestID
          /\ preReader.fileID = largestID => preReader.end <= Len(files[largestID])
    /\ WindowIsCurrent

Inv == Types /\ SegmentsOK /\ SlicesOK /\ ContentsOK /\ WindowOK

LEMMA InvFacts ==
    ASSUME Inv
    PROVE  /\ Size \in Nat /\ FileID(Size) = largestID /\ Pos(Size) = latestFileSize
           /\ largestID \in DOMAIN files /\ largestID \in Nat
           /\ files[largestID] \in Seq(Nat) /\ Len(files[largestID]) \in Nat
           /\ Len(buffer) \in Nat
           /\ Seg(largestID) = files[largestID] \o buffer /\ Seg(largestID) \in Seq(Nat)
           /\ Len(Seg(largestID)) = Len(files[largestID]) + Len(buffer)
           /\ Len(Seg(largestID)) = latestFileSize
           /\ BlockSize \in Nat \ {0} /\ latestFileSize \in 0..(BlockSize - 1)
<1>1. /\ largestID \in Nat /\ latestFileSize \in Nat /\ prunedTo \in Nat
      /\ files \in [DOMAIN files -> Seq(Nat)] /\ buffer \in Seq(Nat) /\ truncated \in BOOLEAN
  BY DEF Inv, Types
<1>2. /\ prunedTo <= Size /\ latestFileSize < BlockSize
      /\ FileID(prunedTo)..largestID \subseteq DOMAIN files
  BY DEF Inv, SegmentsOK
<1>3. BlockSize \in Nat \ {0}
  BY Constants, Zenon
<1>4. latestFileSize \in 0..(BlockSize - 1)
  BY ONLY <1>1, <1>2, <1>3
<1>5. Size \in Nat /\ FileID(Size) = largestID /\ Pos(Size) = latestFileSize
  BY <1>1, <1>4, OffsetOf DEF Size
<1>6. FileID(prunedTo) \in Nat /\ FileID(prunedTo) <= largestID
  BY <1>1, <1>2, <1>5, Offsets, OffsetsOrdered
<1>7. largestID \in DOMAIN files
  <2>1. largestID \in FileID(prunedTo)..largestID
    BY ONLY <1>1, <1>6
  <2>. QED
    BY <1>2, <2>1, Zenon
<1>8. files[largestID] \in Seq(Nat)
  BY ONLY <1>1, <1>7
<1>9. Len(files[largestID]) \in Nat /\ Len(buffer) \in Nat
  BY <1>1, <1>8, LenProperties
<1>10. /\ Seg(largestID) = files[largestID] \o buffer /\ Seg(largestID) \in Seq(Nat)
       /\ Len(Seg(largestID)) = Len(files[largestID]) + Len(buffer)
  BY <1>1, <1>8, ConcatProperties DEF Seg
<1>11. Len(files[largestID]) + Len(buffer) = latestFileSize
  <2>1. CASE truncated
    <3>1. buffer = <<>> /\ latestFileSize = Len(files[largestID])
      BY <2>1, Zenon DEF Inv, SegmentsOK
    <3>2. Len(buffer) = 0
      BY <3>1
    <3>. QED
      BY ONLY <1>9, <3>1, <3>2
  <2>2. CASE ~truncated
    BY <2>2, Zenon DEF Inv, SegmentsOK
  <2>. QED
    BY <2>1, <2>2, Zenon
<1>. QED
  BY <1>1, <1>3, <1>4, <1>5, <1>7, <1>8, <1>9, <1>10, <1>11, Zenon

\* A kept slice ends inside its segment, which is there.
LEMMA KeptFacts ==
    ASSUME Inv, NEW s \in slices
    PROVE  /\ s.start \in Nat /\ s.len \in Nat \ {0} /\ s.start + s.len \in Nat
           /\ FileID(s.start) \in 0..largestID /\ Pos(s.start) \in 0..(BlockSize - 1)
           /\ s.start + s.len <= Size
           /\ FileID(s.start) = largestID => Pos(s.start) + s.len <= latestFileSize
<1>1. s.start \in Nat /\ s.len \in Nat \ {0}
  <2>1. s \in [start : Nat, len : Nat \ {0}]
    BY DEF Inv, Types
  <2>. QED
    BY ONLY <2>1
<1>2. s.start + s.len <= Size
  BY Zenon DEF Inv, SlicesOK
<1>3. Size \in Nat /\ FileID(Size) = largestID /\ largestID \in Nat /\ latestFileSize \in Nat
  BY InvFacts
<1>4. /\ FileID(s.start) \in Nat /\ Pos(s.start) \in 0..(BlockSize - 1)
      /\ s.start = BlockSize * FileID(s.start) + Pos(s.start)
  BY <1>1, Offsets
<1>5. s.start <= Size
  BY ONLY <1>1, <1>2, <1>3
<1>6. FileID(s.start) <= largestID
  BY <1>1, <1>3, <1>5, OffsetsOrdered
<1>7. BlockSize \in Nat
  BY Constants
<1>8. ASSUME FileID(s.start) = largestID PROVE Pos(s.start) + s.len <= latestFileSize
  <2> DEFINE x == BlockSize * largestID
  <2>1. x \in Int /\ largestID * BlockSize = x
    BY ONLY <1>3, <1>7
  <2>2. s.start = x + Pos(s.start) /\ Size = x + latestFileSize
    BY <1>4, <1>8, <2>1, Zenon DEF Size
  <2>. HIDE DEF x
  <2>. QED
    BY ONLY <1>1, <1>2, <1>3, <1>4, <1>7, <2>1, <2>2
<1>. QED
  <2>1. FileID(s.start) \in 0..largestID /\ s.start + s.len \in Nat
    BY ONLY <1>1, <1>3, <1>4, <1>6
  <2>. QED
    BY <1>1, <1>2, <1>4, <1>8, <2>1, Zenon

LEMMA InvNothingLost ==
    ASSUME Inv
    PROVE  NothingLost
<1>1. TypeOK
  <2>1. ASSUME NEW id \in DOMAIN files PROVE id \in 0..largestID /\ files[id] \in Seq(Nat)
    BY DEF Inv, Types
  <2>2. largestID \in DOMAIN files /\ latestFileSize \in 0..(BlockSize - 1)
    BY InvFacts
  <2>3. /\ writeOffset \in Nat /\ buffer \in Seq(Nat) /\ Len(buffer) <= BufferSize
        /\ locked \in BOOLEAN /\ readPanic \in BOOLEAN /\ truncated \in BOOLEAN
    BY Zenon DEF Inv, Types
  <2>4. {locked, readPanic, truncated} \subseteq BOOLEAN
    BY ONLY <2>3, Zenon
  <2>. QED
    BY <2>1, <2>2, <2>3, <2>4, Zenon DEF TypeOK
<1>2. ASSUME NEW s \in Kept, NEW i \in 0..(s.len - 1)
      PROVE  LET id == FileID(s.start)
                 at == Pos(s.start) + i + 1
             IN  /\ id \in DOMAIN files
                 /\ \/ at <= Len(files[id]) /\ files[id][at] = s.start + i + 1
                    \/ /\ id = largestID
                       /\ at - Len(files[id]) \in DOMAIN buffer
                       /\ buffer[at - Len(files[id])] = s.start + i + 1
  <2> DEFINE id == FileID(s.start)
             pos == Pos(s.start)
             start == s.start
             len == s.len
             at == pos + i + 1
             m == Len(files[id])
  <2>1. start \in Nat /\ len \in Nat \ {0} /\ pos \in Nat
    <3>1. s \in slices
      BY DEF Kept
    <3>. QED
      BY <3>1, KeptFacts
  <2>2. /\ id \in DOMAIN files /\ pos + len <= Len(Seg(id))
        /\ \A j \in 1..len : Seg(id)[pos + j] = start + j
    BY Zenon DEF Inv, ContentsOK, BytesOK
  <2>a. files[id] \in Seq(Nat) /\ buffer \in Seq(Nat)
    BY <2>2 DEF Inv, Types
  <2>b. m \in Nat /\ Len(buffer) \in Nat
    BY <2>a, LenProperties
  <2>i. i \in 0..(len - 1)
    OBVIOUS
  <2>. HIDE DEF id, pos, start, len, at, m
  <2>3. /\ i + 1 \in 1..len /\ pos + (i + 1) = at /\ start + (i + 1) = start + i + 1
        /\ at \in Nat \ {0} /\ at <= pos + len
    BY ONLY <2>1, <2>i DEF at
  <2>4. Seg(id)[at] = start + i + 1
    BY <2>2, <2>3, Zenon
  <2>5. CASE id # largestID
    <3>1. Seg(id) = files[id]
      BY <2>5 DEF Seg
    <3>2. at <= Len(files[id])
      <4>1. pos + len <= m
        BY <2>2, <3>1, Zenon DEF m
      <4>2. at <= m
        BY ONLY <2>1, <2>3, <2>b, <4>1
      <4>. QED
        BY <4>2, Zenon DEF m
    <3>. QED
      BY <2>2, <2>4, <3>1, <3>2, Zenon DEF id, pos, start, len, at
  <2>6. CASE id = largestID
    <3>1. Seg(id) = files[id] \o buffer
      BY <2>6 DEF Seg
    <3>2. /\ Len(Seg(id)) = m + Len(buffer)
          /\ \A j \in 1..m : Seg(id)[j] = files[id][j]
          /\ \A j \in 1..Len(buffer) : Seg(id)[m + j] = buffer[j]
      BY <2>a, <3>1, SeqFacts DEF m
    <3>3. pos + len <= m + Len(buffer)
      BY <2>2, <3>2, Zenon
    <3>4. CASE at \in 1..m
      <4>1. at <= m
        BY ONLY <2>b, <3>4
      <4>. QED
        BY <2>2, <2>4, <3>2, <3>4, <4>1, Zenon DEF m, id, pos, start, len, at
    <3>5. CASE at - m \in 1..Len(buffer)
      <4>1. m + (at - m) = at
        BY ONLY <2>b, <2>3
      <4>2. buffer[at - m] = start + i + 1
        BY <2>4, <3>2, <3>5, <4>1, Zenon
      <4>3. DOMAIN buffer = 1..Len(buffer)
        BY <2>a, LenProperties
      <4>. QED
        BY <2>2, <2>6, <3>5, <4>2, <4>3, Zenon DEF m, id, pos, start, len, at
    <3>6. at \in 1..m \/ at - m \in 1..Len(buffer)
      BY ONLY <2>1, <2>3, <2>b, <3>3
    <3>. QED
      BY <3>4, <3>5, <3>6, Zenon
  <2>. QED
    BY <2>5, <2>6, Zenon
<1>3. \A s \in slices : s.start + s.len <= Size
  BY Zenon DEF Inv, SlicesOK
<1>4. ASSUME slices # {} PROVE \E s \in slices : s.start + s.len = Size
  <2>1. PICK s \in slices : TRUE
    BY <1>4
  <2>2. s.start \in Nat /\ s.len \in Nat \ {0} /\ s.start + s.len <= Size
    BY KeptFacts
  <2>3. Size \in Nat
    BY InvFacts
  <2>4. Size # 0
    BY ONLY <2>2, <2>3
  <2>. QED
    BY <2>4, Zenon DEF Inv, SlicesOK, Adjoins
<1>. QED
  BY <1>1, <1>2, <1>3, <1>4, Zenon DEF NothingLost

LEMMA InitInv == Init => Inv
<1>. SUFFICES ASSUME Init PROVE Inv
  OBVIOUS
<1>. USE DEF Init
<1>1. BlockSize \in Nat \ {0} /\ BufferSize \in Nat \ {0}
  BY Constants
<1>2. FileID(0) \in Nat
  BY Offsets
<1>3. Len(<<>>) = 0 /\ <<>> \in Seq(Nat) /\ Len(files[largestID]) = 0 /\ Len(buffer) = 0
  OBVIOUS
<1>4. Size = 0
  BY <1>1 DEF Size
<1>5. Types
  <2>1. files \in [DOMAIN files -> Seq(Nat)] /\ DOMAIN files \subseteq 0..largestID
    BY <1>3
  <2>2. preReader \in [fileID : Int, start : Nat, end : Nat, buf : Seq(Nat)]
    BY <1>3
  <2>3. buffer \in Seq(Nat) /\ Len(buffer) <= BufferSize
    BY <1>1, <1>3
  <2>. QED
    BY <2>1, <2>2, <2>3 DEF Types
<1>6. SegmentsOK
  <2>1. FileID(prunedTo)..largestID \subseteq DOMAIN files
    BY <1>2
  <2>2. \A id \in DOMAIN files : ~(id < largestID)
    OBVIOUS
  <2>3. latestFileSize < BlockSize /\ prunedTo <= Size
    BY <1>1, <1>4
  <2>4. writeOffset = Len(files[largestID]) /\ latestFileSize = writeOffset + Len(buffer)
    BY <1>3
  <2>. QED
    BY <2>1, <2>2, <2>3, <2>4, Zenon DEF SegmentsOK
<1>7. SlicesOK /\ ContentsOK /\ WindowIsCurrent
  BY <1>4 DEF SlicesOK, ContentsOK, WindowIsCurrent, Kept, Adjoins
<1>8. WindowOK
  <2>1. preReader.end = preReader.start + Len(preReader.buf)
    BY <1>3
  <2>2. preReader.fileID <= largestID /\ preReader.fileID # largestID
    OBVIOUS
  <2>. QED
    BY <1>7, <2>1, <2>2, Zenon DEF WindowOK
<1>. QED
  BY <1>5, <1>6, <1>7, <1>8, Zenon DEF Inv

-----------------------------------------------------------------------------
(* Flushing *)

LEMMA WriteNothing ==
    ASSUME NEW file \in Seq(Nat)
    PROVE  WriteAt(file, 0, <<>>) = file
<1> DEFINE w == WriteAt(file, 0, <<>>)
           m == Len(file)
           e == <<>>
           k == Len(e)
<1>1. m \in Nat /\ file \in [1..m -> Nat]
  BY LenProperties
<1>2. k = 0
  OBVIOUS
<1>3. w = [i \in 1..(IF 0 + k > m THEN 0 + k ELSE m) |->
              IF i > 0 /\ i <= 0 + k THEN e[i - 0] ELSE IF i <= m THEN file[i] ELSE 0]
  BY Zenon DEF WriteAt
<1>. HIDE DEF w, m, k, e
<1>4. w = [i \in 1..m |-> file[i]]
  BY ONLY <1>1, <1>2, <1>3
<1>5. w = file
  BY ONLY <1>1, <1>4
<1>. QED
  BY <1>5 DEF w

LEMMA LatestFlushed ==
    ASSUME Inv
    PROVE  Flushed(Latest) = [file |-> files[largestID] \o buffer,
                              off |-> writeOffset + Len(buffer),
                              buffer |-> <<>>, size |-> latestFileSize]
<1> DEFINE file == files[largestID]
<1>1. file \in Seq(Nat) /\ buffer \in Seq(Nat) /\ truncated \in BOOLEAN
  BY InvFacts, Zenon DEF Inv, Types
<1>2. Latest = [file |-> file, off |-> writeOffset, buffer |-> buffer, size |-> latestFileSize]
  BY Zenon DEF Latest
<1>3. CASE ~truncated
  <2>1. writeOffset = Len(file)
    BY <1>3, Zenon DEF Inv, SegmentsOK
  <2>2. Flushed([file |-> file, off |-> Len(file), buffer |-> buffer, size |-> latestFileSize])
        = [file |-> file \o buffer, off |-> Len(file) + Len(buffer), buffer |-> <<>>,
           size |-> latestFileSize]
    BY <1>1, FlushedProp
  <2>. QED
    BY <1>2, <2>1, <2>2, Zenon
<1>4. CASE truncated
  <2>1. buffer = <<>> /\ writeOffset = 0
    BY <1>4, Zenon DEF Inv, SegmentsOK
  <2>2. WriteAt(file, 0, <<>>) = file /\ file \o <<>> = file
    BY <1>1, WriteNothing, ConcatEmptySeq
  <2> DEFINE st == [file |-> file, off |-> writeOffset, buffer |-> buffer,
                    size |-> latestFileSize]
  <2>3. st.file = file /\ st.off = writeOffset /\ st.buffer = buffer
    OBVIOUS
  <2>4. Flushed(st) = [st EXCEPT !.file = file \o buffer, !.off = @ + Len(buffer), !.buffer = <<>>]
    BY <2>1, <2>2, <2>3, Zenon DEF Flushed
  <2>5. Flushed(st) = [file |-> file \o buffer, off |-> writeOffset + Len(buffer),
                       buffer |-> <<>>, size |-> latestFileSize]
    BY <2>4
  <2>. QED
    BY <1>2, <2>5, Zenon
<1>. QED
  BY <1>1, <1>3, <1>4, Zenon

\* Neither the slices nor what the segments hold depends on how much of it is in the buffer.
LEMMA SlicesFrame ==
    ASSUME Inv, UNCHANGED <<slices, largestID, latestFileSize>>
    PROVE  SlicesOK' /\ Size' = Size
BY DEF Inv, SlicesOK, Adjoins, Size

\* Writing the buffer to the segment, whoever does it.
LEMMA FlushInv ==
    ASSUME Inv, SameSegment(Flushed(Latest)), locked' \in BOOLEAN,
           UNCHANGED <<preReader, readPanic, truncated, slices, prunedTo>>
    PROVE  Inv'
<1> DEFINE file == files[largestID]
           file2 == file \o buffer
<1>1. /\ files' = [files EXCEPT ![largestID] = file2]
      /\ latestFileSize' = latestFileSize /\ writeOffset' = writeOffset + Len(buffer)
      /\ buffer' = <<>> /\ largestID' = largestID
  <2>1. Flushed(Latest) = [file |-> file2, off |-> writeOffset + Len(buffer),
                           buffer |-> <<>>, size |-> latestFileSize]
    BY LatestFlushed
  <2>2. /\ Flushed(Latest).file = file2 /\ Flushed(Latest).off = writeOffset + Len(buffer)
        /\ Flushed(Latest).buffer = <<>> /\ Flushed(Latest).size = latestFileSize
    BY ONLY <2>1
  <2>. QED
    BY <2>2, Zenon DEF SameSegment
<1>2. /\ file \in Seq(Nat) /\ file2 \in Seq(Nat) /\ Len(file2) = latestFileSize
      /\ largestID \in DOMAIN files /\ largestID \in Nat /\ Len(file) \in Nat
      /\ Len(buffer) \in Nat /\ Len(file2) = Len(file) + Len(buffer)
      /\ Seg(largestID) = file2
  BY InvFacts, Zenon
<1>3. /\ Types /\ SegmentsOK /\ ContentsOK /\ WindowOK
  BY DEF Inv
<1>4. Len(<<>>) = 0 /\ <<>> \in Seq(Nat)
  OBVIOUS
<1>5. /\ DOMAIN files' = DOMAIN files /\ files'[largestID] = file2
      /\ files' \in [DOMAIN files -> Seq(Nat)]
      /\ \A id \in DOMAIN files : id # largestID => files'[id] = files[id]
  <2>1. files \in [DOMAIN files -> Seq(Nat)]
    BY <1>3, Zenon DEF Types
  <2>2. file2 \in Seq(Nat) /\ largestID \in DOMAIN files
    BY <1>2, Zenon
  <2>. HIDE DEF file2, file
  <2>. QED
    BY ONLY <1>1, <2>1, <2>2
<1>. HIDE DEF file2, file
<1>6. Types'
  <2>1. files' \in [DOMAIN files' -> Seq(Nat)] /\ DOMAIN files' \subseteq 0..largestID'
    BY <1>1, <1>3, <1>5, Zenon DEF Types
  <2>2. BufferSize \in Nat
    BY Constants
  <2>3. buffer' \in Seq(Nat) /\ Len(buffer') = 0
    BY <1>1, <1>4, Zenon
  <2>4. Len(buffer') <= BufferSize
    BY ONLY <2>2, <2>3
  <2>5. writeOffset \in Nat
    BY <1>3, Zenon DEF Types
  <2>6. writeOffset' \in Nat
    BY ONLY <1>1, <1>2, <2>5
  <2>. QED
    BY <1>1, <1>3, <2>1, <2>3, <2>4, <2>6, Zenon DEF Types
<1>7. \A id \in DOMAIN files : Seg(id)' = Seg(id)
  <2>1. file2 \o <<>> = file2
    BY <1>2, ConcatEmptySeq
  <2>2. ASSUME NEW id \in DOMAIN files, id = largestID PROVE Seg(id)' = Seg(id)
    BY <1>1, <1>2, <1>5, <2>1, <2>2, Zenon DEF Seg
  <2>3. ASSUME NEW id \in DOMAIN files, id # largestID PROVE Seg(id)' = Seg(id)
    BY <1>1, <1>5, <2>3, Zenon DEF Seg
  <2>. QED
    BY <2>2, <2>3, Zenon
<1>8. SlicesOK' /\ Size' = Size /\ Kept' = Kept
  BY <1>1, SlicesFrame DEF Kept
<1>9. SegmentsOK'
  <2>1. /\ prunedTo' <= Size'
        /\ (FileID(prunedTo)..largestID \subseteq DOMAIN files)'
        /\ latestFileSize' < BlockSize
    BY <1>1, <1>3, <1>5, <1>8, Zenon DEF SegmentsOK
  <2>2. ASSUME NEW id \in DOMAIN files', id < largestID' PROVE Len(files'[id]) >= BlockSize
    <3>1. id \in DOMAIN files /\ id < largestID
      BY <1>1, <1>5, <2>2, Zenon
    <3>2. id # largestID
      BY ONLY <1>2, <3>1
    <3>3. files'[id] = files[id]
      BY <1>5, <3>1, <3>2, Zenon
    <3>. QED
      BY <1>3, <3>1, <3>3, Zenon DEF SegmentsOK
  <2>3. /\ buffer' = <<>> /\ latestFileSize' = Len(files'[largestID'])
    BY <1>1, <1>2, <1>5, Zenon
  <2>4. ASSUME truncated' PROVE writeOffset' = 0
    <3>1. buffer = <<>> /\ writeOffset = 0
      BY <1>3, <2>4, Zenon DEF SegmentsOK
    <3>2. Len(buffer) = 0
      BY <1>4, <3>1, Zenon
    <3>. QED
      BY ONLY <1>1, <3>1, <3>2
  <2>5. ASSUME ~truncated'
        PROVE  /\ writeOffset' = Len(files'[largestID'])
               /\ latestFileSize' = writeOffset' + Len(buffer')
    <3>1. writeOffset = Len(file)
      BY <1>3, <2>5, Zenon DEF SegmentsOK, file
    <3>2. writeOffset' = Len(file2)
      BY <1>1, <1>2, <3>1, Zenon
    <3>3. writeOffset' = latestFileSize /\ writeOffset' \in Nat
      BY <1>2, <1>6, <3>2, Zenon DEF Types
    <3>4. writeOffset' + 0 = writeOffset'
      BY ONLY <3>3
    <3>. QED
      BY <1>1, <1>4, <1>5, <3>2, <3>3, <3>4, Zenon
  <2>. QED
    BY <2>1, <2>2, <2>3, <2>4, <2>5, Zenon DEF SegmentsOK
<1>10. ContentsOK'
  BY <1>3, <1>5, <1>7, <1>8, Zenon DEF ContentsOK, BytesOK
<1>11. WindowOK'
  <2>1. WindowIsCurrent'
    BY <1>3, <1>8, Zenon DEF WindowOK, WindowIsCurrent, CanTryRead
  <2>2. ASSUME ~truncated', preReader.fileID = largestID PROVE preReader.end <= Len(file2)
    <3>1. preReader.end <= Len(file)
      BY <1>3, <2>2, Zenon DEF WindowOK, file
    <3>2. preReader.end \in Nat
      BY <1>3 DEF Types
    <3>. QED
      BY ONLY <1>2, <3>1, <3>2
  <2>. QED
    BY <1>1, <1>3, <1>5, <2>1, <2>2, Zenon DEF WindowOK
<1>. QED
  BY <1>6, <1>8, <1>9, <1>10, <1>11, Zenon DEF Inv

-----------------------------------------------------------------------------
(* Reading, and what changes nothing *)

LEMMA FilesFrame ==
    ASSUME Inv, UNCHANGED <<fileVars, slices, prunedTo, truncated>>
    PROVE  /\ SegmentsOK' /\ SlicesOK' /\ ContentsOK' /\ Kept' = Kept
           /\ (\A id \in DOMAIN files : Seg(id)' = Seg(id))
<1>1. /\ UNCHANGED <<files, largestID, latestFileSize, writeOffset, buffer>>
      /\ UNCHANGED <<slices, prunedTo, truncated>>
  BY DEF fileVars
<1>2. SlicesOK' /\ Size' = Size /\ Kept' = Kept
  BY <1>1, SlicesFrame DEF Kept
<1>3. \A id \in DOMAIN files : Seg(id)' = Seg(id)
  BY <1>1, Zenon DEF Seg
<1>4. SegmentsOK'
  BY <1>1, <1>2 DEF Inv, SegmentsOK
<1>5. ContentsOK'
  BY <1>1, <1>2, <1>3, Zenon DEF Inv, ContentsOK, BytesOK
<1>. QED
  BY <1>2, <1>3, <1>4, <1>5, Zenon

LEMMA StutterInv ==
    ASSUME Inv, UNCHANGED <<fileVars, slices, prunedTo, truncated, preReader, readPanic>>,
           locked' \in BOOLEAN
    PROVE  Inv'
<1>1. /\ UNCHANGED <<files, largestID, latestFileSize, writeOffset, buffer>>
      /\ UNCHANGED <<slices, prunedTo, truncated, preReader, readPanic>>
  BY DEF fileVars
<1>2. SegmentsOK' /\ SlicesOK' /\ ContentsOK' /\ Kept' = Kept
  BY FilesFrame
<1>3. Types'
  BY <1>1, Zenon DEF Inv, Types
<1>4. WindowOK'
  <2>1. WindowIsCurrent'
    BY <1>1, <1>2, Zenon DEF Inv, WindowOK, WindowIsCurrent, CanTryRead
  <2>. QED
    BY <1>1, <2>1 DEF Inv, WindowOK
<1>. QED
  BY <1>2, <1>3, <1>4, Zenon DEF Inv

\* The window is filled from the disk, so all that it holds of a kept slice is current.
LEMMA FillProp ==
    ASSUME Inv, NEW id \in DOMAIN files, NEW pos \in Nat
    PROVE  LET pr == FillPreReader(id, pos)
           IN  /\ pr.fileID = id /\ pr.start = pos /\ pr.buf \in Seq(Nat)
               /\ pr.end = pos + Len(pr.buf) /\ pr.end \in Nat
               /\ Len(pr.buf) > 0 => pr.end <= Len(files[id])
               /\ \A i \in 1..Len(pr.buf) : pr.buf[i] = files[id][pos + i]
               /\ pr \in [fileID : Int, start : Nat, end : Nat, buf : Seq(Nat)]
<1> DEFINE file == files[id]
           m == Len(file)
           n == PreReadBufSize
           hi == IF pos + n <= m THEN pos + n ELSE m
           part == SubSeq(file, pos + 1, hi)
           pr == [fileID |-> id, start |-> pos, end |-> pos + Len(part), buf |-> part]
<1>1. file \in Seq(Nat) /\ id \in Int
  BY DEF Inv, Types
<1>2. m \in Nat /\ \A i \in 1..m : file[i] \in Nat
  BY <1>1, LenProperties, ElementOfSeq
<1>3. n \in Nat
  BY Constants
<1>4. FillPreReader(id, pos) = pr
  BY Zenon DEF FillPreReader, FileRead
<1>. HIDE DEF file, m, n
<1>5. hi \in Int /\ hi <= m /\ pos + 1 \in Int
  BY ONLY <1>2, <1>3, pos \in Nat
<1>. HIDE DEF hi
<1>6. \A i \in (pos + 1)..hi : file[i] \in Nat
  BY ONLY <1>2, <1>5, pos \in Nat
<1>7. /\ part \in Seq(Nat) /\ Len(part) = IF pos + 1 <= hi THEN hi - (pos + 1) + 1 ELSE 0
      /\ \A i \in 1..(hi - (pos + 1) + 1) : part[i] = file[(pos + 1) + i - 1]
  BY ONLY <1>5, <1>6, SubSeqProperties
<1> DEFINE k == Len(part)
<1>. HIDE DEF part, k
<1>8. k \in Nat /\ pos + k \in Nat /\ (k > 0 => pos + k <= m)
  BY ONLY <1>2, <1>5, <1>7, pos \in Nat DEF k
<1>9. ASSUME NEW i \in 1..k PROVE part[i] = file[pos + i]
  <2>1. i \in 1..(hi - (pos + 1) + 1) /\ (pos + 1) + i - 1 = pos + i
    BY ONLY <1>5, <1>7, i \in 1..k, pos \in Nat DEF k
  <2>. QED
    BY <1>7, <2>1, Zenon
<1>10. /\ pr.fileID = id /\ pr.start = pos /\ pr.buf = part /\ pr.end = pos + k
       /\ pr \in [fileID : Int, start : Nat, end : Nat, buf : Seq(Nat)]
  <2>1. pr = [fileID |-> id, start |-> pos, end |-> pos + k, buf |-> part]
    BY Zenon DEF k
  <2>2. part \in Seq(Nat)
    BY <1>7, Zenon
  <2>. HIDE DEF pr
  <2>. QED
    BY ONLY <1>1, <1>8, <2>1, <2>2, pos \in Nat
<1>. HIDE DEF pr
<1>. QED
  BY <1>4, <1>7, <1>8, <1>9, <1>10, Zenon DEF k, m, file

LEMMA ReadInv ==
    ASSUME Inv, NEW s \in Kept, OnDisk(s), ReadAtWithBuf(s.start, s.len)
    PROVE  Inv'
<1> DEFINE id == FileID(s.start)
           pos == Pos(s.start)
           pr == FillPreReader(id, pos)
           file == files[id]
           m == Len(file)
<1>1. /\ id \in DOMAIN files /\ preReader' = pr /\ readPanic' \in BOOLEAN
      /\ UNCHANGED <<fileVars, locked, truncated, slices, prunedTo>>
      /\ UNCHANGED <<files, largestID, latestFileSize, writeOffset, buffer>>
  BY DEF ReadAtWithBuf, fileVars, CanTryRead
<1>2. SegmentsOK' /\ SlicesOK' /\ ContentsOK' /\ Kept' = Kept
  BY <1>1, FilesFrame
<1>3. pos \in Nat /\ s.len \in Nat \ {0} /\ pos + s.len <= m
  <2>1. s \in slices
    BY DEF Kept
  <2>. QED
    BY <2>1, KeptFacts DEF OnDisk
<1>4. /\ pr.fileID = id /\ pr.start = pos /\ pr.buf \in Seq(Nat)
      /\ pr.end = pos + Len(pr.buf) /\ pr.end \in Nat
      /\ Len(pr.buf) > 0 => pr.end <= m
      /\ \A i \in 1..Len(pr.buf) : pr.buf[i] = file[pos + i]
      /\ pr \in [fileID : Int, start : Nat, end : Nat, buf : Seq(Nat)]
  BY <1>1, <1>3, FillProp
<1>5. /\ file \in Seq(Nat) /\ m \in Nat /\ id \in 0..largestID /\ largestID \in Nat
      /\ buffer \in Seq(Nat) /\ Len(pr.buf) \in Nat
  BY <1>1, <1>4, LenProperties DEF Inv, Types
<1>6. Types'
  BY <1>1, <1>4, Zenon DEF Inv, Types
<1>. HIDE DEF pr
<1>7. pr.end <= m
  BY ONLY <1>3, <1>4, <1>5
<1>8. ASSUME NEW t \in Kept, CanTryRead(pr, FileID(t.start), Pos(t.start), t.len),
             NEW j \in 1..t.len
      PROVE  LET i == Pos(t.start) - pr.start + j
             IN  i \in DOMAIN pr.buf /\ pr.buf[i] = t.start + j
  <2> DEFINE p == Pos(t.start)
             len == t.len
             i == p - pos + j
             k == Len(pr.buf)
  <2>1. FileID(t.start) = id /\ pos <= p /\ p + len < pos + k
    BY <1>4, <1>8, Zenon DEF CanTryRead
  <2>2. p \in Nat /\ len \in Nat /\ j \in 1..len
    <3>1. t \in slices
      BY DEF Kept
    <3>. QED
      BY <3>1, KeptFacts
  <2>3. Seg(id)[p + j] = t.start + j
    BY <2>1, Zenon DEF Inv, ContentsOK, BytesOK
  <2>4. pos + k <= m
    BY <1>4, <1>7, Zenon
  <2>k. k \in Nat
    BY <1>5, Zenon
  <2>. HIDE DEF p, len, i, k, pos, id, m, file
  <2>5. i \in 1..k /\ pos + i = p + j /\ p + j \in 1..m
    BY ONLY <1>3, <1>5, <2>1, <2>2, <2>4, <2>k DEF i
  <2>6. Seg(id)[p + j] = file[p + j]
    <3>1. CASE id = largestID
      <4>1. Seg(id) = file \o buffer
        BY <3>1, Zenon DEF Seg, file
      <4>2. \A x \in 1..m : (file \o buffer)[x] = file[x]
        BY <1>5, SeqFacts DEF m
      <4>. QED
        BY <2>5, <4>1, <4>2, Zenon
    <3>2. CASE id # largestID
      BY <3>2, Zenon DEF Seg, file
    <3>. QED
      BY <3>1, <3>2, Zenon
  <2>7. pr.buf[i] = t.start + j
    BY <1>4, <2>3, <2>5, <2>6, Zenon DEF k
  <2>8. DOMAIN pr.buf = 1..k
    BY <1>4, LenProperties DEF k
  <2>. QED
    BY <1>4, <2>5, <2>7, <2>8, Zenon DEF i, p
<1>9. WindowIsCurrent'
  BY <1>1, <1>2, <1>8, Zenon DEF WindowIsCurrent, CanTryRead
<1>10. WindowOK'
  <2>1. id <= largestID
    BY ONLY <1>5
  <2>. QED
    BY <1>1, <1>4, <1>7, <1>9, <2>1, Zenon DEF WindowOK
<1>. QED
  BY <1>2, <1>6, <1>10, Zenon DEF Inv

-----------------------------------------------------------------------------
(* Cutting *)

\* Only slices go.
LEMMA KeptFewer ==
    ASSUME Inv, Kept' \subseteq Kept, UNCHANGED preReader
    PROVE  WindowIsCurrent'
BY Zenon DEF Inv, WindowOK, WindowIsCurrent, CanTryRead

LEMMA PruneInv ==
    ASSUME Inv, NEW s \in Kept, PruneHead(s.start)
    PROVE  Inv'
<1> DEFINE off == s.start
<1>1. /\ files' = [id \in {i \in DOMAIN files : i >= FileID(off)} |-> files[id]]
      /\ prunedTo' = off
      /\ UNCHANGED <<largestID, latestFileSize, writeOffset, buffer, locked, preReader,
                     readPanic, truncated, slices>>
  BY DEF PruneHead
<1>2. s \in slices /\ prunedTo <= off
  BY DEF Kept, Inv, Types
<1>3. /\ off \in Nat /\ prunedTo \in Nat /\ off <= Size /\ FileID(off) \in 0..largestID
      /\ FileID(prunedTo) <= FileID(off) /\ FileID(prunedTo) \in Nat /\ largestID \in Nat
  <2>1. prunedTo \in Nat /\ largestID \in Nat /\ Size \in Nat
    BY InvFacts DEF Inv, Types
  <2>2. off \in Nat /\ s.len \in Nat /\ s.start + s.len <= Size /\ FileID(off) \in 0..largestID
    BY <1>2, KeptFacts
  <2>3. FileID(prunedTo) <= FileID(off) /\ FileID(prunedTo) \in Nat
    BY <1>2, <2>1, <2>2, Offsets, OffsetsOrdered
  <2>4. off <= Size
    BY ONLY <2>1, <2>2
  <2>. QED
    BY <2>1, <2>2, <2>3, <2>4, Zenon
<1>4. /\ DOMAIN files' = {i \in DOMAIN files : i >= FileID(off)}
      /\ \A id \in DOMAIN files' : id \in DOMAIN files /\ files'[id] = files[id]
      /\ files' \in [DOMAIN files' -> Seq(Nat)]
  <2>1. files \in [DOMAIN files -> Seq(Nat)]
    BY Zenon DEF Inv, Types
  <2>. QED
    BY ONLY <1>1, <2>1
<1>5. largestID \in DOMAIN files'
  <2>1. largestID >= FileID(off) /\ largestID \in DOMAIN files
    BY <1>3, InvFacts
  <2>. QED
    BY <1>4, <2>1
<1>6. SlicesOK' /\ Size' = Size
  BY <1>1, SlicesFrame
<1>7. Kept' \subseteq Kept /\ \A t \in Kept' : t \in slices /\ t.start >= off
  <2>1. ASSUME NEW t \in slices, t.start >= off PROVE t.start >= prunedTo
    <3>1. t.start \in Nat
      BY KeptFacts
    <3>. QED
      BY ONLY <1>2, <1>3, <2>1, <3>1
  <2>. QED
    BY <1>1, <2>1, Zenon DEF Kept
<1>8. Types'
  <2>1. DOMAIN files' \subseteq 0..largestID'
    BY <1>1, <1>4, Zenon DEF Inv, Types
  <2>. QED
    BY <1>1, <1>3, <1>4, <2>1, Zenon DEF Inv, Types
<1>9. SegmentsOK'
  <2>1. prunedTo' <= Size'
    BY <1>1, <1>3, <1>6, Zenon
  <2>2. (FileID(prunedTo)..largestID \subseteq DOMAIN files)'
    <3>1. ASSUME NEW id \in FileID(off)..largestID PROVE id \in DOMAIN files'
      <4>1. id \in FileID(prunedTo)..largestID /\ id >= FileID(off)
        BY ONLY <1>3, id \in FileID(off)..largestID
      <4>2. id \in DOMAIN files
        BY <4>1, Zenon DEF Inv, SegmentsOK
      <4>. QED
        BY <1>4, <4>1, <4>2, Zenon
    <3>. QED
      BY <1>1, <3>1, Zenon
  <2>. QED
    BY <1>1, <1>4, <1>5, <2>1, <2>2 DEF Inv, SegmentsOK
<1>10. ContentsOK'
  <2>. SUFFICES ASSUME NEW t \in Kept' PROVE BytesOK(t)'
    BY Zenon DEF ContentsOK
  <2> DEFINE id == FileID(t.start)
  <2>1. t \in Kept /\ t \in slices /\ t.start >= off
    BY <1>7, Zenon
  <2>2. BytesOK(t)
    BY <2>1, Zenon DEF Inv, ContentsOK
  <2>3. id >= FileID(off)
    <3>1. t.start \in Nat /\ off <= t.start
      BY <1>3, <2>1, KeptFacts
    <3>2. id \in Nat /\ FileID(off) <= id
      BY <1>3, <3>1, Offsets, OffsetsOrdered
    <3>. QED
      BY ONLY <1>3, <3>2
  <2>4. id \in DOMAIN files' /\ files'[id] = files[id]
    BY <1>4, <2>2, <2>3, Zenon DEF BytesOK
  <2>5. Seg(id)' = Seg(id)
    BY <1>1, <2>4, Zenon DEF Seg
  <2>. QED
    BY <1>1, <2>2, <2>4, <2>5, Zenon DEF BytesOK
<1>11. WindowOK'
  <2>1. WindowIsCurrent'
    BY <1>1, <1>7, KeptFewer, Zenon
  <2>2. files'[largestID] = files[largestID]
    BY <1>4, <1>5, Zenon
  <2>. QED
    BY <1>1, <2>1, <2>2 DEF Inv, WindowOK
<1>. QED
  BY <1>6, <1>8, <1>9, <1>10, <1>11, Zenon DEF Inv

LEMMA TruncateInv ==
    ASSUME Inv, NEW s \in Kept, buffer = <<>>, Truncate(s.start)
    PROVE  Inv'
<1> DEFINE size == s.start
           id == FileID(size)
           p == Pos(size)
           cut == SubSeq(files[id], 1, p)
<1>1. /\ files' = [i \in {j \in DOMAIN files : j <= id} |->
                      IF i = id THEN SubSeq(files[i], 1, p) ELSE files[i]]
      /\ largestID' = id /\ latestFileSize' = p /\ writeOffset' = 0
      /\ slices' = {t \in slices : t.start < size}
      /\ truncated' = TRUE
      /\ UNCHANGED <<buffer, locked, preReader, readPanic, prunedTo>>
  BY DEF Truncate
<1>2. s \in slices /\ s.start >= prunedTo /\ prunedTo \in Nat
  BY DEF Kept, Inv, Types
<1>3. /\ size \in Nat /\ id \in 0..largestID /\ id \in Nat /\ p \in 0..(BlockSize - 1)
      /\ largestID \in Nat /\ BlockSize \in Nat \ {0} /\ prunedTo <= size
      /\ size = BlockSize * id + p /\ s.len \in Nat \ {0}
      /\ id = largestID => p + s.len <= latestFileSize
  <2>1. largestID \in Nat /\ BlockSize \in Nat \ {0}
    BY InvFacts
  <2>2. /\ size \in Nat /\ s.len \in Nat \ {0} /\ id \in 0..largestID /\ p \in 0..(BlockSize - 1)
        /\ id = largestID => p + s.len <= latestFileSize
    BY <1>2, KeptFacts
  <2>3. size = BlockSize * id + p /\ id \in Nat
    BY <2>2, Offsets
  <2>4. prunedTo <= size
    BY ONLY <1>2, <2>2
  <2>. QED
    BY <2>1, <2>2, <2>3, <2>4, Zenon
<1>4. Size' = size
  <2>1. id * BlockSize + p = size
    BY ONLY <1>3
  <2>. QED
    BY <1>1, <2>1, Zenon DEF Size
<1>5. id \in DOMAIN files /\ files[id] \in Seq(Nat) /\ Len(files[id]) \in Nat
  <2>1. id \in DOMAIN files
    BY Zenon DEF Inv, ContentsOK, BytesOK
  <2>2. files[id] \in Seq(Nat)
    BY <2>1 DEF Inv, Types
  <2>. QED
    BY <2>1, <2>2, LenProperties
<1>6. p <= Len(files[id])
  <2>1. CASE id = largestID
    <3>1. Len(files[largestID]) + Len(buffer) = latestFileSize /\ Len(buffer) = 0
          /\ Len(files[largestID]) \in Nat
      BY InvFacts
    <3>2. Len(files[id]) + 0 = latestFileSize
      BY <2>1, <3>1, Zenon
    <3>. QED
      BY ONLY <1>3, <1>5, <2>1, <3>2
  <2>2. CASE id # largestID
    <3>1. id < largestID
      BY ONLY <1>3, <2>2
    <3>2. Len(files[id]) >= BlockSize
      BY <1>5, <3>1, Zenon DEF Inv, SegmentsOK
    <3>. QED
      BY ONLY <1>3, <1>5, <3>2
  <2>. QED
    BY <2>1, <2>2, Zenon
<1>7. /\ cut \in Seq(Nat) /\ Len(cut) = p
      /\ \A j \in 1..p : cut[j] = files[id][j]
  <2> DEFINE file == files[id]
             m == Len(file)
  <2>1. \A j \in 1..m : file[j] \in Nat
    BY <1>5, ElementOfSeq
  <2>m. p \in Nat /\ m \in Nat /\ p <= m
    BY <1>3, <1>5, <1>6
  <2>. HIDE DEF p, m, file
  <2>2. \A j \in 1..p : file[j] \in Nat
    BY ONLY <2>1, <2>m
  <2>3. /\ SubSeq(file, 1, p) \in Seq(Nat)
        /\ Len(SubSeq(file, 1, p)) = IF 1 <= p THEN p - 1 + 1 ELSE 0
        /\ \A j \in 1..(p - 1 + 1) : SubSeq(file, 1, p)[j] = file[1 + j - 1]
    BY ONLY <2>m, <2>2, SubSeqProperties
  <2>4. (IF 1 <= p THEN p - 1 + 1 ELSE 0) = p /\ p - 1 + 1 = p
    BY ONLY <2>m
  <2>5. ASSUME NEW j \in 1..p PROVE SubSeq(file, 1, p)[j] = file[j]
    <3>1. 1 + j - 1 = j
      BY ONLY <2>m, j \in 1..p
    <3>. QED
      BY <2>3, <2>4, <3>1, Zenon
  <2>. QED
    BY <2>3, <2>4, <2>5, Zenon DEF file
<1>8. /\ DOMAIN files' = {j \in DOMAIN files : j <= id} /\ files'[id] = cut
      /\ id \in DOMAIN files'
      /\ \A j \in DOMAIN files' : j \in DOMAIN files /\ (j # id => files'[j] = files[j])
      /\ files' \in [DOMAIN files' -> Seq(Nat)] /\ DOMAIN files' \subseteq 0..id
  <2>1. files \in [DOMAIN files -> Seq(Nat)] /\ DOMAIN files \subseteq 0..largestID
    BY Zenon DEF Inv, Types
  <2>2. cut \in Seq(Nat) /\ id \in DOMAIN files /\ id \in 0..largestID /\ largestID \in Nat
    BY <1>3, <1>5, <1>7, Zenon
  <2>3. files' = [i \in {j \in DOMAIN files : j <= id} |-> IF i = id THEN cut ELSE files[i]]
    BY <1>1
  <2>. HIDE DEF cut, id
  <2>. QED
    BY ONLY <2>1, <2>2, <2>3
<1>9. ASSUME NEW t \in slices'
      PROVE  /\ t \in slices /\ t.start < size /\ t.start \in Nat /\ t.len \in Nat \ {0}
             /\ t.start + t.len <= size
  <2>1. t \in slices /\ t.start < s.start
    BY <1>1, Zenon
  <2>2. t.start + t.len <= s.start
    BY <1>2, <2>1, Zenon DEF Inv, SlicesOK
  <2>. QED
    BY <2>1, <2>2, KeptFacts
<1>10. Types'
  <2>1. slices' \subseteq [start : Nat, len : Nat \ {0}]
    BY <1>1, Zenon DEF Inv, Types
  <2>2. latestFileSize' \in Nat /\ writeOffset' \in Nat
    BY <1>1, <1>3
  <2>. QED
    BY <1>1, <1>3, <1>8, <2>1, <2>2, Zenon DEF Inv, Types
<1>11. SegmentsOK'
  <2>1. prunedTo' <= Size' /\ latestFileSize' < BlockSize
    BY <1>1, <1>3, <1>4
  <2>2. (FileID(prunedTo)..largestID \subseteq DOMAIN files)'
    <3>1. ASSUME NEW j \in FileID(prunedTo)..id PROVE j \in DOMAIN files'
      <4>1. FileID(prunedTo) \in Nat
        BY <1>2, Offsets
      <4>2. j \in FileID(prunedTo)..largestID /\ j <= id
        BY ONLY <1>3, <4>1, j \in FileID(prunedTo)..id
      <4>3. j \in DOMAIN files
        BY <4>2, Zenon DEF Inv, SegmentsOK
      <4>. QED
        BY <1>8, <4>2, <4>3, Zenon
    <3>. QED
      BY <1>1, <3>1, Zenon
  <2>3. ASSUME NEW j \in DOMAIN files', j < largestID' PROVE Len(files'[j]) >= BlockSize
    <3>1. j < id /\ j \in 0..id
      BY <1>1, <1>8, <2>3, Zenon
    <3>2. j # id /\ j < largestID
      BY ONLY <1>3, <3>1
    <3>3. j \in DOMAIN files /\ files'[j] = files[j]
      BY <1>8, <3>2, Zenon
    <3>. QED
      BY <3>2, <3>3, Zenon DEF Inv, SegmentsOK
  <2>4. buffer' = <<>> /\ latestFileSize' = Len(files'[largestID']) /\ writeOffset' = 0
    BY <1>1, <1>7, <1>8, Zenon
  <2>. QED
    BY <1>1, <2>1, <2>2, <2>3, <2>4, Zenon DEF SegmentsOK
<1>12. SlicesOK'
  <2>1. Adjoins(Size)'
    <3>1. Adjoins(s.start)
      BY <1>2, Zenon DEF Inv, SlicesOK
    <3>2. ASSUME NEW t \in slices, t.start + t.len = size PROVE t \in slices'
      <4>1. t.start \in Nat /\ t.len \in Nat \ {0}
        BY KeptFacts
      <4>2. t.start < size
        BY ONLY <1>3, <3>2, <4>1
      <4>. QED
        BY <1>1, <4>2, Zenon
    <3>. QED
      BY <1>4, <3>1, <3>2, Zenon DEF Adjoins
  <2>2. ASSUME NEW t \in slices' PROVE t.start + t.len <= Size' /\ Adjoins(t.start)'
    <3>1. Adjoins(t.start)
      BY <1>9, Zenon DEF Inv, SlicesOK
    <3>2. ASSUME NEW u \in slices, u.start + u.len = t.start PROVE u \in slices'
      <4>1. u.start \in Nat /\ u.len \in Nat \ {0}
        BY KeptFacts
      <4>t. t.start < size /\ t.start \in Nat
        BY <1>9, Zenon
      <4>2. u.start < size
        BY ONLY <1>3, <3>2, <4>1, <4>t
      <4>. QED
        BY <1>1, <4>2, Zenon
    <3>3. Adjoins(t.start)'
      BY <3>1, <3>2, Zenon DEF Adjoins
    <3>. QED
      BY <1>4, <1>9, <3>3, Zenon
  <2>3. \A t, u \in slices' : t.start < u.start => t.start + t.len <= u.start
    BY <1>9, Zenon DEF Inv, SlicesOK
  <2>. QED
    BY <2>1, <2>2, <2>3, Zenon DEF SlicesOK
<1>13. Kept' \subseteq Kept
  BY <1>1, Zenon DEF Kept
<1>14. ContentsOK'
  <2>. SUFFICES ASSUME NEW t \in Kept' PROVE BytesOK(t)'
    BY Zenon DEF ContentsOK
  <2> DEFINE x == FileID(t.start)
             q == Pos(t.start)
             len == t.len
  <2>1. t \in Kept /\ t \in slices'
    BY <1>13, Zenon DEF Kept
  <2>2. /\ x \in DOMAIN files /\ q + len <= Len(Seg(x))
        /\ \A j \in 1..len : Seg(x)[q + j] = t.start + j
    BY <2>1, Zenon DEF Inv, ContentsOK, BytesOK
  <2>3. /\ t.start \in Nat /\ len \in Nat /\ t.start + len <= size /\ t.start < size
    BY <1>9, <2>1
  <2>4. x \in Nat /\ q \in 0..(BlockSize - 1) /\ t.start = BlockSize * x + q
    BY <2>3, Offsets
  <2>5. x <= id
    <3>1. t.start <= size
      BY ONLY <1>3, <2>3
    <3>. QED
      BY <1>3, <2>3, <3>1, OffsetsOrdered
  <2>6. x \in DOMAIN files'
    BY <1>8, <2>2, <2>5, Zenon
  <2>. HIDE DEF x, q, len
  <2>7. CASE x # id
    <3>1. x # largestID
      BY ONLY <1>3, <2>4, <2>5, <2>7
    <3>2. files'[x] = files[x]
      BY <1>8, <2>6, <2>7, Zenon
    <3>3. Seg(x)' = Seg(x)
      BY <1>1, <2>7, <3>1, <3>2, Zenon DEF Seg
    <3>. QED
      BY <2>2, <2>6, <3>3, Zenon DEF BytesOK, x, q, len
  <2>8. CASE x = id
    <3>1. Seg(x)' = cut
      <4>1. cut \o <<>> = cut
        BY <1>7, ConcatEmptySeq
      <4>. QED
        BY <1>1, <1>8, <2>8, <4>1, Zenon DEF Seg
    <3>2. Seg(x) = files[id]
      <4>1. files[id] \o <<>> = files[id]
        BY <1>5, ConcatEmptySeq
      <4>. QED
        BY <2>8, <4>1, Zenon DEF Seg
    <3>3. q + len <= p
      <4> DEFINE y == BlockSize * id
      <4>1. y \in Int
        BY ONLY <1>3
      <4>2. t.start = y + q /\ size = y + p
        BY <1>3, <2>4, <2>8, Zenon
      <4>. HIDE DEF y, p, size, id
      <4>. QED
        BY ONLY <1>3, <2>3, <2>4, <4>1, <4>2
    <3>4. ASSUME NEW j \in 1..len PROVE cut[q + j] = t.start + j
      <4>1. q + j \in 1..p
        BY ONLY <1>3, <2>3, <2>4, <3>3, j \in 1..len
      <4>. QED
        BY <1>7, <2>2, <3>2, <4>1, Zenon
    <3>. QED
      BY <1>7, <2>6, <3>1, <3>3, <3>4, Zenon DEF BytesOK, x, q, len
  <2>. QED
    BY <2>7, <2>8, Zenon
<1>15. WindowOK'
  <2>1. WindowIsCurrent'
    BY <1>1, <1>13, KeptFewer, Zenon
  <2>2. preReader'.end = preReader'.start + Len(preReader'.buf)
    BY <1>1, Zenon DEF Inv, WindowOK
  <2>. QED
    BY <1>1, <2>1, <2>2, Zenon DEF WindowOK
<1>. QED
  BY <1>10, <1>11, <1>12, <1>14, <1>15, Zenon DEF Inv

LEMMA ReopenInv ==
    ASSUME Inv, Reopen
    PROVE  Inv'
<1> DEFINE m == Len(files[largestID])
<1>1. /\ buffer = <<>> /\ latestFileSize' = m /\ writeOffset' = m /\ truncated' = FALSE
      /\ preReader' = [fileID |-> -1, start |-> 0, end |-> 0, buf |-> <<>>]
      /\ UNCHANGED <<files, largestID, buffer, locked, readPanic, slices, prunedTo>>
  BY DEF Reopen
<1>2. Len(buffer) = 0 /\ Len(<<>>) = 0 /\ <<>> \in Seq(Nat)
  BY <1>1
<1>3. m \in Nat /\ largestID \in Nat /\ m + Len(buffer) = latestFileSize
  BY InvFacts
<1>4. latestFileSize' = latestFileSize
  BY ONLY <1>1, <1>2, <1>3
<1>5. SlicesOK' /\ Size' = Size /\ Kept' = Kept
  BY <1>1, <1>4, SlicesFrame DEF Kept
<1>6. /\ preReader' \in [fileID : Int, start : Nat, end : Nat, buf : Seq(Nat)]
      /\ preReader'.end = 0 /\ preReader'.start = 0 /\ preReader'.buf = <<>>
      /\ preReader'.fileID = -1
  BY ONLY <1>1, <1>2
<1>7. Types'
  <2>1. latestFileSize' \in Nat /\ writeOffset' \in Nat
    BY <1>1, <1>3, Zenon
  <2>. QED
    BY <1>1, <1>6, <2>1, Zenon DEF Inv, Types
<1>8. SegmentsOK'
  <2>1. m + 0 = m
    BY ONLY <1>3
  <2>2. latestFileSize' = writeOffset' + Len(buffer') /\ writeOffset' = Len(files'[largestID'])
    BY <1>1, <1>2, <2>1, Zenon
  <2>. QED
    BY <1>1, <1>4, <1>5, <2>2 DEF Inv, SegmentsOK
<1>9. ContentsOK'
  <2>1. \A id \in DOMAIN files : Seg(id)' = Seg(id)
    BY <1>1, Zenon DEF Seg
  <2>. QED
    BY <1>1, <1>5, <2>1, Zenon DEF Inv, ContentsOK, BytesOK
<1>10. WindowOK'
  <2>1. \A t \in Kept : FileID(t.start) # -1
    <3>1. ASSUME NEW t \in Kept PROVE FileID(t.start) # -1
      <4>1. FileID(t.start) \in 0..largestID
        BY KeptFacts DEF Kept
      <4>. QED
        BY ONLY <1>3, <4>1
    <3>. QED
      BY <3>1
  <2>2. WindowIsCurrent'
    BY <1>5, <1>6, <2>1, Zenon DEF WindowIsCurrent, CanTryRead
  <2>3. preReader'.fileID <= largestID' /\ preReader'.fileID # largestID'
    BY ONLY <1>1, <1>3, <1>6
  <2>4. preReader'.end = preReader'.start + Len(preReader'.buf)
    <3>1. 0 = 0 + 0
      OBVIOUS
    <3>. QED
      BY <1>2, <1>6, <3>1, Zenon
  <2>. QED
    BY <2>2, <2>3, <2>4, Zenon DEF WindowOK
<1>. QED
  BY <1>5, <1>7, <1>8, <1>9, <1>10, Zenon DEF Inv

-----------------------------------------------------------------------------
(* Appending *)

\* The segments after a call of Append, whether or not it began another one: the latest one
\* has got its bytes, and another one only padding.
LEMMA AppendSegments ==
    ASSUME Inv, NEW lens \in SliceLists, ~truncated, AppendSlices(lens)
    PROVE  /\ Types' /\ SegmentsOK'
           /\ Size' = Size + SumOf(lens) /\ SumOf(lens) \in Nat \ {0}
           /\ DOMAIN files \subseteq DOMAIN files'
           /\ \A id \in DOMAIN files \ {largestID} : Seg(id)' = Seg(id)
           /\ \E all \in Seq(Nat) :
                 /\ \A id : id = largestID => Seg(id)' = all
                 /\ Len(all) = latestFileSize + SumOf(lens)
                 /\ \A i \in 1..latestFileSize : all[i] = Seg(largestID)[i]
                 /\ \A j \in 1..SumOf(lens) : all[latestFileSize + j] = Size + j
           /\ \/ largestID' = largestID /\ Len(files'[largestID]) >= Len(files[largestID])
              \/ largestID' = largestID + 1
<1> DEFINE st == AppendLoop(lens)[Len(lens)]
           sum == SumOf(lens)
           all == Bytes(st)
           L == largestID
           b == latestFileSize
           B == BlockSize
<1>1. /\ Size \in Nat /\ L \in DOMAIN files /\ L \in Nat /\ files[L] \in Seq(Nat)
      /\ Len(files[L]) \in Nat /\ Len(buffer) \in Nat
      /\ Seg(L) = files[L] \o buffer /\ B \in Nat \ {0} /\ b \in 0..(B - 1)
  BY InvFacts
<1>2. /\ Types /\ SegmentsOK /\ buffer \in Seq(Nat) /\ Len(buffer) <= BufferSize
      /\ writeOffset = Len(files[L]) /\ b = writeOffset + Len(buffer)
      /\ files \in [DOMAIN files -> Seq(Nat)] /\ DOMAIN files \subseteq 0..L
  BY Zenon DEF Inv, Types, SegmentsOK
<1>3. Latest \in Segment
  <2>1. b = Len(files[L]) + Len(buffer)
    BY <1>2, Zenon
  <2>2. [file |-> files[L], off |-> writeOffset, buffer |-> buffer, size |-> b] \in Segment
    BY <1>1, <1>2, <2>1, MakeSegment
  <2>. QED
    BY <2>2, Zenon DEF Latest
<1>4. Bytes(Latest) = Seg(L)
  <2>1. Latest.file = files[L] /\ Latest.buffer = buffer
    BY DEF Latest
  <2>. QED
    BY <1>1, <2>1, Zenon DEF Bytes
<1>5. /\ st \in Segment /\ st.size = b + sum /\ Len(st.file) >= Len(files[L])
      /\ \A i \in 1..b : all[i] = Seg(L)[i]
      /\ \A j \in 1..sum : all[b + j] = Size + j
  <2>1. Latest.file = files[L]
    BY DEF Latest
  <2>2. /\ st \in Segment /\ st.size = b + sum /\ Len(st.file) >= Len(Latest.file)
        /\ \A i \in 1..b : all[i] = Bytes(Latest)[i]
        /\ \A j \in 1..sum : all[b + j] = Size + j
    BY <1>1, <1>3, LoopProp
  <2>. QED
    BY <1>4, <2>1, <2>2, Zenon
<1>6. all \in Seq(Nat) /\ Len(all) = b + sum
  BY <1>5, SegmentBytes
<1>7. /\ st.file \in Seq(Nat) /\ st.buffer \in Seq(Nat) /\ st.off = Len(st.file)
      /\ Len(st.file) \in Nat /\ Len(st.buffer) \in Nat /\ Len(st.buffer) <= BufferSize
      /\ st.size = Len(st.file) + Len(st.buffer) /\ st.size \in Nat
      /\ st = [file |-> st.file, off |-> Len(st.file), buffer |-> st.buffer, size |-> st.size]
  BY <1>5, SegmentFields
<1>8. sum \in Nat \ {0} /\ sum <= B /\ sum <= BufferSize + 1 /\ BufferSize \in Nat
  <2>1. /\ lens \in Seq(Nat) /\ sum > 0 /\ sum <= B /\ sum <= BufferSize + 1
        /\ BufferSize \in Nat
    BY Constants, Zenon
  <2>2. Len(lens) \in Nat /\ Sums(lens) \in [0..Len(lens) -> Nat]
    BY <2>1, SumsDef, LenProperties
  <2>3. sum \in Nat
    <3> DEFINE n == Len(lens)
    <3>1. n \in Nat /\ Sums(lens) \in [0..n -> Nat]
      BY <2>2, Zenon
    <3>. HIDE DEF n
    <3>2. Sums(lens)[n] \in Nat
      BY ONLY <3>1
    <3>. QED
      BY <3>2, Zenon DEF SumOf, n
  <2>. QED
    BY ONLY <2>1, <2>3
<1>9. /\ IF st.size >= B THEN NewSegment(st) ELSE SameSegment(st)
      /\ slices' = slices \cup {[start |-> Size, len |-> sum]}
      /\ UNCHANGED <<locked, preReader, readPanic, truncated, prunedTo>>
  BY DEF AppendSlices
<1>10. slices' \subseteq [start : Nat, len : Nat \ {0}]
  <2>1. slices \subseteq [start : Nat, len : Nat \ {0}]
    BY <1>2, Zenon DEF Types
  <2>2. [start |-> Size, len |-> sum] \in [start : Nat, len : Nat \ {0}]
    BY <1>1, <1>8
  <2>. QED
    BY <1>9, <2>1, <2>2, Zenon
<1>11. prunedTo <= Size + sum
  <2>1. prunedTo \in Nat /\ prunedTo <= Size
    BY <1>2, Zenon DEF Types, SegmentsOK
  <2>. HIDE DEF sum
  <2>. QED
    BY ONLY <1>1, <1>8, <2>1
<1>12. prunedTo \in Nat /\ FileID(prunedTo) \in Nat /\ FileID(prunedTo)..L \subseteq DOMAIN files
  <2>1. prunedTo \in Nat /\ FileID(prunedTo)..L \subseteq DOMAIN files
    BY <1>2, Zenon DEF Types, SegmentsOK
  <2>. QED
    BY <2>1, Offsets
<1>. HIDE DEF st, sum, all
<1>13. CASE st.size >= B
  <2> DEFINE over == st.size - B
             file2 == Flushed(st).file
             pad == [i \in 1..over |-> 0]
  <2>1. /\ files' = [id \in DOMAIN files \cup {L + 1} |->
                        IF id = L THEN file2 ELSE IF id = L + 1 THEN <<>> ELSE files[id]]
        /\ largestID' = L + 1 /\ latestFileSize' = over /\ writeOffset' = 0
        /\ buffer' = pad
    BY <1>9, <1>13, Zenon DEF NewSegment
  <2>2. file2 = all
    <3> DEFINE f == st.file
               g == st.buffer
               z == st.size
    <3>1. Flushed([file |-> f, off |-> Len(f), buffer |-> g, size |-> z])
          = [file |-> f \o g, off |-> Len(f) + Len(g), buffer |-> <<>>, size |-> z]
      BY <1>7, FlushedProp
    <3>2. Flushed(st) = [file |-> f \o g, off |-> Len(f) + Len(g), buffer |-> <<>>, size |-> z]
      BY <1>7, <3>1, Zenon
    <3> DEFINE fl == Flushed(st)
               x == f \o g
               y == Len(f) + Len(g)
               e == <<>>
    <3>3. fl = [file |-> x, off |-> y, buffer |-> e, size |-> z]
      BY <3>2, Zenon
    <3>. HIDE DEF fl, x, y, e, z
    <3>4. fl.file = x
      BY ONLY <3>3
    <3>. QED
      BY <3>4, Zenon DEF all, Bytes, fl, x, file2
  <2>3. /\ over \in Nat /\ over < B /\ over <= BufferSize
        /\ (L + 1) * B + over = (L * B + b) + sum
    <3>1. (L + 1) * B = L * B + B /\ L * B \in Int
      BY ONLY <1>1
    <3>2. st.size \in Nat /\ st.size = b + sum
      BY <1>5, <1>7, Zenon
    <3>. QED
      BY ONLY <1>1, <1>8, <1>13, <3>1, <3>2
  <2>. HIDE DEF over, file2
  <2>4. pad \in [1..over -> Nat]
    OBVIOUS
  <2>. HIDE DEF pad
  <2>5. pad \in Seq(Nat) /\ Len(pad) = over
    BY <2>3, <2>4, MakeSeq
  <2>6. <<>> \in Seq(Nat) /\ Len(<<>>) = 0
    OBVIOUS
  <2>7. L + 1 \in Nat /\ L + 1 # L /\ L + 1 \notin DOMAIN files
    <3>1. L + 1 \in Nat /\ L + 1 # L /\ L + 1 \notin 0..L
      BY ONLY <1>1
    <3>. QED
      BY <1>2, <3>1, Zenon
  <2>8. /\ DOMAIN files' = DOMAIN files \cup {L + 1}
        /\ files'[L] = all /\ files'[L + 1] = <<>>
        /\ \A id \in DOMAIN files : id # L => files'[id] = files[id]
        /\ files' \in [DOMAIN files \cup {L + 1} -> Seq(Nat)]
    <3> DEFINE e == <<>>
    <3>1. /\ e \in Seq(Nat) /\ file2 \in Seq(Nat) /\ files \in [DOMAIN files -> Seq(Nat)]
          /\ L \in DOMAIN files
      BY <1>1, <1>2, <1>6, <2>2, <2>6, Zenon
    <3>2. files' = [id \in DOMAIN files \cup {L + 1} |->
                       IF id = L THEN file2 ELSE IF id = L + 1 THEN e ELSE files[id]]
      BY <2>1, Zenon
    <3>. HIDE DEF e
    <3>3. /\ DOMAIN files' = DOMAIN files \cup {L + 1}
          /\ files'[L] = file2 /\ files'[L + 1] = e
          /\ \A id \in DOMAIN files : id # L => files'[id] = files[id]
          /\ files' \in [DOMAIN files \cup {L + 1} -> Seq(Nat)]
      BY ONLY <2>7, <3>1, <3>2
    <3>. QED
      BY <2>2, <3>3, Zenon DEF e
  <2>9. Size' = Size + sum
    BY <2>1, <2>3, Zenon DEF Size
  <2>10. Types'
    <3>1. DOMAIN files' \subseteq 0..(L + 1)
      BY ONLY <1>1, <1>2, <2>8
    <3>2. writeOffset' \in Nat
      BY <2>1
    <3>. QED
      BY <1>2, <1>9, <1>10, <2>1, <2>3, <2>5, <2>7, <2>8, <3>1, <3>2, Zenon DEF Types
  <2>11. SegmentsOK'
    <3>1. (FileID(prunedTo)..largestID \subseteq DOMAIN files)'
      <4>1. \A j \in FileID(prunedTo)..(L + 1) : j = L + 1 \/ j \in FileID(prunedTo)..L
        BY ONLY <1>1, <1>12
      <4>2. FileID(prunedTo)..(L + 1) \subseteq DOMAIN files'
        BY <1>12, <2>8, <4>1, Zenon
      <4>. QED
        BY <1>9, <2>1, <4>2, Zenon
    <3>2. ASSUME NEW id \in DOMAIN files', id < largestID' PROVE Len(files'[id]) >= BlockSize
      <4>1. id < L + 1
        BY <2>1, <3>2, Zenon
      <4>2. id # L + 1
        BY ONLY <1>1, <4>1
      <4>3. id \in DOMAIN files /\ id \in 0..L
        BY <1>2, <2>8, <4>2, Zenon
      <4>4. CASE id = L
        BY <1>5, <1>6, <1>13, <2>8, <4>4, Zenon
      <4>5. CASE id # L
        <5>1. id < L
          BY ONLY <1>1, <4>3, <4>5
        <5>2. files'[id] = files[id]
          BY <2>8, <4>3, <4>5, Zenon
        <5>. QED
          BY <1>2, <4>3, <5>1, <5>2, Zenon DEF SegmentsOK
      <4>. QED
        BY <4>4, <4>5, Zenon
    <3>3. /\ writeOffset' = Len(files'[largestID'])
          /\ latestFileSize' = writeOffset' + Len(buffer')
      <4>1. 0 + over = over
        BY ONLY <2>3
      <4>. QED
        BY <2>1, <2>5, <2>6, <2>8, <4>1, Zenon
    <3>. QED
      BY <1>9, <1>11, <2>1, <2>3, <2>9, <3>1, <3>2, <3>3, Zenon DEF SegmentsOK
  <2>12. ASSUME NEW id, id = L PROVE Seg(id)' = all
    BY <2>1, <2>7, <2>8, <2>12, Zenon DEF Seg
  <2>13. ASSUME NEW id \in DOMAIN files \ {L} PROVE Seg(id)' = Seg(id)
    BY <2>1, <2>7, <2>8, Zenon DEF Seg
  <2>14. DOMAIN files \subseteq DOMAIN files' /\ largestID' = L + 1
    BY <2>1, <2>8, Zenon
  <2>. QED
    BY <1>5, <1>6, <1>8, <2>9, <2>10, <2>11, <2>12, <2>13, <2>14, Zenon DEF sum
<1>14. CASE ~(st.size >= B)
  <2>1. /\ files' = [files EXCEPT ![L] = st.file] /\ latestFileSize' = st.size
        /\ writeOffset' = st.off /\ buffer' = st.buffer /\ largestID' = L
    BY <1>9, <1>14, Zenon DEF SameSegment
  <2> DEFINE f == st.file
  <2>2. f \in Seq(Nat) /\ st.size < B
    BY <1>1, <1>7, <1>14
  <2>. HIDE DEF f
  <2>3. /\ DOMAIN files' = DOMAIN files /\ files'[L] = f
        /\ \A id \in DOMAIN files : id # L => files'[id] = files[id]
        /\ files' \in [DOMAIN files -> Seq(Nat)]
    <3>1. files' = [files EXCEPT ![L] = f]
      BY <2>1, Zenon DEF f
    <3>2. L \in DOMAIN files /\ files \in [DOMAIN files -> Seq(Nat)] /\ f \in Seq(Nat)
      BY <1>1, <1>2, <2>2, Zenon
    <3>. QED
      BY ONLY <3>1, <3>2
  <2>4. Size' = Size + sum
    <3>1. L * B \in Int
      BY ONLY <1>1
    <3>2. L * B + (b + sum) = (L * B + b) + sum
      BY ONLY <1>1, <1>8, <3>1
    <3>. QED
      BY <1>5, <2>1, <3>2, Zenon DEF Size
  <2>5. Types'
    <3>1. st.off \in Nat
      BY <1>7, Zenon
    <3>. QED
      BY <1>2, <1>7, <1>9, <1>10, <2>1, <2>3, <3>1, Zenon DEF Types
  <2>6. SegmentsOK'
    <3>1. (FileID(prunedTo)..largestID \subseteq DOMAIN files)'
      BY <1>9, <1>12, <2>1, <2>3, Zenon
    <3>2. ASSUME NEW id \in DOMAIN files', id < largestID' PROVE Len(files'[id]) >= BlockSize
      <4>1. id \in DOMAIN files /\ id < L
        BY <2>1, <2>3, <3>2, Zenon
      <4>2. id # L
        BY ONLY <1>1, <4>1
      <4>3. files'[id] = files[id]
        BY <2>3, <4>1, <4>2, Zenon
      <4>. QED
        BY <1>2, <4>1, <4>3, Zenon DEF SegmentsOK
    <3>3. /\ writeOffset' = Len(files'[largestID'])
          /\ latestFileSize' = writeOffset' + Len(buffer')
      BY <1>7, <2>1, <2>3, Zenon DEF f
    <3>. QED
      BY <1>9, <1>11, <2>1, <2>2, <2>4, <3>1, <3>2, <3>3, Zenon DEF SegmentsOK
  <2>7. ASSUME NEW id, id = L PROVE Seg(id)' = all
    BY <2>1, <2>3, <2>7, Zenon DEF Seg, all, Bytes, f
  <2>8. ASSUME NEW id \in DOMAIN files \ {L} PROVE Seg(id)' = Seg(id)
    BY <2>1, <2>3, Zenon DEF Seg
  <2>. QED
    BY <1>5, <1>6, <1>8, <2>1, <2>3, <2>4, <2>5, <2>6, <2>7, <2>8, Zenon DEF sum, f
<1>. QED
  BY <1>13, <1>14, Zenon

LEMMA AppendInv ==
    ASSUME Inv, NEW lens \in SliceLists, ~truncated, AppendSlices(lens)
    PROVE  Inv'
<1> DEFINE sum == SumOf(lens)
           b == latestFileSize
<1>0. PICK L, z, new : L = largestID /\ z = Size /\ new = [start |-> z, len |-> sum]
  OBVIOUS
<1>1. /\ Types' /\ SegmentsOK' /\ Size' = z + sum /\ sum \in Nat \ {0}
      /\ DOMAIN files \subseteq DOMAIN files'
      /\ \A id \in DOMAIN files \ {L} : Seg(id)' = Seg(id)
      /\ \/ largestID' = L /\ Len(files'[L]) >= Len(files[L])
         \/ largestID' = L + 1
  BY <1>0, AppendSegments, Zenon
<1>2. PICK all \in Seq(Nat) :
          /\ \A id : id = L => Seg(id)' = all
          /\ Len(all) = b + sum
          /\ \A i \in 1..b : all[i] = Seg(L)[i]
          /\ \A j \in 1..sum : all[b + j] = z + j
  BY <1>0, AppendSegments, Zenon
<1>3. /\ z \in Nat /\ FileID(z) = L /\ Pos(z) = b /\ L \in Nat
      /\ L \in DOMAIN files /\ Len(Seg(L)) = b /\ b \in Nat
      /\ Len(files[L]) \in Nat /\ Len(buffer) \in Nat /\ Len(files[L]) + Len(buffer) = b
  <2>1. b \in 0..(BlockSize - 1) /\ BlockSize \in Nat
    BY InvFacts
  <2>2. b \in Nat
    BY ONLY <2>1
  <2>. QED
    BY <1>0, <2>2, InvFacts, Zenon
<1>4. /\ slices' = slices \cup {new}
      /\ UNCHANGED <<locked, preReader, readPanic, truncated, prunedTo>>
  BY <1>0 DEF AppendSlices
<1>. HIDE DEF sum
<1>5. new.start = z /\ new.len = sum
  BY <1>0
<1>6. SlicesOK'
  <2>1. \A pos : Adjoins(pos) => Adjoins(pos)'
    BY <1>4, Zenon DEF Adjoins
  <2>2. Adjoins(Size)'
    BY <1>1, <1>4, <1>5, Zenon DEF Adjoins
  <2>3. ASSUME NEW s \in slices
        PROVE  /\ s.start + s.len <= Size' /\ Adjoins(s.start)'
               /\ s.start + s.len <= z /\ ~(z < s.start)
    <3>1. s.start \in Nat /\ s.len \in Nat \ {0} /\ s.start + s.len <= z
      BY <1>0, KeptFacts
    <3>2. Adjoins(s.start)
      BY Zenon DEF Inv, SlicesOK
    <3>3. s.start + s.len <= Size' /\ ~(z < s.start)
      BY ONLY <1>1, <1>3, <3>1
    <3>. QED
      BY <2>1, <3>1, <3>2, <3>3, Zenon
  <2>4. new.start + new.len <= Size' /\ Adjoins(new.start)' /\ ~(new.start < new.start)
    <3>1. z + sum <= z + sum /\ ~(z < z)
      BY ONLY <1>1, <1>3
    <3>2. Adjoins(z)
      BY <1>0, Zenon DEF Inv, SlicesOK
    <3>. QED
      BY <1>1, <1>5, <2>1, <3>1, <3>2, Zenon
  <2>5. \A s, t \in slices : s.start < t.start => s.start + s.len <= t.start
    BY Zenon DEF Inv, SlicesOK
  <2>6. ASSUME NEW s \in slices', NEW t \in slices', s.start < t.start
        PROVE  s.start + s.len <= t.start
    BY <1>4, <1>5, <2>3, <2>4, <2>5, <2>6, Zenon
  <2>7. \A s \in slices' : s.start + s.len <= Size' /\ Adjoins(s.start)'
    BY <1>4, <2>3, <2>4, Zenon
  <2>. QED
    BY <2>2, <2>6, <2>7, Zenon DEF SlicesOK
<1>7. \A s \in Kept' : s \in Kept \/ s = new
  BY <1>4, Zenon DEF Kept
<1>8. ContentsOK'
  <2>1. ASSUME NEW s \in Kept PROVE BytesOK(s)'
    <3> DEFINE id == FileID(s.start)
               q == Pos(s.start)
               len == s.len
    <3>1. /\ id \in DOMAIN files /\ q + len <= Len(Seg(id))
          /\ \A j \in 1..len : Seg(id)[q + j] = s.start + j
      BY Zenon DEF Inv, ContentsOK, BytesOK
    <3>2. q \in Nat /\ len \in Nat
      BY KeptFacts DEF Kept
    <3>3. id \in DOMAIN files'
      BY <1>1, <3>1, Zenon
    <3>. HIDE DEF id, q, len
    <3>4. CASE id # L
      <4>1. Seg(id)' = Seg(id)
        BY <1>1, <3>1, <3>4, Zenon
      <4>. QED
        BY <3>1, <3>3, <4>1, Zenon DEF BytesOK, id, q, len
    <3>5. CASE id = L
      <4>1. Seg(id)' = all
        BY <1>2, <3>5, Zenon
      <4>2. q + len <= b
        BY <1>3, <3>1, <3>5, Zenon
      <4>3. q + len <= b + sum
        BY ONLY <1>1, <1>3, <3>2, <4>2
      <4>4. ASSUME NEW j \in 1..len PROVE all[q + j] = s.start + j
        <5>1. q + j \in 1..b
          BY ONLY <1>3, <3>2, <4>2, j \in 1..len
        <5>. QED
          BY <1>2, <3>1, <3>5, <5>1, Zenon
      <4>. QED
        BY <1>2, <3>3, <4>1, <4>3, <4>4, Zenon DEF BytesOK, id, q, len
    <3>. QED
      BY <3>4, <3>5, Zenon
  <2>2. BytesOK(new)'
    <3>1. L \in DOMAIN files' /\ Seg(L)' = all
      BY <1>1, <1>2, <1>3, Zenon
    <3>2. b + sum <= b + sum
      BY ONLY <1>1, <1>3
    <3>. QED
      BY <1>2, <1>3, <1>5, <3>1, <3>2, Zenon DEF BytesOK
  <2>. QED
    BY <1>7, <2>1, <2>2, Zenon DEF ContentsOK
<1>9. WindowOK'
  <2> DEFINE pr == preReader
  <2>1. /\ WindowIsCurrent /\ pr.end = pr.start + Len(pr.buf) /\ pr.fileID <= L
        /\ pr.fileID = L => pr.end <= Len(files[L])
    BY <1>0, Zenon DEF Inv, WindowOK
  <2>2. pr.fileID \in Int /\ pr.end \in Nat /\ pr.start \in Nat
    BY DEF Inv, Types
  <2>3. ~CanTryRead(pr, FileID(new.start), Pos(new.start), new.len)
    <3>. SUFFICES ASSUME L = pr.fileID, b + sum < pr.end PROVE FALSE
      BY <1>3, <1>5, Zenon DEF CanTryRead
    <3>1. pr.end <= Len(files[L])
      BY <2>1, Zenon
    <3>. QED
      BY ONLY <1>1, <1>3, <2>2, <3>1, b + sum < pr.end
  <2>4. WindowIsCurrent'
    BY <1>4, <1>7, <2>1, <2>3, Zenon DEF WindowIsCurrent, CanTryRead
  <2>5. pr.fileID <= largestID'
    BY ONLY <1>1, <1>3, <2>1, <2>2
  <2>6. ASSUME pr.fileID = largestID' PROVE pr.end <= Len(files'[largestID'])
    <3>1. largestID' = L
      BY ONLY <1>1, <1>3, <2>1, <2>2, <2>6
    <3>2. Len(files'[L]) >= Len(files[L])
      <4>1. L + 1 # L
        BY ONLY <1>3
      <4>. QED
        BY <1>1, <3>1, <4>1, Zenon
    <3>3. Len(files'[L]) \in Nat
      <4>1. files' \in [DOMAIN files' -> Seq(Nat)] /\ L \in DOMAIN files'
        BY <1>1, <1>3, Zenon DEF Types
      <4>2. files'[L] \in Seq(Nat)
        BY ONLY <4>1
      <4>. QED
        BY <4>2, LenProperties
    <3>4. pr.end <= Len(files[L])
      BY <2>1, <2>6, <3>1, Zenon
    <3>5. pr.end <= Len(files'[L])
      BY ONLY <1>3, <2>2, <3>2, <3>3, <3>4
    <3>. QED
      BY <3>1, <3>5, Zenon
  <2>. QED
    BY <1>4, <2>1, <2>4, <2>5, <2>6, Zenon DEF WindowOK
<1>. QED
  BY <1>1, <1>6, <1>8, <1>9, Zenon DEF Inv

-----------------------------------------------------------------------------
(* The theorems *)

LEMMA NextInv == Inv /\ [Next]_vars => Inv'
<1>. SUFFICES ASSUME Inv, [Next]_vars PROVE Inv'
  OBVIOUS
<1>0. locked \in BOOLEAN
  BY Zenon DEF Inv, Types
<1>1. CASE UNCHANGED vars
  <2>1. /\ UNCHANGED <<fileVars, slices, prunedTo, truncated, preReader, readPanic>>
        /\ locked' \in BOOLEAN
    BY <1>0, <1>1 DEF vars, fileVars
  <2>. QED
    BY <2>1, StutterInv
<1>2. ASSUME NEW lens \in SliceLists, ~truncated, AppendSlices(lens) PROVE Inv'
  BY <1>2, AppendInv
<1>3. CASE Flush
  <2>1. /\ SameSegment(Flushed(Latest)) /\ locked' \in BOOLEAN
        /\ UNCHANGED <<preReader, readPanic, truncated, slices, prunedTo>>
    BY <1>0, <1>3, Zenon DEF Flush
  <2>. QED
    BY <2>1, FlushInv
<1>4. CASE FlushAsync
  <2>1. /\ UNCHANGED <<fileVars, slices, prunedTo, truncated, preReader, readPanic>>
        /\ locked' \in BOOLEAN
    BY <1>4 DEF FlushAsync
  <2>. QED
    BY <2>1, StutterInv
<1>5. CASE FlushAsyncDone
  <2>1. /\ SameSegment(Flushed(Latest)) /\ locked' \in BOOLEAN
        /\ UNCHANGED <<preReader, readPanic, truncated, slices, prunedTo>>
    BY <1>5 DEF FlushAsyncDone
  <2>. QED
    BY <2>1, FlushInv
<1>6. ASSUME NEW s \in Kept, OnDisk(s), ReadAtWithBuf(s.start, s.len) PROVE Inv'
  BY <1>6, ReadInv
<1>7. ASSUME NEW s \in Kept, PruneHead(s.start) PROVE Inv'
  BY <1>7, PruneInv
<1>8. ASSUME NEW s \in Kept, buffer = <<>>, Truncate(s.start) PROVE Inv'
  BY <1>8, TruncateInv
<1>9. CASE Reopen
  BY <1>9, ReopenInv
<1>. QED
  BY <1>1, <1>2, <1>3, <1>4, <1>5, <1>6, <1>7, <1>8, <1>9, Zenon DEF Next

\* The inductive invariant holds for every size of buffer, segment and window and all calls of
\* Append that fit them, whatever order of appends, flushes of both kinds, reads, prunings,
\* truncations and openings the callers of hpfile.go choose.
THEOREM Invariance == Spec => []Inv
<1>1. Init => Inv
  BY InitInv
<1>2. Inv /\ [Next]_vars => Inv'
  BY NextInv
<1>. QED
  BY <1>1, <1>2, PTL DEF Spec

\* No byte that the callers still want is lost or misplaced: not where Append splits a slice
\* at a full buffer, not where a slice crosses the end of a segment, and not by FlushAsync,
\* PruneHead, Truncate or opening the file again.
THEOREM NothingIsLost == Spec => []NothingLost
<1>1. Inv => NothingLost
  BY InvNothingLost
<1>. QED
  BY <1>1, Invariance, PTL

\* The window that readAtWithBuf keeps is never stale: no later Append, PruneHead or Truncate
\* makes TryRead return anything but the bytes of the slice.
THEOREM WindowStaysCurrent == Spec => []WindowIsCurrent
<1>1. Inv => WindowIsCurrent
  BY Zenon DEF Inv, WindowOK
<1>. QED
  BY <1>1, Invariance, PTL

=============================================================================
