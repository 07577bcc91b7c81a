-------------------------- MODULE EntryFile_proofs --------------------------
(***************************************************************************)
(* The entry file, for every size of cells, twigs, lists and channels and  *)
(* all entries that fit: what is written is read back, compaction moves    *)
(* the raw bytes of entries without losing or doubling one, and nothing    *)
(* but the end of a NextKey is taken for the start of an entry.            *)
(***************************************************************************)
EXTENDS EntryFile, FiniteSetTheorems, NaturalsInduction, SequenceTheorems,
        WellFoundedInduction, TLAPS

-----------------------------------------------------------------------------
(* Induction on numbers, without an operator as a parameter *)

LEMMA LeastNumber ==
    ASSUME NEW S \in SUBSET Nat, S # {}
    PROVE  \E m \in S : \A i \in S : m <= i
<1> DEFINE R == OpToRel(<, Nat)
<1>1. IsWellFoundedOn(R, Nat)
  BY NatLessThanWellFounded
<1>. HIDE DEF R
<1>2. PICK x \in S : \A y \in S : ~ (<<y, x>> \in R)
  BY <1>1, WFMin
<1>3. \A y \in S : ~ (y < x)
  BY <1>2, Zenon DEF OpToRel, R
<1>4. \A y \in S : x <= y
  BY <1>3
<1>. QED
  BY <1>4

\* A set that holds 0 and with every number the next one holds all of them.
LEMMA SetInduction ==
    ASSUME NEW n \in Nat, NEW S, 0 \in S, \A i \in 1..n : i - 1 \in S => i \in S
    PROVE  \A i \in 0..n : i \in S
<1> DEFINE B == {i \in 0..n : i \notin S}
<1>. SUFFICES ASSUME B # {} PROVE FALSE
  OBVIOUS
<1>1. PICK m \in B : \A i \in B : m <= i
  <2>1. B \in SUBSET Nat
    OBVIOUS
  <2>. HIDE DEF B
  <2>. QED
    BY <2>1, LeastNumber
<1>2. m \in 1..n /\ m - 1 \in 0..n /\ ~(m <= m - 1)
  BY <1>1
<1>3. m - 1 \in S
  BY <1>1, <1>2
<1>. QED
  BY <1>1, <1>2, <1>3

\* A function on 0..n can be defined from its value at 0, each value from the one before.
IsRecursion(g, n, S, base, F) ==
    g \in [0..n -> S] /\ g[0] = base /\ \A i \in 1..n : g[i] = F[<<g[i - 1], i>>]

LEMMA RecursionExists ==
    ASSUME NEW n, n \in Nat, NEW S, NEW base, base \in S, NEW F, F \in [S \X (1..n) -> S]
    PROVE  \E g : IsRecursion(g, n, S, base, F)
<1> DEFINE Good(m, g) == g[0] = base /\ \A i \in 1..m : g[i] = F[<<g[i - 1], i>>]
           T == {m \in 0..n : \E g \in [0..m -> S] : Good(m, g)}
<1>1. 0 \in T
  <2>1. [i \in 0..0 |-> base] \in [0..0 -> S] /\ Good(0, [i \in 0..0 |-> base])
    OBVIOUS
  <2>2. 0 \in 0..n
    OBVIOUS
  <2>. HIDE DEF Good
  <2>. QED
    BY <2>1, <2>2
<1>2. ASSUME NEW m \in 1..n, m - 1 \in T PROVE m \in T
  <2>1. PICK g \in [0..m - 1 -> S] : Good(m - 1, g)
    BY <1>2
  <2> DEFINE h == [i \in 0..m |-> IF i = m THEN F[<<g[m - 1], m>>] ELSE g[i]]
  <2>2. F[<<g[m - 1], m>>] \in S
    OBVIOUS
  <2>3. h \in [0..m -> S]
    BY <2>2
  <2>4. Good(m, h)
    <3>1. h[0] = base
      BY <2>1
    <3>2. ASSUME NEW i \in 1..m PROVE h[i] = F[<<h[i - 1], i>>]
      <4>1. h[i - 1] = g[i - 1]
        OBVIOUS
      <4>2. CASE i = m
        <5>1. h[m] = F[<<g[m - 1], m>>]
          OBVIOUS
        <5>. HIDE DEF h
        <5>. QED
          BY <4>1, <4>2, <5>1
      <4>3. CASE i # m
        <5>1. i \in 1..m - 1 /\ h[i] = g[i]
          BY <4>3
        <5>. QED
          BY <2>1, <4>1, <5>1
      <4>. QED
        BY <4>2, <4>3
    <3>. QED
      BY <3>1, <3>2
  <2>. HIDE DEF Good, h
  <2>. QED
    BY <2>3, <2>4
<1>. HIDE DEF T
<1>3. n \in T
  BY <1>1, <1>2, SetInduction
<1>. QED
  BY <1>3 DEF T, IsRecursion

-----------------------------------------------------------------------------
(* Numbers in the file *)

LEMMA BaseFacts == Base \in Nat /\ Base >= 64 /\ Base % 2 = 0
BY EntryFileAssumption, Zenon

LEMMA CellFacts ==
    /\ FF \in Nat /\ FF >= 63 /\ FF = Base - 1
    /\ \A x : x \in Cell <=> x \in Nat /\ x <= FF
    /\ 0 \in Cell /\ 1 \in Cell /\ 2 \in Cell /\ FF \in Cell /\ FF - 1 \in Cell
BY BaseFacts DEF Cell, FF

\* Division with remainder, and how it bounds the quotient.
LEMMA DivMod ==
    ASSUME NEW v \in Int
    PROVE  /\ v \div Base \in Int /\ v % Base \in Cell
           /\ v % Base = v - Base * (v \div Base)
<1>1. Base \in Nat /\ Base > 0
  BY BaseFacts
<1>2. v \div Base \in Int
  BY ONLY <1>1, v \in Int
<1>3. v % Base \in 0..Base - 1
  BY ONLY <1>1, v \in Int
<1>4. v % Base = v - Base * (v \div Base)
  BY ONLY <1>1, v \in Int
<1>. QED
  BY <1>2, <1>3, <1>4, Zenon DEF Cell

LEMMA QuotientBelow ==
    ASSUME NEW B \in Nat, B > 0, NEW q \in Int, NEW r \in Nat, r < B, NEW x \in Int
    PROVE  /\ B * q + r < B * x => q < x
           /\ B * q + r >= B * x => q >= x
<1>1. ASSUME q >= x PROVE B * q + r >= B * x
  <2>1. B * (q - x) >= 0
    BY <1>1
  <2>2. B * (q - x) = B * q - B * x /\ B * q \in Int /\ B * x \in Int
    OBVIOUS
  <2>. QED
    BY ONLY <2>1, <2>2, r \in Nat
<1>2. ASSUME q < x PROVE B * q + r < B * x
  <2>1. B * (x - 1 - q) >= 0
    BY <1>2
  <2>2. B * (x - 1 - q) = B * x - B - B * q /\ B * q \in Int /\ B * x \in Int
    OBVIOUS
  <2>. QED
    BY ONLY <2>1, <2>2, r \in Nat, r < B, B \in Nat
<1>3. B * q \in Int /\ B * x \in Int
  OBVIOUS
<1>. QED
  BY <1>1, <1>2, <1>3

\* Quotient and remainder are determined by their ranges.
LEMMA DivModUnique ==
    ASSUME NEW q \in Int, NEW r \in Cell
    PROVE  (Base * q + r) \div Base = q /\ (Base * q + r) % Base = r
<1> DEFINE v == Base * q + r
           p == v \div Base
           t == v % Base
<1>1. Base \in Nat /\ Base > 0 /\ r \in Nat /\ r < Base /\ r \in Int
  BY BaseFacts DEF Cell
<1>2. v \in Int
  BY ONLY <1>1, q \in Int
<1>a. p \in Int /\ t \in Cell /\ t = v - Base * p
  BY <1>2, DivMod, Zenon
<1>4. v = Base * q + r
  OBVIOUS
<1>. HIDE DEF v, p, t
<1>3. p \in Int /\ t \in Nat /\ t < Base /\ v = Base * p + t
  <2>1. t \in Nat /\ t < Base
    BY <1>1, <1>a DEF Cell
  <2>. QED
    BY ONLY <1>1, <1>2, <1>a, <2>1
<1>5. Base * p \in Int /\ Base * q \in Int /\ Base * (q + 1) = Base * q + Base /\ Base * (p + 1) = Base * p + Base
  BY ONLY <1>1, <1>3, q \in Int
<1>6. p < q + 1
  <2>1. Base * p + t < Base * (q + 1)
    BY ONLY <1>1, <1>3, <1>4, <1>5
  <2>. QED
    BY <1>1, <1>3, <2>1, QuotientBelow
<1>7. q < p + 1
  <2>1. Base * q + r < Base * (p + 1)
    BY ONLY <1>1, <1>3, <1>4, <1>5
  <2>. QED
    BY <1>1, <1>3, <2>1, QuotientBelow
<1>8. p = q
  BY ONLY <1>3, <1>6, <1>7, q \in Int
<1>9. t = r
  BY ONLY <1>1, <1>3, <1>4, <1>5, <1>8
<1>. QED
  BY <1>8, <1>9, Zenon DEF p, t, v

LEMMA Uint32RoundTrip ==
    ASSUME NEW v \in Nat, v < Base * Base
    PROVE  /\ PutUint32(v) \in Seq(Cell) /\ Len(PutUint32(v)) = 2
           /\ PutUint32(v)[1] + Base * PutUint32(v)[2] = v
<1> DEFINE q == v \div Base
           r == v % Base
<1>1. Base \in Nat /\ Base > 0
  BY BaseFacts
<1>a. q \in Int /\ r \in Cell /\ r = v - Base * q
  <2>. v \in Int
    OBVIOUS
  <2>. QED
    BY DivMod, Zenon
<1>3. PutUint32(v) = <<r, q % Base>>
  BY DEF PutUint32
<1>. HIDE DEF q, r
<1>4. r \in Nat /\ r < Base
  BY <1>1, <1>a DEF Cell
<1>2. q \in Int /\ r \in Cell /\ v = Base * q + r
  BY ONLY <1>1, <1>4, <1>a, v \in Nat
<1>5. q < Base
  BY ONLY <1>1, <1>2, <1>4, QuotientBelow, v < Base * Base
<1>6. q >= 0
  <2>1. Base * q + r >= Base * 0
    BY ONLY <1>1, <1>2, v \in Nat
  <2>. QED
    BY ONLY <1>1, <1>2, <1>4, <2>1, QuotientBelow
<1>7. q \in Cell
  BY <1>1, <1>2, <1>5, <1>6 DEF Cell
<1>8. q % Base = q
  <2>1. Base * 0 + q = q
    BY ONLY <1>1, <1>2
  <2>. QED
    BY <1>7, <2>1, DivModUnique
<1>9. PutUint32(v) = <<r, q>>
  BY <1>3, <1>8, Zenon
<1>10. <<r, q>> \in Seq(Cell) /\ Len(<<r, q>>) = 2
  BY ONLY <1>2, <1>7
<1>11. <<r, q>>[1] + Base * <<r, q>>[2] = v
  BY ONLY <1>1, <1>2, <1>4, <1>7
<1>. QED
  BY <1>9, <1>10, <1>11, Zenon

\* The quotient of a number is within the bounds of the number, divided.
LEMMA QuotientBounds ==
    ASSUME NEW v \in Int, NEW x \in Nat, v < Base * x, v >= -(Base * x)
    PROVE  LET q == v \div Base
               r == v % Base
           IN  q \in Int /\ r \in Cell /\ v = Base * q + r /\ q < x /\ q >= -x
<1> DEFINE q == v \div Base
           r == v % Base
<1>1. Base \in Nat /\ Base > 0
  BY BaseFacts
<1>2. q \in Int /\ r \in Cell /\ r = v - Base * q
  BY DivMod, Zenon
<1>. HIDE DEF q, r
<1>3. r \in Nat /\ r < Base
  BY <1>1, <1>2 DEF Cell
<1>4. v = Base * q + r
  BY ONLY <1>1, <1>2, <1>3, v \in Int
<1>5. q < x
  BY ONLY <1>1, <1>2, <1>3, <1>4, x \in Nat, v < Base * x, QuotientBelow
<1>6. q >= -x
  <2>1. -(Base * x) = Base * (-x) /\ -x \in Int
    BY ONLY <1>1, x \in Nat
  <2>2. Base * q + r >= Base * (-x)
    BY <1>4, <2>1
  <2>. QED
    BY ONLY <1>1, <1>2, <1>3, <2>1, <2>2, QuotientBelow
<1>. QED
  BY <1>2, <1>4, <1>5, <1>6, Zenon DEF q, r

LEMMA Int64RoundTrip ==
    ASSUME NEW v \in Int64s
    PROVE  /\ PutUint64(v) \in Seq(Cell) /\ Len(PutUint64(v)) = 4
           /\ Int64(PutUint64(v)) = v
<1> DEFINE h == Base \div 2
           x1 == Base * h
           x2 == Base * x1
           q1 == v \div Base
           q2 == q1 \div Base
           q3 == q2 \div Base
           r1 == v % Base
           r2 == q1 % Base
           r3 == q2 % Base
           r4 == q3 % Base
<1>1. Base \in Nat /\ Base > 0 /\ Base = 2 * h /\ h \in Nat
  BY BaseFacts
<1>2. x1 \in Nat /\ x2 \in Nat
  <2>. HIDE DEF h
  <2>1. x1 \in Nat
    BY ONLY <1>1
  <2>. HIDE DEF x1
  <2>. QED
    BY ONLY <1>1, <2>1
<1>3. v \in Int /\ v < Base * x2 /\ v >= -(Base * x2)
  <2>1. MaxInt64 = Base * x2 - 1
    BY DEF MaxInt64
  <2>. HIDE DEF h, x1, x2
  <2>2. Base * x2 \in Nat
    BY ONLY <1>1, <1>2
  <2>. QED
    BY <2>1, <2>2 DEF Int64s
<1>4. PutUint64(v) = <<r1, r2, r3, r4>>
  BY DEF PutUint64
<1>5. q1 \in Int /\ r1 \in Cell /\ v = Base * q1 + r1 /\ q1 < x2 /\ q1 >= -x2
  BY <1>2, <1>3, QuotientBounds, Zenon
<1>6. q2 \in Int /\ r2 \in Cell /\ q1 = Base * q2 + r2 /\ q2 < x1 /\ q2 >= -x1
  BY <1>2, <1>5, QuotientBounds, Zenon
<1>7. q3 \in Int /\ r3 \in Cell /\ q2 = Base * q3 + r3 /\ q3 < h /\ q3 >= -h
  BY <1>1, <1>2, <1>6, QuotientBounds, Zenon
<1>8. r4 \in Cell /\ q3 = IF 2 * r4 < Base THEN r4 ELSE r4 - Base
  <2>. HIDE DEF h, q3
  <2>1. CASE q3 >= 0
    <3>1. q3 \in Cell /\ Base * 0 + q3 = q3
      BY <1>1, <1>7, <2>1 DEF Cell
    <3>2. r4 = q3
      BY <3>1, DivModUnique
    <3>. QED
      BY <1>1, <1>7, <3>1, <3>2
  <2>2. CASE q3 < 0
    <3>1. q3 + Base \in Cell /\ Base * (-1) + (q3 + Base) = q3 /\ -1 \in Int
      BY <1>1, <1>7, <2>2 DEF Cell
    <3>2. (Base * (-1) + (q3 + Base)) % Base = q3 + Base
      BY ONLY <3>1, DivModUnique
    <3>3. r4 = q3 + Base
      BY <3>1, <3>2, Zenon
    <3>. HIDE DEF r4
    <3>. QED
      BY <1>1, <1>7, <2>2, <3>1, <3>3
  <2>. QED
    BY <1>7, <2>1, <2>2
<1>. HIDE DEF h, x1, x2, q1, q2, q3, r1, r2, r3, r4
<1>9. <<r1, r2, r3, r4>> \in Seq(Cell) /\ Len(<<r1, r2, r3, r4>>) = 4
  BY ONLY <1>5, <1>6, <1>7, <1>8
<1>10. Int64(<<r1, r2, r3, r4>>) = r1 + Base * (r2 + Base * (r3 + Base * q3))
  BY ONLY <1>8 DEF Int64
<1>11. /\ Base * q3 \in Int /\ Base * q2 \in Int /\ Base * q1 \in Int
       /\ r1 \in Int /\ r2 \in Int /\ r3 \in Int
  BY <1>1, <1>5, <1>6, <1>7 DEF Cell
<1>12. r3 + Base * q3 = q2
  BY ONLY <1>7, <1>11
<1>13. r2 + Base * q2 = q1
  BY ONLY <1>6, <1>11
<1>14. r1 + Base * q1 = v
  BY ONLY <1>5, <1>11
<1>. QED
  BY <1>4, <1>9, <1>10, <1>12, <1>13, <1>14, Zenon

-----------------------------------------------------------------------------
(* Sequences of cells *)

\* Behind its first p cells, b holds s.
Holds(b, p, s) == p + Len(s) <= Len(b) /\ \A i \in 1..Len(s) : b[p + i] = s[i]

LEMMA LenNat ==
    ASSUME NEW s \in Seq(Cell)
    PROVE  Len(s) \in Nat /\ \A i \in 1..Len(s) : s[i] \in Cell
BY LenProperties, ElementOfSeq

\* A sequence given by its elements.
LEMMA MakeSeq ==
    ASSUME NEW n \in Nat, NEW S, NEW f \in [1..n -> S]
    PROVE  f \in Seq(S) /\ Len(f) = n
<1>1. f \in Seq(S)
  BY SeqDef
<1>2. Len(f) \in Nat /\ DOMAIN f = 1..Len(f)
  BY <1>1, LenProperties
<1>. QED
  BY <1>1, <1>2

LEMMA ZerosProp ==
    ASSUME NEW n \in Nat
    PROVE  Zeros(n) \in Seq(Cell) /\ Len(Zeros(n)) = n /\ \A i \in 1..n : Zeros(n)[i] = 0
<1>1. 0 \in Cell
  BY CellFacts
<1> DEFINE z == Zeros(n)
<1>2. z = [i \in 1..n |-> 0]
  BY Zenon DEF Zeros
<1>. HIDE DEF z
<1>3. z \in [1..n -> Cell] /\ \A i \in 1..n : z[i] = 0
  BY <1>1, <1>2, Zenon
<1>4. z \in Seq(Cell) /\ Len(z) = n
  BY <1>3, MakeSeq, Zenon
<1>. QED
  BY <1>3, <1>4, Zenon DEF z

LEMMA ConcatHolds ==
    ASSUME NEW s \in Seq(Cell), NEW t \in Seq(Cell)
    PROVE  /\ s \o t \in Seq(Cell) /\ Len(s \o t) = Len(s) + Len(t)
           /\ Holds(s \o t, 0, s) /\ Holds(s \o t, Len(s), t)
<1> DEFINE m == Len(s)
           n == Len(t)
           u == s \o t
<1>1. m \in Nat /\ n \in Nat
  BY LenProperties
<1>2. /\ u \in Seq(Cell) /\ Len(u) = m + n
      /\ \A i \in 1..(m + n) : u[i] = IF i <= m THEN s[i] ELSE t[i - m]
  BY ConcatProperties
<1>. HIDE DEF m, n, u
<1>3. ASSUME NEW i \in 1..m PROVE u[0 + i] = s[i]
  <2>1. i \in 1..(m + n) /\ i <= m /\ 0 + i = i
    BY ONLY <1>1, i \in 1..m
  <2>. QED
    BY <1>2, <2>1, Zenon
<1>4. ASSUME NEW i \in 1..n PROVE u[m + i] = t[i]
  <2>1. /\ m + i \in 1..(m + n) /\ ~(m + i <= m)
        /\ (m + i) - m = i
    BY ONLY <1>1, i \in 1..n
  <2>2. u[m + i] = t[(m + i) - m]
    BY <1>2, <2>1, Zenon
  <2>. QED
    BY <2>1, <2>2, Zenon
<1>5. 0 + m <= m + n /\ m + n <= m + n
  BY ONLY <1>1
<1>. QED
  BY <1>2, <1>3, <1>4, <1>5, Zenon DEF Holds, m, n, u

LEMMA HoldsTrans ==
    ASSUME NEW b \in Seq(Cell), NEW s \in Seq(Cell), NEW t \in Seq(Cell),
           NEW p \in Nat, NEW q \in Nat, Holds(b, p, s), Holds(s, q, t)
    PROVE  Holds(b, p + q, t)
<1> DEFINE n == Len(t)
           m == Len(s)
           k == Len(b)
<1>1. n \in Nat /\ m \in Nat /\ k \in Nat
  BY LenNat, Zenon
<1>2. p + m <= k /\ \A i \in 1..m : b[p + i] = s[i]
  BY Zenon DEF Holds
<1>3. q + n <= m /\ \A i \in 1..n : s[q + i] = t[i]
  BY Zenon DEF Holds
<1>. HIDE DEF n, m, k
<1>4. p + q + n <= k
  BY ONLY <1>1, <1>2, <1>3, p \in Nat, q \in Nat
<1>5. ASSUME NEW i \in 1..n PROVE b[p + q + i] = t[i]
  <2>1. q + i \in 1..m /\ p + q + i = p + (q + i)
    BY ONLY <1>1, <1>3, p \in Nat, q \in Nat, i \in 1..n
  <2>2. b[p + (q + i)] = s[q + i]
    BY <1>2, <2>1, Zenon
  <2>. QED
    BY <1>3, <2>1, <2>2, Zenon
<1>. QED
  BY <1>4, <1>5, Zenon DEF Holds, n, m, k

LEMMA ConcatKeeps ==
    ASSUME NEW s \in Seq(Cell), NEW u \in Seq(Cell), NEW t \in Seq(Cell),
           NEW q \in Nat, Holds(s, q, t)
    PROVE  Holds(s \o u, q, t)
<1>1. s \o u \in Seq(Cell) /\ Holds(s \o u, 0, s)
  BY ConcatHolds, Zenon
<1>2. Holds(s \o u, 0 + q, t)
  <2>1. 0 \in Nat
    OBVIOUS
  <2>. QED
    BY <1>1, <2>1, HoldsTrans, Zenon
<1>3. 0 + q = q
  OBVIOUS
<1>. QED
  BY <1>2, <1>3, Zenon

LEMMA SliceFacts ==
    ASSUME NEW b \in Seq(Cell), NEW p \in Nat, NEW q \in Nat, p <= q, q <= Len(b)
    PROVE  /\ Slice(b, p, q) \in Seq(Cell) /\ Len(Slice(b, p, q)) = q - p
           /\ \A i \in 1..(q - p) : Slice(b, p, q)[i] = b[p + i]
<1> DEFINE k == Len(b)
           f == [i \in 1..(q - p) |-> b[p + i]]
<1>1. k \in Nat /\ \A i \in 1..k : b[i] \in Cell
  BY LenNat, Zenon
<1>2. Slice(b, p, q) = SubSeq(b, p + 1, q)
  BY DEF Slice
<1>3. SubSeq(b, p + 1, q) = [i \in 1..(q - (p + 1) + 1) |-> b[i + (p + 1) - 1]]
  BY DEF SubSeq
<1>4. q <= k
  OBVIOUS
<1>. HIDE DEF k
<1>5. q - p \in Nat /\ q - (p + 1) + 1 = q - p
  BY ONLY p \in Nat, q \in Nat, p <= q
<1>6. \A i \in 1..(q - p) : i + (p + 1) - 1 = p + i /\ p + i \in 1..k
  BY ONLY <1>1, <1>4, p \in Nat, q \in Nat, p <= q
<1>7. SubSeq(b, p + 1, q) = f
  <2>1. [i \in 1..(q - (p + 1) + 1) |-> b[i + (p + 1) - 1]]
            = [i \in 1..(q - p) |-> b[i + (p + 1) - 1]]
    BY <1>5, Zenon
  <2>2. [i \in 1..(q - p) |-> b[i + (p + 1) - 1]] = f
    BY <1>6, Zenon
  <2>. QED
    BY <1>3, <2>1, <2>2, Zenon
<1>8. f \in [1..(q - p) -> Cell] /\ \A i \in 1..(q - p) : f[i] = b[p + i]
  BY <1>1, <1>6, Zenon
<1>. HIDE DEF f
<1>9. f \in Seq(Cell) /\ Len(f) = q - p
  BY <1>5, <1>8, MakeSeq
<1>. QED
  BY <1>2, <1>7, <1>8, <1>9, Zenon

LEMMA SliceHolds ==
    ASSUME NEW b \in Seq(Cell), NEW s \in Seq(Cell), NEW p \in Nat, Holds(b, p, s),
           NEW q, q = p + Len(s)
    PROVE  Slice(b, p, q) = s
<1> DEFINE n == Len(s)
           t == Slice(b, p, q)
<1>1. n \in Nat /\ Len(b) \in Nat
  BY LenNat, Zenon
<1>2. p + n <= Len(b) /\ \A i \in 1..n : b[p + i] = s[i]
  BY Zenon DEF Holds
<1>3. q = p + n
  OBVIOUS
<1>. HIDE DEF n
<1>4. q \in Nat /\ p <= q /\ q <= Len(b) /\ q - p = n
  BY ONLY <1>1, <1>2, <1>3, p \in Nat
<1>5. t \in Seq(Cell) /\ Len(t) = n /\ \A i \in 1..n : t[i] = b[p + i]
  BY <1>4, SliceFacts, Zenon
<1>. HIDE DEF t
<1>6. \A i \in 1..n : t[i] = s[i]
  BY <1>2, <1>5, Zenon
<1>7. t = s
  BY <1>5, <1>6, SeqEqual, Zenon DEF n
<1>. QED
  BY <1>7 DEF t

LEMMA HoldsSlice ==
    ASSUME NEW b \in Seq(Cell), NEW p \in Nat, NEW q \in Nat, p <= q, q <= Len(b)
    PROVE  Holds(b, p, Slice(b, p, q))
<1> DEFINE t == Slice(b, p, q)
<1>1. t \in Seq(Cell) /\ Len(t) = q - p /\ \A i \in 1..(q - p) : t[i] = b[p + i]
  BY SliceFacts, Zenon
<1>. HIDE DEF t
<1>2. p + (q - p) <= Len(b)
  OBVIOUS
<1>3. Holds(b, p, t)
  BY <1>1, <1>2, Zenon DEF Holds
<1>. QED
  BY <1>3 DEF t

LEMMA Concat3 ==
    ASSUME NEW a \in Seq(Cell), NEW b \in Seq(Cell), NEW c \in Seq(Cell)
    PROVE  LET x == a \o b \o c
           IN  /\ x \in Seq(Cell) /\ Len(x) = Len(a) + Len(b) + Len(c)
               /\ Holds(x, 0, a) /\ Holds(x, Len(a), b) /\ Holds(x, Len(a) + Len(b), c)
<1> DEFINE y == a \o b
           x == y \o c
<1>1. Len(a) \in Nat /\ 0 \in Nat
  BY LenNat
<1>2. /\ y \in Seq(Cell) /\ Len(y) = Len(a) + Len(b)
      /\ Holds(y, 0, a) /\ Holds(y, Len(a), b)
  BY ConcatHolds, Zenon
<1>. HIDE DEF y
<1>3. /\ x \in Seq(Cell) /\ Len(x) = Len(y) + Len(c) /\ Holds(x, Len(y), c)
  BY <1>2, ConcatHolds, Zenon
<1>4. Holds(x, 0, a) /\ Holds(x, Len(a), b)
  BY <1>1, <1>2, ConcatKeeps, Zenon
<1>. QED
  BY <1>2, <1>3, <1>4, Zenon DEF y

\* A list of serial numbers, each at its place.
LEMMA ListLayout ==
    ASSUME NEW l \in Seq(Int64s)
    PROVE  /\ SNListToBytes(l) \in Seq(Cell) /\ Len(SNListToBytes(l)) = 4 * Len(l)
           /\ \A j \in 1..Len(l) : Holds(SNListToBytes(l), 4 * (j - 1), PutUint64(l[j]))
<1> DEFINE n == Len(l)
           f == [i \in 1..4 * n |-> PutUint64(l[(i + 3) \div 4])[((i - 1) % 4) + 1]]
<1>1. n \in Nat /\ \A j \in 1..n : l[j] \in Int64s
  BY LenProperties, ElementOfSeq
<1>2. SNListToBytes(l) = f
  BY DEF SNListToBytes
<1>3. \A j \in 1..n : PutUint64(l[j]) \in Seq(Cell) /\ Len(PutUint64(l[j])) = 4
  BY <1>1, Int64RoundTrip, Zenon
<1>. HIDE DEF n
<1>4. ASSUME NEW i \in 1..4 * n
      PROVE  (i + 3) \div 4 \in 1..n /\ ((i - 1) % 4) + 1 \in 1..4
  BY ONLY <1>1, i \in 1..4 * n
<1>5. 4 * n \in Nat
  BY ONLY <1>1
<1>6. f \in [1..4 * n -> Cell]
  <2>1. ASSUME NEW i \in 1..4 * n PROVE PutUint64(l[(i + 3) \div 4])[((i - 1) % 4) + 1] \in Cell
    BY <1>3, <1>4, LenNat, Zenon
  <2>. QED
    BY <2>1, Zenon
<1>7. \A i \in 1..4 * n : f[i] = PutUint64(l[(i + 3) \div 4])[((i - 1) % 4) + 1]
  BY Zenon
<1>. HIDE DEF f
<1>8. f \in Seq(Cell) /\ Len(f) = 4 * n
  BY <1>5, <1>6, MakeSeq, Zenon
<1>9. ASSUME NEW j \in 1..n PROVE Holds(f, 4 * (j - 1), PutUint64(l[j]))
  <2>1. 4 * (j - 1) + 4 <= 4 * n
    BY ONLY <1>1, j \in 1..n
  <2>2. ASSUME NEW i \in 1..4 PROVE f[4 * (j - 1) + i] = PutUint64(l[j])[i]
    <3> DEFINE m == 4 * (j - 1) + i
    <3>1. m \in 1..4 * n /\ (m + 3) \div 4 = j /\ ((m - 1) % 4) + 1 = i
      BY ONLY <1>1, j \in 1..n, i \in 1..4
    <3>. HIDE DEF m
    <3>2. f[m] = PutUint64(l[j])[i]
      BY <1>7, <3>1, Zenon
    <3>. QED
      BY <3>2 DEF m
  <2>. QED
    BY <1>3, <1>8, <2>1, <2>2, Zenon DEF Holds
<1>. QED
  BY <1>2, <1>8, <1>9, Zenon DEF n

LEMMA WordsLayout ==
    ASSUME NEW l \in Seq(0..(Base * Base - 1))
    PROVE  /\ Words(l) \in Seq(Cell) /\ Len(Words(l)) = 2 * Len(l)
           /\ \A j \in 1..Len(l) : Holds(Words(l), 2 * (j - 1), PutUint32(l[j]))
<1> DEFINE n == Len(l)
           f == [i \in 1..2 * n |-> PutUint32(l[(i + 1) \div 2])[((i - 1) % 2) + 1]]
<1>1. n \in Nat /\ \A j \in 1..n : l[j] \in 0..(Base * Base - 1)
  BY LenProperties, ElementOfSeq
<1>2. Words(l) = f
  BY DEF Words
<1>3. \A j \in 1..n : PutUint32(l[j]) \in Seq(Cell) /\ Len(PutUint32(l[j])) = 2
  <2>1. ASSUME NEW v \in 0..(Base * Base - 1) PROVE v \in Nat /\ v < Base * Base
    <3>1. Base * Base \in Nat
      BY BaseFacts
    <3>. QED
      BY ONLY <3>1, v \in 0..(Base * Base - 1)
  <2>. QED
    BY <1>1, <2>1, Uint32RoundTrip, Zenon
<1>. HIDE DEF n
<1>4. ASSUME NEW i \in 1..2 * n
      PROVE  (i + 1) \div 2 \in 1..n /\ ((i - 1) % 2) + 1 \in 1..2
  BY ONLY <1>1, i \in 1..2 * n
<1>5. 2 * n \in Nat
  BY ONLY <1>1
<1>6. f \in [1..2 * n -> Cell]
  <2>1. ASSUME NEW i \in 1..2 * n PROVE PutUint32(l[(i + 1) \div 2])[((i - 1) % 2) + 1] \in Cell
    BY <1>3, <1>4, LenNat, Zenon
  <2>. QED
    BY <2>1, Zenon
<1>7. \A i \in 1..2 * n : f[i] = PutUint32(l[(i + 1) \div 2])[((i - 1) % 2) + 1]
  BY Zenon
<1>. HIDE DEF f
<1>8. f \in Seq(Cell) /\ Len(f) = 2 * n
  BY <1>5, <1>6, MakeSeq, Zenon
<1>9. ASSUME NEW j \in 1..n PROVE Holds(f, 2 * (j - 1), PutUint32(l[j]))
  <2>1. 2 * (j - 1) + 2 <= 2 * n
    BY ONLY <1>1, j \in 1..n
  <2>2. ASSUME NEW i \in 1..2 PROVE f[2 * (j - 1) + i] = PutUint32(l[j])[i]
    <3> DEFINE m == 2 * (j - 1) + i
    <3>1. m \in 1..2 * n /\ (m + 1) \div 2 = j /\ ((m - 1) % 2) + 1 = i
      BY ONLY <1>1, j \in 1..n, i \in 1..2
    <3>. HIDE DEF m
    <3>2. f[m] = PutUint32(l[j])[i]
      BY <1>7, <3>1, Zenon
    <3>. QED
      BY <3>2 DEF m
  <2>. QED
    BY <1>3, <1>8, <2>1, <2>2, Zenon DEF Holds
<1>. QED
  BY <1>2, <1>8, <1>9, Zenon DEF n

-----------------------------------------------------------------------------
(* The search for MagicBytes *)

\* One step of the search, at the cell with number i - 1.
PosStep(s, found, i) ==
    LET start == IF found = <<>> THEN 0 ELSE found[Len(found)] + 4
    IN  IF start <= i - 1 /\ start + 4 < Len(s) /\ HasMagicAt(s, i - 1)
        THEN Append(found, i - 1) ELSE found

IsSearch(s, g) ==
    /\ g \in [0..Len(s) -> Seq(Nat)] /\ g[0] = <<>>
    /\ \A i \in 1..Len(s) : g[i] = PosStep(s, g[i - 1], i)
    /\ getAllPos(s) = g[Len(s)]

LEMMA SearchDef ==
    ASSUME NEW s \in Seq(Cell)
    PROVE  \E g : IsSearch(s, g)
<1> DEFINE n == Len(s)
           F == [p \in Seq(Nat) \X (1..n) |-> PosStep(s, p[1], p[2])]
           Rec(u) == [i \in 0..n |-> IF i = 0 THEN <<>> ELSE PosStep(s, u[i - 1], i)]
           h == CHOOSE u : u = Rec(u)
<1>1. n \in Nat
  BY LenNat
<1>2. ASSUME NEW x \in Seq(Nat), NEW i \in 1..n PROVE PosStep(s, x, i) \in Seq(Nat)
  <2>1. i - 1 \in Nat
    BY <1>1
  <2>2. Append(x, i - 1) \in Seq(Nat)
    BY <2>1, AppendProperties
  <2>. QED
    BY <2>2, Zenon DEF PosStep
<1>3. getAllPos(s) = h[n]
  BY DEF getAllPos, PosStep
<1>. HIDE DEF n
<1>4. \A x \in Seq(Nat), i \in 1..n : F[<<x, i>>] = PosStep(s, x, i)
  OBVIOUS
<1>5. F \in [Seq(Nat) \X (1..n) -> Seq(Nat)]
  BY ONLY <1>2
<1>. HIDE DEF F
<1>6. <<>> \in Seq(Nat)
  OBVIOUS
<1>7. PICK g : IsRecursion(g, n, Seq(Nat), <<>>, F)
  BY ONLY <1>1, <1>5, <1>6, RecursionExists
<1>8. /\ g \in [0..n -> Seq(Nat)] /\ g[0] = <<>>
      /\ \A i \in 1..n : g[i] = F[<<g[i - 1], i>>]
  BY <1>7, Zenon DEF IsRecursion
<1>9. g = Rec(g)
  <2>1. ASSUME NEW i \in 1..n PROVE g[i] = PosStep(s, g[i - 1], i)
    <3>1. i - 1 \in 0..n
      BY ONLY <1>1, i \in 1..n
    <3>2. g[i - 1] \in Seq(Nat)
      BY <1>8, <3>1, Zenon
    <3>. QED
      BY <1>4, <1>8, <3>2, Zenon
  <2>2. ASSUME NEW i \in 0..n
        PROVE  g[i] = IF i = 0 THEN <<>> ELSE PosStep(s, g[i - 1], i)
    <3>1. i = 0 \/ (i \in 1..n /\ i # 0)
      BY ONLY <1>1, i \in 0..n
    <3>. QED
      BY <1>8, <2>1, <3>1, Zenon
  <2>3. g \in [0..n -> Seq(Nat)]
    BY <1>8, Zenon
  <2>. QED
    BY ONLY <2>2, <2>3
<1>10. h = Rec(h)
  <2>. HIDE DEF Rec
  <2>. QED
    BY ONLY <1>9, Zenon
<1>. HIDE DEF h
<1>11. \A i \in 0..n : h[i] = IF i = 0 THEN <<>> ELSE PosStep(s, h[i - 1], i)
  BY ONLY <1>10
<1>12. 0 \in 0..n /\ \A i \in 1..n : i \in 0..n /\ i # 0
  BY ONLY <1>1
<1>13. h[0] = <<>> /\ \A i \in 1..n : h[i] = PosStep(s, h[i - 1], i)
  BY <1>11, <1>12, Zenon
<1>14. \A i \in 0..n : h[i] \in Seq(Nat)
  <2> DEFINE T == {i \in 0..n : h[i] \in Seq(Nat)}
  <2>1. 0 \in T
    BY <1>6, <1>12, <1>13, Zenon
  <2>2. ASSUME NEW i \in 1..n, i - 1 \in T PROVE i \in T
    BY <1>2, <1>12, <1>13, <2>2, Zenon
  <2>. HIDE DEF T
  <2>3. \A i \in 0..n : i \in T
    BY ONLY <1>1, <2>1, <2>2, SetInduction
  <2>. QED
    BY ONLY <2>3 DEF T
<1>15. h \in [0..n -> Seq(Nat)]
  BY ONLY <1>10, <1>14
<1>16. IsSearch(s, h)
  BY <1>3, <1>13, <1>15, Zenon DEF IsSearch, n
<1>. QED
  BY <1>16, Zenon

\* The first i steps have found places with MagicBytes that do not overlap, and all of them
\* but those that overlap with another one or end the sequence.
Found(s, q, i) ==
    /\ q \in Seq(Nat)
    /\ \A a \in 1..Len(q) : /\ q[a] < i /\ q[a] + 4 <= Len(s) /\ HasMagicAt(s, q[a])
                            /\ 4 * (a - 1) <= q[a]
    /\ \A a, b \in 1..Len(q) : a < b => q[a] + 4 <= q[b]
    /\ \A p \in 0..(i - 1) : HasMagicAt(s, p) =>
          p + 4 >= Len(s) \/ \E a \in 1..Len(q) : q[a] <= p /\ p < q[a] + 4

LEMMA FoundStep ==
    ASSUME NEW s \in Seq(Cell), NEW q, NEW i \in 1..Len(s), Found(s, q, i - 1)
    PROVE  Found(s, PosStep(s, q, i), i)
<1> DEFINE n == Len(s)
           k == Len(q)
           start == IF q = <<>> THEN 0 ELSE q[k] + 4
           Hit(p) == HasMagicAt(s, p)
<1>1. n \in Nat /\ i \in 1..n
  BY LenNat
<1>2. /\ q \in Seq(Nat)
      /\ \A a \in 1..k : q[a] < i - 1 /\ q[a] + 4 <= n /\ Hit(q[a]) /\ 4 * (a - 1) <= q[a]
      /\ \A a, b \in 1..k : a < b => q[a] + 4 <= q[b]
      /\ \A p \in 0..((i - 1) - 1) : Hit(p) =>
            p + 4 >= n \/ \E a \in 1..k : q[a] <= p /\ p < q[a] + 4
  BY Zenon DEF Found
<1>3. k \in Nat /\ \A a \in 1..k : q[a] \in Nat
  BY <1>2, LenProperties, ElementOfSeq
<1>4. q = <<>> \/ (k \in 1..k /\ q # <<>>)
  <2>1. q # <<>> => k \in Nat \ {0}
    BY <1>2, EmptySeq
  <2>. QED
    BY ONLY <1>3, <2>1
<1>5. q = <<>> => k = 0
  BY EmptySeq
<1>6. start \in Nat
  BY <1>3, <1>4
<1>7. \A p : Hit(p) => p + 4 <= n
  BY DEF HasMagicAt
<1>8. PosStep(s, q, i) = IF start <= i - 1 /\ start + 4 < n /\ Hit(i - 1)
                         THEN Append(q, i - 1) ELSE q
  BY DEF PosStep
<1>a. q # <<>> => start = q[k] + 4
  BY Zenon
<1>b. q = <<>> => start = 0
  BY Zenon
<1>. HIDE DEF n, k, start, Hit
<1>9. CASE start <= i - 1 /\ start + 4 < n /\ Hit(i - 1)
  <2> DEFINE r == Append(q, i - 1)
  <2>1. i - 1 \in Nat
    BY ONLY <1>1
  <2>2. /\ r \in Seq(Nat) /\ Len(r) = k + 1
        /\ \A a \in 1..k : r[a] = q[a]
        /\ r[k + 1] = i - 1
    <3>1. q \in Seq(Nat)
      BY <1>2, Zenon
    <3>. QED
      BY ONLY <2>1, <3>1, AppendProperties DEF k
  <2>3. PosStep(s, q, i) = r
    BY <1>8, <1>9, Zenon
  <2>. HIDE DEF r
  <2>4. \A a \in 1..(k + 1) : a \in 1..k \/ a = k + 1
    BY ONLY <1>3
  <2>5. \A a \in 1..k : q[a] + 4 <= i - 1
    <3>. SUFFICES ASSUME NEW a \in 1..k PROVE q[a] + 4 <= i - 1
      OBVIOUS
    <3>1. k \in 1..k /\ q # <<>>
      BY <1>3, <1>4, <1>5
    <3>2. q[k] + 4 <= i - 1
      BY <1>9, <1>a, <3>1, Zenon
    <3>3. a = k \/ a < k
      BY ONLY <1>3, a \in 1..k
    <3>4. CASE a = k
      BY <3>2, <3>4, Zenon
    <3>5. CASE a < k
      <4>1. q[a] + 4 <= q[k]
        BY <1>2, <3>1, <3>5, Zenon
      <4>2. q[a] \in Nat /\ q[k] \in Nat
        BY <1>3, <3>1, Zenon
      <4>. QED
        BY ONLY <1>1, <3>2, <4>1, <4>2
    <3>. QED
      BY <3>3, <3>4, <3>5, Zenon
  <2>6. ASSUME NEW a \in 1..(k + 1)
        PROVE  r[a] < i /\ r[a] + 4 <= n /\ Hit(r[a]) /\ 4 * (a - 1) <= r[a]
    <3>1. CASE a \in 1..k
      <4>1. /\ r[a] = q[a] /\ q[a] < i - 1 /\ q[a] + 4 <= n /\ Hit(q[a]) /\ 4 * (a - 1) <= q[a]
            /\ q[a] \in Nat
        BY <1>2, <1>3, <2>2, <3>1, Zenon
      <4>2. q[a] < i
        BY ONLY <1>1, <4>1
      <4>. QED
        BY <4>1, <4>2, Zenon
    <3>2. CASE a = k + 1
      <4>1. r[a] = i - 1
        BY <2>2, <3>2, Zenon
      <4>2. i - 1 < i /\ (i - 1) + 4 <= n
        BY <1>1, <1>7, <1>9
      <4>3. 4 * (a - 1) <= i - 1
        <5>1. CASE q = <<>>
          BY <1>1, <1>5, <3>2, <5>1
        <5>2. CASE q # <<>>
          <6>1. k \in 1..k
            BY <1>4, <5>2, Zenon
          <6>2. q[k] + 4 <= i - 1 /\ 4 * (k - 1) <= q[k] /\ q[k] \in Nat
            BY <1>2, <1>3, <2>5, <6>1, Zenon
          <6>. QED
            BY ONLY <1>1, <1>3, <3>2, <6>2
        <5>. QED
          BY <5>1, <5>2, Zenon
      <4>. QED
        BY <1>9, <4>1, <4>2, <4>3, Zenon
    <3>. QED
      BY <2>4, <3>1, <3>2, Zenon
  <2>7. ASSUME NEW a \in 1..(k + 1), NEW b \in 1..(k + 1), a < b PROVE r[a] + 4 <= r[b]
    <3>1. a \in 1..k
      BY ONLY <1>3, a \in 1..(k + 1), b \in 1..(k + 1), a < b
    <3>2. CASE b \in 1..k
      BY <1>2, <2>2, <2>7, <3>1, <3>2, Zenon
    <3>3. CASE b = k + 1
      BY <2>2, <2>5, <3>1, <3>3, Zenon
    <3>. QED
      BY <2>4, <3>2, <3>3, Zenon
  <2>8. ASSUME NEW p \in 0..(i - 1), Hit(p)
        PROVE  p + 4 >= n \/ \E a \in 1..(k + 1) : r[a] <= p /\ p < r[a] + 4
    <3>1. p \in 0..((i - 1) - 1) \/ p = i - 1
      BY ONLY <1>1, p \in 0..(i - 1)
    <3>2. CASE p = i - 1
      <4>1. k + 1 \in 1..(k + 1) /\ i - 1 <= i - 1 /\ i - 1 < (i - 1) + 4
        BY ONLY <1>1, <1>3
      <4>. QED
        BY <2>2, <3>2, <4>1, Zenon
    <3>3. CASE p \in 0..((i - 1) - 1)
      <4>1. p + 4 >= n \/ \E a \in 1..k : q[a] <= p /\ p < q[a] + 4
        BY <1>2, <2>8, <3>3, Zenon
      <4>2. \A a \in 1..k : a \in 1..(k + 1)
        BY ONLY <1>3
      <4>. QED
        BY <2>2, <4>1, <4>2, Zenon
    <3>. QED
      BY <3>1, <3>2, <3>3, Zenon
  <2>. QED
    BY <2>2, <2>3, <2>6, <2>7, <2>8, Zenon DEF Found, n, Hit
<1>10. CASE ~(start <= i - 1 /\ start + 4 < n /\ Hit(i - 1))
  <2>1. PosStep(s, q, i) = q
    BY <1>8, <1>10, Zenon
  <2>2. \A a \in 1..k : q[a] < i
    BY ONLY <1>1, <1>2, <1>3
  <2>3. ASSUME NEW p \in 0..(i - 1), Hit(p)
        PROVE  p + 4 >= n \/ \E a \in 1..k : q[a] <= p /\ p < q[a] + 4
    <3>1. p \in 0..((i - 1) - 1) \/ p = i - 1
      BY ONLY <1>1, p \in 0..(i - 1)
    <3>2. CASE p = i - 1
      <4>1. ~(start <= i - 1) \/ ~(start + 4 < n)
        BY <1>10, <2>3, <3>2, Zenon
      <4>2. CASE start <= i - 1
        BY ONLY <1>1, <1>6, <3>2, <4>1, <4>2
      <4>3. CASE ~(start <= i - 1)
        <5>1. q # <<>>
          BY <1>1, <1>b, <4>3
        <5>2. k \in 1..k /\ start = q[k] + 4
          BY <1>4, <1>a, <5>1, Zenon
        <5>3. q[k] \in Nat /\ q[k] < i - 1
          BY <1>2, <1>3, <5>2, Zenon
        <5>4. q[k] <= p /\ p < q[k] + 4
          BY ONLY <1>1, <3>2, <4>3, <5>2, <5>3
        <5>. QED
          BY <5>2, <5>4, Zenon
      <4>. QED
        BY <4>2, <4>3, Zenon
    <3>3. CASE p \in 0..((i - 1) - 1)
      BY <1>2, <2>3, <3>3, Zenon
    <3>. QED
      BY <3>1, <3>2, <3>3, Zenon
  <2>. QED
    BY <1>2, <2>1, <2>2, <2>3, Zenon DEF Found, n, k, Hit
<1>. QED
  BY <1>9, <1>10, Zenon

LEMMA getAllPosProp ==
    ASSUME NEW s \in Seq(Cell)
    PROVE  Found(s, getAllPos(s), Len(s))
<1>1. PICK g : IsSearch(s, g)
  BY SearchDef, Zenon
<1> DEFINE n == Len(s)
           T == {i \in 0..n : Found(s, g[i], i)}
<1>2. n \in Nat
  BY LenNat
<1>3. /\ g \in [0..n -> Seq(Nat)] /\ g[0] = <<>> /\ getAllPos(s) = g[n]
      /\ \A i \in 1..n : g[i] = PosStep(s, g[i - 1], i)
  BY <1>1, Zenon DEF IsSearch
<1>4. 0 \in T
  <2>1. 0 \in 0..n /\ ~(\E p : p \in 0..(0 - 1))
    BY ONLY <1>2
  <2>2. <<>> \in Seq(Nat) /\ ~(\E a : a \in 1..Len(<<>>))
    BY ONLY EmptySeq
  <2>3. Found(s, <<>>, 0)
    BY <2>1, <2>2, Zenon DEF Found
  <2>. QED
    BY <1>3, <2>1, <2>3, Zenon
<1>5. ASSUME NEW i \in 1..n, i - 1 \in T PROVE i \in T
  <2>1. Found(s, PosStep(s, g[i - 1], i), i)
    BY <1>5, FoundStep, Zenon
  <2>2. i \in 0..n
    BY ONLY <1>2, i \in 1..n
  <2>. QED
    BY <1>3, <2>1, <2>2, Zenon
<1>. HIDE DEF T
<1>6. \A i \in 0..n : i \in T
  BY ONLY <1>2, <1>4, <1>5, SetInduction
<1>7. n \in 0..n
  BY ONLY <1>2
<1>. QED
  BY <1>3, <1>6, <1>7, Zenon DEF T, n

-----------------------------------------------------------------------------
(* What an entry looks like in the file *)

LEMMA PutUint32Type ==
    ASSUME NEW v \in Nat
    PROVE  /\ PutUint32(v) \in Seq(Cell) /\ Len(PutUint32(v)) = 2
           /\ v < Base => PutUint32(v) = <<v, 0>>
<1> DEFINE q == v \div Base
           r == v % Base
<1>1. PutUint32(v) = <<r, q % Base>>
  BY DEF PutUint32
<1>2. v \in Int
  OBVIOUS
<1>3. q \in Int /\ r \in Cell
  BY <1>2, DivMod, Zenon
<1>4. q % Base \in Cell
  BY <1>3, DivMod, Zenon
<1>5. ASSUME v < Base PROVE r = v /\ q = 0
  <2>1. v \in Cell /\ Base * 0 + v = v
    BY <1>5, BaseFacts DEF Cell
  <2>. QED
    BY <2>1, DivModUnique
<1>6. 0 % Base = 0
  <2>1. 0 \in Cell /\ Base * 0 + 0 = 0
    BY BaseFacts DEF Cell
  <2>. QED
    BY <2>1, DivModUnique
<1>. HIDE DEF q, r
<1>7. <<r, q % Base>> \in Seq(Cell) /\ Len(<<r, q % Base>>) = 2
  BY ONLY <1>3, <1>4
<1>8. v < Base => <<r, q % Base>> = <<v, 0>>
  BY <1>5, <1>6, Zenon
<1>. QED
  BY <1>1, <1>7, <1>8, Zenon

LEMMA MagicFacts ==
    /\ MagicBytes \in Seq(Cell) /\ Len(MagicBytes) = 4
    /\ MagicBytes[1] = FF /\ MagicBytes[2] = FF - 1 /\ MagicBytes[3] = FF - 1 /\ MagicBytes[4] = FF
    /\ EndMark \in Seq(Cell) /\ Len(EndMark) = 2 /\ EndMark[1] = FF /\ EndMark[2] = FF
    /\ Zeros(4) \in Seq(Cell) /\ Len(Zeros(4)) = 4 /\ \A j \in 1..4 : Zeros(4)[j] = 0
<1>1. FF \in Cell /\ FF - 1 \in Cell /\ 0 \in Cell
  BY CellFacts
<1>2. Zeros(4) \in [1..4 -> Cell] /\ \A j \in 1..4 : Zeros(4)[j] = 0
  BY <1>1 DEF Zeros
<1>3. Zeros(4) \in Seq(Cell) /\ Len(Zeros(4)) = 4
  <2> DEFINE n == 4
             z == Zeros(4)
  <2>1. n \in Nat /\ z \in [1..n -> Cell]
    BY <1>2
  <2>. HIDE DEF n, z
  <2>2. z \in Seq(Cell) /\ Len(z) = n
    BY <2>1, MakeSeq
  <2>. QED
    BY <2>2 DEF n, z
<1>. QED
  BY <1>1, <1>2, <1>3 DEF MagicBytes, EndMark

\* The places with four cells each do not overlap.
Apart(P) == \A p, q \in P : p # q => p + 4 <= q \/ q + 4 <= p

LEMMA OverwrittenProp ==
    ASSUME NEW b \in Seq(Cell), NEW P \in SUBSET Nat, Apart(P), NEW c \in Seq(Cell), Len(c) = 4
    PROVE  LET x == Overwritten(b, P, c)
           IN  /\ x \in Seq(Cell) /\ Len(x) = Len(b)
               /\ \A p \in P, j \in 1..4 : p + j <= Len(b) => x[p + j] = c[j]
               /\ \A i \in 1..Len(b) : (\A p \in P : i \notin p + 1..p + 4) => x[i] = b[i]
<1> DEFINE n == Len(b)
           In(i, p) == i \in p + 1..p + 4
           At(i) == CHOOSE p \in P : In(i, p)
           f == [i \in 1..n |-> IF \E p \in P : In(i, p) THEN c[i - At(i)] ELSE b[i]]
<1>1. n \in Nat /\ \A i \in 1..n : b[i] \in Cell
  BY LenNat
<1>2. \A j \in 1..4 : c[j] \in Cell
  BY LenNat, Zenon
<1>3. Overwritten(b, P, c) = f
  BY DEF Overwritten
<1>4. \A i, p : p \in P /\ In(i, p) => At(i) \in P /\ In(i, At(i))
  <2>. HIDE DEF In
  <2>. QED
    BY Zenon
<1>. HIDE DEF n, At
<1>5. ASSUME NEW i \in 1..n, NEW p \in P, In(i, p) PROVE At(i) = p
  <2>1. At(i) \in P /\ In(i, At(i))
    BY <1>4, <1>5, Zenon
  <2>2. At(i) \in Nat /\ p \in Nat
    BY <2>1
  <2>3. At(i) # p => At(i) + 4 <= p \/ p + 4 <= At(i)
    BY <2>1 DEF Apart
  <2>. QED
    BY <1>1, <1>5, <2>1, <2>2, <2>3
<1>6. ASSUME NEW p \in Nat, NEW i, In(i, p) PROVE i - p \in 1..4
  BY <1>6
<1>7. f \in [1..n -> Cell]
  <2>1. ASSUME NEW i \in 1..n
        PROVE  (IF \E p \in P : In(i, p) THEN c[i - At(i)] ELSE b[i]) \in Cell
    <3>1. CASE \E p \in P : In(i, p)
      <4>1. PICK p \in P : In(i, p)
        BY <3>1, Zenon
      <4>2. At(i) = p
        BY <1>5, <4>1, Zenon
      <4>3. i - p \in 1..4
        BY <1>6, <4>1
      <4>. QED
        BY <1>2, <3>1, <4>2, <4>3, Zenon
    <3>2. CASE ~ \E p \in P : In(i, p)
      BY <1>1, <3>2, Zenon
    <3>. QED
      BY <3>1, <3>2, Zenon
  <2>. HIDE DEF In
  <2>. QED
    BY <2>1, Zenon
<1>8. \A i \in 1..n : f[i] = IF \E p \in P : In(i, p) THEN c[i - At(i)] ELSE b[i]
  <2>. HIDE DEF In
  <2>. QED
    BY Zenon
<1>. HIDE DEF f
<1>9. f \in Seq(Cell) /\ Len(f) = n
  BY <1>1, <1>7, MakeSeq, Zenon
<1>10. ASSUME NEW p \in P, NEW j \in 1..4, p + j <= n PROVE f[p + j] = c[j]
  <2>1. p \in Nat
    OBVIOUS
  <2>2. p + j \in 1..n /\ In(p + j, p) /\ (p + j) - p = j
    BY ONLY <1>1, <1>10, <2>1, j \in 1..4
  <2>3. At(p + j) = p
    BY <1>5, <2>2, Zenon
  <2>4. f[p + j] = c[(p + j) - p]
    <3>. HIDE DEF In
    <3>. QED
      BY <1>8, <2>2, <2>3, Zenon
  <2>. QED
    BY <2>2, <2>4, Zenon
<1>11. ASSUME NEW i \in 1..n, \A p \in P : i \notin p + 1..p + 4 PROVE f[i] = b[i]
  BY <1>8, <1>11, Zenon
<1>. QED
  BY <1>3, <1>9, <1>10, <1>11, Zenon DEF n

Positions(e) == getAllPos(Strings(e))
Places(e) == {Positions(e)[i] : i \in 1..Len(Positions(e))}
Escaped(e) == Overwritten(Strings(e), Places(e), Zeros(4))
PosWords(e) == Words([i \in 1..Len(Positions(e)) |-> Positions(e)[i] + 2 * Len(Positions(e))])

HasStrings(e) == e.key \in Seq(Cell) /\ e.value \in Seq(Cell) /\ e.nextKey \in Seq(Cell)
HasNumbers(e) == e.height \in Int64s /\ e.lastHeight \in Int64s /\ e.serialNum \in Int64s
Fits(e) == HasStrings(e) /\ EntryLength(e) < MaxEntryBytes

LEMMA StringLayout ==
    ASSUME NEW s \in Seq(Cell)
    PROVE  /\ PutString(s) \in Seq(Cell) /\ Len(PutString(s)) = 2 + Len(s)
           /\ Holds(PutString(s), 0, PutUint32(Len(s))) /\ Holds(PutString(s), 2, s)
<1> DEFINE a == PutUint32(Len(s))
<1>1. a \in Seq(Cell) /\ Len(a) = 2
  BY LenNat, PutUint32Type, Zenon
<1>2. PutString(s) = a \o s
  BY DEF PutString
<1>. HIDE DEF a
<1>3. /\ a \o s \in Seq(Cell) /\ Len(a \o s) = Len(a) + Len(s)
      /\ Holds(a \o s, 0, a) /\ Holds(a \o s, Len(a), s)
  BY <1>1, ConcatHolds, Zenon
<1>. QED
  BY <1>1, <1>2, <1>3, Zenon DEF a

LEMMA StringsLayout ==
    ASSUME NEW e, HasStrings(e)
    PROVE  LET s == Strings(e)
               k == Len(e.key)
               v == Len(e.value)
           IN  /\ s \in Seq(Cell) /\ Len(s) = 6 + k + v + Len(e.nextKey)
               /\ k \in Nat /\ v \in Nat /\ Len(e.nextKey) \in Nat
               /\ Holds(s, 0, PutUint32(k)) /\ Holds(s, 2, e.key)
               /\ Holds(s, 2 + k, PutUint32(v)) /\ Holds(s, 4 + k, e.value)
               /\ Holds(s, 4 + k + v, PutUint32(Len(e.nextKey)))
               /\ Holds(s, 6 + k + v, e.nextKey)
<1> DEFINE a == PutString(e.key)
           b == PutString(e.value)
           c == PutString(e.nextKey)
           k == Len(e.key)
           v == Len(e.value)
           n == Len(e.nextKey)
           s == a \o b \o c
<1>1. e.key \in Seq(Cell) /\ e.value \in Seq(Cell) /\ e.nextKey \in Seq(Cell)
  BY DEF HasStrings
<1>2. k \in Nat /\ v \in Nat /\ n \in Nat
  BY <1>1, LenNat, Zenon
<1>3. /\ a \in Seq(Cell) /\ Len(a) = 2 + k /\ Holds(a, 0, PutUint32(k)) /\ Holds(a, 2, e.key)
      /\ b \in Seq(Cell) /\ Len(b) = 2 + v /\ Holds(b, 0, PutUint32(v)) /\ Holds(b, 2, e.value)
      /\ c \in Seq(Cell) /\ Len(c) = 2 + n /\ Holds(c, 0, PutUint32(n)) /\ Holds(c, 2, e.nextKey)
  BY <1>1, StringLayout, Zenon
<1>4. /\ PutUint32(k) \in Seq(Cell) /\ PutUint32(v) \in Seq(Cell) /\ PutUint32(n) \in Seq(Cell)
  BY <1>2, PutUint32Type, Zenon
<1>5. Strings(e) = s
  BY DEF Strings
<1>6. /\ s \in Seq(Cell) /\ Len(s) = Len(a) + Len(b) + Len(c)
      /\ Holds(s, 0, a) /\ Holds(s, Len(a), b) /\ Holds(s, Len(a) + Len(b), c)
  <2>. HIDE DEF a, b, c
  <2>. QED
    BY <1>3, Concat3, Zenon
<1>. HIDE DEF a, b, c, k, v, n, s
<1>7. /\ Len(a) + Len(b) + Len(c) = 6 + k + v + n /\ 0 + 0 = 0 /\ 0 + 2 = 2
      /\ (2 + k) + 0 = 2 + k /\ (2 + k) + 2 = 4 + k /\ Len(a) + Len(b) = 4 + k + v
      /\ (4 + k + v) + 0 = 4 + k + v /\ (4 + k + v) + 2 = 6 + k + v
      /\ 2 + k \in Nat /\ 4 + k + v \in Nat /\ 0 \in Nat /\ 2 \in Nat
  BY ONLY <1>2, <1>3
<1>8. Holds(s, 0, PutUint32(k)) /\ Holds(s, 2, e.key)
  <2>1. Holds(s, 0 + 0, PutUint32(k)) /\ Holds(s, 0 + 2, e.key)
    BY <1>1, <1>3, <1>4, <1>6, <1>7, HoldsTrans, Zenon
  <2>. QED
    BY <1>7, <2>1, Zenon
<1>9. Holds(s, 2 + k, PutUint32(v)) /\ Holds(s, 4 + k, e.value)
  <2>1. Holds(s, 2 + k, b)
    BY <1>3, <1>6, Zenon
  <2>2. Holds(s, (2 + k) + 0, PutUint32(v)) /\ Holds(s, (2 + k) + 2, e.value)
    BY <1>1, <1>3, <1>4, <1>6, <1>7, <2>1, HoldsTrans, Zenon
  <2>. QED
    BY <1>7, <2>2, Zenon
<1>10. Holds(s, 4 + k + v, PutUint32(n)) /\ Holds(s, 6 + k + v, e.nextKey)
  <2>1. Holds(s, 4 + k + v, c)
    BY <1>6, <1>7, Zenon
  <2>2. Holds(s, (4 + k + v) + 0, PutUint32(n)) /\ Holds(s, (4 + k + v) + 2, e.nextKey)
    BY <1>1, <1>3, <1>4, <1>6, <1>7, <2>1, HoldsTrans, Zenon
  <2>. QED
    BY <1>7, <2>2, Zenon
<1>. QED
  BY <1>2, <1>5, <1>6, <1>7, <1>8, <1>9, <1>10, Zenon DEF k, v, n

LEMMA NumbersLayout ==
    ASSUME NEW e, HasNumbers(e)
    PROVE  LET s == Numbers(e)
           IN  /\ s \in Seq(Cell) /\ Len(s) = 12
               /\ Holds(s, 0, PutUint64(e.height)) /\ Holds(s, 4, PutUint64(e.lastHeight))
               /\ Holds(s, 8, PutUint64(e.serialNum))
<1> DEFINE a == PutUint64(e.height)
           b == PutUint64(e.lastHeight)
           c == PutUint64(e.serialNum)
           s == a \o b \o c
<1>1. /\ a \in Seq(Cell) /\ Len(a) = 4 /\ b \in Seq(Cell) /\ Len(b) = 4
      /\ c \in Seq(Cell) /\ Len(c) = 4
  BY Int64RoundTrip, Zenon DEF HasNumbers
<1>2. Numbers(e) = s
  BY DEF Numbers
<1>. HIDE DEF a, b, c
<1>3. /\ s \in Seq(Cell) /\ Len(s) = Len(a) + Len(b) + Len(c)
      /\ Holds(s, 0, a) /\ Holds(s, Len(a), b) /\ Holds(s, Len(a) + Len(b), c)
  BY <1>1, Concat3, Zenon
<1>4. 4 + 4 + 4 = 12 /\ 4 + 4 = 8
  OBVIOUS
<1>. HIDE DEF s
<1>5. Len(s) = 4 + 4 + 4 /\ Holds(s, 4, b) /\ Holds(s, 4 + 4, c)
  BY <1>1, <1>3, Zenon
<1>6. Len(s) = 12 /\ Holds(s, 8, c)
  BY <1>4, <1>5, Zenon
<1>. QED
  BY <1>2, <1>3, <1>5, <1>6, Zenon DEF a, b, c

\* The occurrences of MagicBytes in the strings of an entry, and how they are listed.
LEMMA PositionsProp ==
    ASSUME NEW e, HasStrings(e)
    PROVE  LET s == Strings(e)
               pos == Positions(e)
               k == Len(pos)
           IN  /\ s \in Seq(Cell) /\ Len(s) \in Nat /\ pos \in Seq(Nat) /\ k \in Nat
               /\ \A i \in 1..k : pos[i] \in Nat /\ pos[i] + 4 <= Len(s) /\ HasMagicAt(s, pos[i])
               /\ 4 * k <= Len(s)
               /\ Places(e) \in SUBSET Nat /\ Apart(Places(e))
               /\ EntryLength(e) = 2 * k + 2 + Len(s) + 12 /\ EntryLength(e) \in Nat
<1> DEFINE s == Strings(e)
           n == Len(s)
           pos == Positions(e)
           k == Len(pos)
           P == Places(e)
<1>1. s \in Seq(Cell) /\ n \in Nat
  BY StringsLayout, LenNat
<1>2. Found(s, pos, n)
  BY <1>1, getAllPosProp, Zenon DEF Positions
<1>3. /\ pos \in Seq(Nat)
      /\ \A i \in 1..k : pos[i] + 4 <= n /\ HasMagicAt(s, pos[i]) /\ 4 * (i - 1) <= pos[i]
      /\ \A i, j \in 1..k : i < j => pos[i] + 4 <= pos[j]
  BY <1>2, Zenon DEF Found
<1>4. k \in Nat /\ \A i \in 1..k : pos[i] \in Nat
  BY <1>3, LenProperties, ElementOfSeq
<1>5. P = {pos[i] : i \in 1..k}
  BY DEF Places
<1>6. EntryLength(e) = 2 * k + 2 + n + 12
  BY DEF EntryLength, Positions
<1>. HIDE DEF s, n, pos, k, P
<1>7. 4 * k <= n
  <2>1. CASE k = 0
    BY ONLY <1>1, <2>1
  <2>2. CASE k # 0
    <3>1. k \in 1..k
      BY ONLY <1>4, <2>2
    <3>2. pos[k] + 4 <= n /\ 4 * (k - 1) <= pos[k] /\ pos[k] \in Nat
      BY <1>3, <1>4, <3>1, Zenon
    <3>. QED
      BY ONLY <1>1, <1>4, <3>2
  <2>. QED
    BY <2>1, <2>2
<1>8. P \in SUBSET Nat
  BY ONLY <1>4, <1>5
<1>9. Apart(P)
  <2>1. ASSUME NEW x \in P, NEW y \in P, x # y PROVE x + 4 <= y \/ y + 4 <= x
    <3>1. PICK i \in 1..k : x = pos[i]
      BY <1>5
    <3>2. PICK j \in 1..k : y = pos[j]
      BY <1>5
    <3>3. i < j \/ j < i
      <4>1. i # j
        BY <2>1, <3>1, <3>2, Zenon
      <4>. QED
        BY ONLY <1>4, <4>1, i \in 1..k, j \in 1..k
    <3>. QED
      BY <1>3, <3>1, <3>2, <3>3, Zenon
  <2>. QED
    BY <2>1, Zenon DEF Apart
<1>10. 2 * k + 2 + n + 12 \in Nat
  BY ONLY <1>1, <1>4
<1>. QED
  BY <1>1, <1>3, <1>4, <1>6, <1>7, <1>8, <1>9, <1>10, Zenon DEF s, n, pos, k, P

LEMMA PosWordsLayout ==
    ASSUME NEW e, Fits(e)
    PROVE  LET pos == Positions(e)
               k == Len(pos)
           IN  /\ PosWords(e) \in Seq(Cell) /\ Len(PosWords(e)) = 2 * k
               /\ \A j \in 1..k : /\ pos[j] + 2 * k \in Nat /\ pos[j] + 2 * k < FF
                                  /\ Holds(PosWords(e), 2 * (j - 1), PutUint32(pos[j] + 2 * k))
<1> DEFINE n == Len(Strings(e))
           pos == Positions(e)
           k == Len(pos)
           l == [i \in 1..k |-> pos[i] + 2 * k]
<1>1. /\ n \in Nat /\ k \in Nat /\ \A i \in 1..k : pos[i] \in Nat /\ pos[i] + 4 <= n
      /\ EntryLength(e) = 2 * k + 2 + n + 12
  BY PositionsProp, Zenon DEF Fits
<1>2. EntryLength(e) < FF
  BY DEF Fits, MaxEntryBytes, FF
<1>3. FF \in Nat /\ FF = Base - 1 /\ Base \in Nat
  BY CellFacts, BaseFacts
<1>4. PosWords(e) = Words(l)
  BY DEF PosWords
<1>. HIDE DEF n, pos, k
<1>5. ASSUME NEW i \in 1..k PROVE pos[i] + 2 * k \in Nat /\ pos[i] + 2 * k < FF
  <2>1. pos[i] \in Nat /\ pos[i] + 4 <= n
    BY <1>1, Zenon
  <2>. QED
    BY ONLY <1>1, <1>2, <1>3, <2>1
<1>6. ASSUME NEW v \in Nat, v < FF PROVE v \in 0..(Base * Base - 1)
  <2>1. Base * Base >= Base /\ Base * Base \in Nat
    BY BaseFacts
  <2>. QED
    BY ONLY <1>3, <1>6, <2>1
<1>7. l \in [1..k -> 0..(Base * Base - 1)] /\ \A i \in 1..k : l[i] = pos[i] + 2 * k
  BY <1>5, <1>6, Zenon
<1>. HIDE DEF l
<1>8. l \in Seq(0..(Base * Base - 1)) /\ Len(l) = k
  BY <1>1, <1>7, MakeSeq, Zenon
<1>9. /\ Words(l) \in Seq(Cell) /\ Len(Words(l)) = 2 * Len(l)
      /\ \A j \in 1..Len(l) : Holds(Words(l), 2 * (j - 1), PutUint32(l[j]))
  BY <1>8, WordsLayout, Zenon
<1>. QED
  BY <1>4, <1>5, <1>7, <1>8, <1>9, Zenon DEF pos, k

LEMMA EscapedProp ==
    ASSUME NEW e, HasStrings(e)
    PROVE  LET s == Strings(e)
               x == Escaped(e)
           IN  /\ x \in Seq(Cell) /\ Len(x) = Len(s)
               /\ \A p \in Places(e), j \in 1..4 : p + j <= Len(s) => x[p + j] = 0
               /\ \A i \in 1..Len(s) : (\A p \in Places(e) : i \notin p + 1..p + 4) => x[i] = s[i]
<1> DEFINE s == Strings(e)
           P == Places(e)
           z == Zeros(4)
<1>1. s \in Seq(Cell) /\ P \in SUBSET Nat /\ Apart(P)
  BY PositionsProp, Zenon
<1>2. z \in Seq(Cell) /\ Len(z) = 4 /\ \A j \in 1..4 : z[j] = 0
  BY MagicFacts, Zenon
<1>3. Escaped(e) = Overwritten(s, P, z)
  BY DEF Escaped
<1>. HIDE DEF s, P, z
<1> DEFINE x == Overwritten(s, P, z)
<1>4. /\ x \in Seq(Cell) /\ Len(x) = Len(s)
      /\ \A p \in P, j \in 1..4 : p + j <= Len(s) => x[p + j] = z[j]
      /\ \A i \in 1..Len(s) : (\A p \in P : i \notin p + 1..p + 4) => x[i] = s[i]
  BY <1>1, <1>2, OverwrittenProp, Zenon
<1>5. Escaped(e) = x
  BY <1>3, Zenon
<1>. HIDE DEF x
<1>6. \A p \in P, j \in 1..4 : p + j <= Len(s) => x[p + j] = 0
  BY <1>2, <1>4, Zenon
<1>. QED
  BY <1>4, <1>5, <1>6, Zenon DEF s, P

\* The parts of the bytes of an entry.
LEMMA EntryLayout ==
    ASSUME NEW e, Fits(e), HasNumbers(e), NEW l \in Seq(Int64s), Len(l) < Base
    PROVE  LET b == EntryToBytes(e, l)
               k == Len(Positions(e))
               n == Len(Strings(e))
           IN  /\ b \in Seq(Cell) /\ Len(b) = 2 + EntryLength(e) + 4 * Len(l)
               /\ b[1] = Len(l) /\ b[2] = EntryLength(e)
               /\ Holds(b, 2, PosWords(e)) /\ Holds(b, 2 + 2 * k, EndMark)
               /\ Holds(b, 4 + 2 * k, Escaped(e)) /\ Holds(b, 4 + 2 * k + n, Numbers(e))
               /\ Holds(b, 16 + 2 * k + n, SNListToBytes(l))
<1> DEFINE k == Len(Positions(e))
           n == Len(Strings(e))
           m == Len(l)
           h == Header(m, EntryLength(e))
           w == PosWords(e)
           f == EndMark
           x == Escaped(e)
           u == Numbers(e)
           t == SNListToBytes(l)
           y == h \o w \o f
           z == y \o x \o u
           b == z \o t
<1>1. HasStrings(e) /\ EntryLength(e) < FF
  BY DEF Fits, MaxEntryBytes, FF
<1>2. k \in Nat /\ n \in Nat /\ EntryLength(e) = 2 * k + 2 + n + 12 /\ EntryLength(e) \in Nat
  BY <1>1, PositionsProp, Zenon
<1>3. m \in Nat /\ m < Base
  BY LenProperties
<1>4. h = <<m, EntryLength(e)>>
  <2>1. m \in Cell /\ EntryLength(e) \in Cell
    BY <1>1, <1>2, <1>3, CellFacts, BaseFacts DEF Cell
  <2>2. m = Base * 0 + m /\ EntryLength(e) = Base * 0 + EntryLength(e) /\ 0 \in Int
    BY ONLY <1>2, <1>3, BaseFacts
  <2>3. m % Base = m /\ EntryLength(e) % Base = EntryLength(e)
    <3>. HIDE DEF m
    <3>1. (Base * 0 + m) % Base = m /\ (Base * 0 + EntryLength(e)) % Base = EntryLength(e)
      BY ONLY <2>1, <2>2, DivModUnique
    <3>. QED
      BY ONLY <2>2, <3>1, Zenon
  <2>. QED
    BY <2>3, Zenon DEF Header
<1>5. h \in Seq(Cell) /\ Len(h) = 2 /\ h[1] = m /\ h[2] = EntryLength(e)
  <2>1. m \in Cell /\ EntryLength(e) \in Cell
    BY <1>1, <1>2, <1>3, CellFacts, BaseFacts DEF Cell
  <2>. HIDE DEF m, h
  <2>. QED
    BY ONLY <1>4, <2>1
<1>6. w \in Seq(Cell) /\ Len(w) = 2 * k
  BY PosWordsLayout, Zenon
<1>7. f \in Seq(Cell) /\ Len(f) = 2
  BY MagicFacts, Zenon
<1>8. x \in Seq(Cell) /\ Len(x) = n
  BY <1>1, EscapedProp, Zenon
<1>9. u \in Seq(Cell) /\ Len(u) = 12
  BY NumbersLayout, Zenon
<1>10. t \in Seq(Cell) /\ Len(t) = 4 * m
  BY ListLayout, Zenon
<1>11. EntryToBytes(e, l) = b
  BY DEF EntryToBytes, PosWords, Escaped, Places, Positions
<1>. HIDE DEF k, n, m, h, w, f, x, u, t
<1>12. /\ y \in Seq(Cell) /\ Len(y) = 2 + 2 * k + 2
       /\ Holds(y, 0, h) /\ Holds(y, 2, w) /\ Holds(y, 2 + 2 * k, f)
  <2>1. /\ y \in Seq(Cell) /\ Len(y) = Len(h) + Len(w) + Len(f)
        /\ Holds(y, 0, h) /\ Holds(y, Len(h), w) /\ Holds(y, Len(h) + Len(w), f)
    BY <1>5, <1>6, <1>7, Concat3, Zenon
  <2>. HIDE DEF y
  <2>. QED
    BY <1>5, <1>6, <1>7, <2>1, Zenon
<1>. HIDE DEF y
<1>13. /\ z \in Seq(Cell) /\ Len(z) = (2 + 2 * k + 2) + n + 12
       /\ Holds(z, 0, y) /\ Holds(z, 2 + 2 * k + 2, x) /\ Holds(z, (2 + 2 * k + 2) + n, u)
  <2>1. /\ z \in Seq(Cell) /\ Len(z) = Len(y) + Len(x) + Len(u)
        /\ Holds(z, 0, y) /\ Holds(z, Len(y), x) /\ Holds(z, Len(y) + Len(x), u)
    BY <1>8, <1>9, <1>12, Concat3, Zenon
  <2>. HIDE DEF z
  <2>. QED
    BY <1>8, <1>9, <1>12, <2>1, Zenon
<1>. HIDE DEF z
<1>14. /\ b \in Seq(Cell) /\ Len(b) = ((2 + 2 * k + 2) + n + 12) + 4 * m
       /\ Holds(b, 0, z) /\ Holds(b, (2 + 2 * k + 2) + n + 12, t)
  BY <1>10, <1>13, ConcatHolds, Zenon
<1>. HIDE DEF b
<1>15. /\ 2 + 2 * k + 2 = 4 + 2 * k /\ (4 + 2 * k) + n = 4 + 2 * k + n
       /\ (4 + 2 * k) + n + 12 = 16 + 2 * k + n
       /\ (16 + 2 * k + n) + 4 * m = 2 + EntryLength(e) + 4 * m
       /\ \A q \in Nat : 0 + q = q
       /\ 0 \in Nat /\ 2 \in Nat /\ 2 + 2 * k \in Nat /\ 4 + 2 * k \in Nat /\ 4 + 2 * k + n \in Nat
  BY ONLY <1>2, <1>3
<1>16. Holds(z, 4 + 2 * k, x) /\ Holds(z, 4 + 2 * k + n, u) /\ Holds(b, 16 + 2 * k + n, t)
  BY <1>13, <1>14, <1>15, Zenon
<1>17. Holds(b, 0 + (4 + 2 * k), x) /\ Holds(b, 0 + (4 + 2 * k + n), u)
  BY <1>8, <1>9, <1>13, <1>14, <1>15, <1>16, HoldsTrans, Zenon
<1>18. Holds(z, 0 + 2, w) /\ Holds(z, 0 + (2 + 2 * k), f) /\ Holds(z, 0 + 0, h)
  BY <1>5, <1>6, <1>7, <1>12, <1>13, <1>15, HoldsTrans, Zenon
<1>19. Holds(z, 2, w) /\ Holds(z, 2 + 2 * k, f) /\ Holds(z, 0, h)
  BY <1>15, <1>18, Zenon
<1>20. Holds(b, 0 + 2, w) /\ Holds(b, 0 + (2 + 2 * k), f) /\ Holds(b, 0 + 0, h)
  BY <1>5, <1>6, <1>7, <1>13, <1>14, <1>15, <1>19, HoldsTrans, Zenon
<1>21. Holds(b, 0, h)
  BY <1>15, <1>20, Zenon
<1>22. b[1] = m /\ b[2] = EntryLength(e)
  <2>1. 1 \in 1..2 /\ 2 \in 1..2 /\ 0 + 1 = 1 /\ 0 + 2 = 2
    OBVIOUS
  <2>2. b[0 + 1] = h[1] /\ b[0 + 2] = h[2]
    BY <1>5, <1>21, <2>1, Zenon DEF Holds
  <2>. QED
    BY <1>5, <2>1, <2>2, Zenon
<1>23. Len(b) = 2 + EntryLength(e) + 4 * m
  BY <1>14, <1>15, Zenon
<1>. QED
  BY <1>11, <1>14, <1>15, <1>16, <1>17, <1>20, <1>22, <1>23, Zenon DEF k, n, m, w, f, x, u, t

-----------------------------------------------------------------------------
(* Reading what was written *)

\* The list of positions is read to its end, and the occurrences of MagicBytes are put back.
LEMMA RecoverProp ==
    ASSUME NEW e, Fits(e), NEW b \in Seq(Cell),
           Holds(b, 0, PosWords(e)), Holds(b, 2 * Len(Positions(e)), EndMark),
           Holds(b, 2 * Len(Positions(e)) + 2, Escaped(e))
    PROVE  LET r == recoverMagicBytes(b)
               k == Len(Positions(e))
               n == Len(Strings(e))
           IN  /\ r.n = 2 * k + 2
               /\ r.b \in Seq(Cell) /\ Len(r.b) = Len(b)
               /\ Holds(r.b, 2 * k + 2, Strings(e))
               /\ \A i \in 1..Len(b) : i > 2 * k + 2 + n => r.b[i] = b[i]
<1> DEFINE s == Strings(e)
           n == Len(s)
           pos == Positions(e)
           k == Len(pos)
           P == Places(e)
           x == Escaped(e)
           N == Len(b)
           word(j) == Slice(b, 2 * j, 2 * j + 2)
           Ends(j) == word(j) = EndMark /\ \A m \in 0..j - 1 : word(m) # EndMark
           end == CHOOSE j \in 0..N \div 2 : Ends(j)
           Q == {Uint32(word(m)) + 2 : m \in 0..end - 1}
           R == {pos[i] + 2 * k + 2 : i \in 1..k}
           o == 2 * k + 2
<1>1. HasStrings(e)
  BY DEF Fits
<1>2. /\ s \in Seq(Cell) /\ n \in Nat /\ k \in Nat
      /\ \A i \in 1..k : pos[i] \in Nat /\ pos[i] + 4 <= n /\ HasMagicAt(s, pos[i])
      /\ P \in SUBSET Nat /\ Apart(P)
  BY <1>1, PositionsProp, Zenon
<1>3. N \in Nat
  BY LenNat
<1>4. /\ x \in Seq(Cell) /\ Len(x) = n
      /\ \A i \in 1..n : (\A p \in P : i \notin p + 1..p + 4) => x[i] = s[i]
  BY <1>1, EscapedProp, Zenon
<1>5. P = {pos[i] : i \in 1..k}
  BY DEF Places
<1>6. o + n <= N /\ \A i \in 1..n : b[o + i] = x[i]
  BY <1>4, Zenon DEF Holds
<1>7. Holds(b, 2 * k, EndMark) /\ Holds(b, 0, PosWords(e))
  OBVIOUS
<1>8. recoverMagicBytes(b) = [n |-> 2 * end + 2, b |-> Overwritten(b, Q, MagicBytes)]
  BY DEF recoverMagicBytes
<1>9. /\ PosWords(e) \in Seq(Cell)
      /\ \A j \in 1..k : /\ pos[j] + 2 * k \in Nat /\ pos[j] + 2 * k < FF
                         /\ Holds(PosWords(e), 2 * (j - 1), PutUint32(pos[j] + 2 * k))
  BY PosWordsLayout, Zenon
<1>. HIDE DEF s, n, pos, k, P, x, N
<1>10. ASSUME NEW j \in 1..k PROVE word(j - 1) = <<pos[j] + 2 * k, 0>>
  <2> DEFINE v == pos[j] + 2 * k
             q == 2 * (j - 1)
  <2>1. v \in Nat /\ v < FF /\ Holds(PosWords(e), q, PutUint32(v))
    BY <1>9, Zenon
  <2>2. v < Base
    <3>. HIDE DEF v
    <3>. QED
      BY <2>1, CellFacts, BaseFacts
  <2>3. PutUint32(v) \in Seq(Cell) /\ Len(PutUint32(v)) = 2 /\ PutUint32(v) = <<v, 0>>
    <3>. HIDE DEF v
    <3>. QED
      BY <2>1, <2>2, PutUint32Type, Zenon
  <2>4. q \in Nat /\ 0 \in Nat /\ 0 + q = q
    BY ONLY <1>2, j \in 1..k
  <2>. HIDE DEF v, q
  <2>5. Holds(b, 0 + q, PutUint32(v))
    BY <1>7, <1>9, <2>1, <2>3, <2>4, HoldsTrans, Zenon
  <2>6. Holds(b, q, PutUint32(v))
    BY <2>4, <2>5, Zenon
  <2>7. q + 2 = q + Len(PutUint32(v))
    BY <2>3, Zenon
  <2>8. Slice(b, q, q + 2) = PutUint32(v)
    <3> DEFINE t == PutUint32(v)
    <3>1. t \in Seq(Cell) /\ q + 2 = q + Len(t) /\ Holds(b, q, t) /\ q \in Nat
      BY <2>3, <2>4, <2>6, <2>7, Zenon
    <3>. HIDE DEF t
    <3>2. Slice(b, q, q + 2) = t
      BY ONLY <3>1, SliceHolds, b \in Seq(Cell)
    <3>. QED
      BY <3>2 DEF t
  <2>. QED
    BY <2>3, <2>8, Zenon DEF q, v
<1>11. word(k) = EndMark
  <2>1. 2 * k \in Nat /\ EndMark \in Seq(Cell) /\ 2 * k + 2 = 2 * k + Len(EndMark)
    BY <1>2, MagicFacts
  <2>. QED
    BY ONLY <1>7, <2>1, SliceHolds, b \in Seq(Cell)
<1>12. \A m \in 0..k - 1 : word(m) = <<pos[m + 1] + 2 * k, 0>>
  <2>. SUFFICES ASSUME NEW m \in 0..k - 1 PROVE word(m) = <<pos[m + 1] + 2 * k, 0>>
    OBVIOUS
  <2>. HIDE DEF word
  <2> DEFINE j == m + 1
  <2>1. j \in 1..k /\ j - 1 = m
    BY ONLY <1>2, m \in 0..k - 1
  <2>. HIDE DEF j
  <2>2. word(j - 1) = <<pos[j] + 2 * k, 0>>
    BY <1>10, <2>1, Zenon
  <2>. QED
    BY <2>1, <2>2, Zenon DEF j
<1>13. \A m \in 0..k - 1 : word(m) # EndMark
  <2>. HIDE DEF word
  <2>. SUFFICES ASSUME NEW m \in 0..k - 1, word(m) = EndMark PROVE FALSE
    OBVIOUS
  <2>1. m + 1 \in 1..k
    BY ONLY <1>2, m \in 0..k - 1
  <2>2. pos[m + 1] + 2 * k \in Nat /\ pos[m + 1] + 2 * k < FF
    BY <1>9, <2>1, Zenon
  <2> DEFINE v == pos[m + 1] + 2 * k
  <2>3. <<v, 0>> = EndMark
    BY <1>12, Zenon
  <2>. HIDE DEF v
  <2>4. v = FF
    BY ONLY <2>3 DEF EndMark
  <2>. QED
    BY <2>2, <2>4, CellFacts DEF v
<1>14. end = k
  <2>. HIDE DEF word
  <2>1. k \in 0..N \div 2
    BY ONLY <1>2, <1>3, <1>6
  <2>2. Ends(k)
    BY <1>11, <1>13, Zenon
  <2>3. end \in 0..N \div 2 /\ Ends(end)
    <3>. HIDE DEF Ends
    <3>. QED
      BY <2>1, <2>2, Zenon
  <2>. HIDE DEF end
  <2>4. end \in Nat
    BY ONLY <1>3, <2>3
  <2>5. ~(end < k)
    <3>. SUFFICES ASSUME end < k PROVE FALSE
      OBVIOUS
    <3>1. end \in 0..k - 1
      BY ONLY <1>2, <2>4, end < k
    <3>. QED
      BY <1>13, <2>3, <3>1, Zenon
  <2>6. ~(k < end)
    <3>. SUFFICES ASSUME k < end PROVE FALSE
      OBVIOUS
    <3>1. k \in 0..end - 1
      BY ONLY <1>2, <2>4, k < end
    <3>. QED
      BY <1>11, <2>3, <3>1, Zenon
  <2>. QED
    BY ONLY <1>2, <2>4, <2>5, <2>6
<1>15. Q = R
  <2>1. ASSUME NEW m \in 0..k - 1 PROVE Uint32(word(m)) + 2 = pos[m + 1] + 2 * k + 2
    <3> DEFINE v == pos[m + 1] + 2 * k
    <3>1. m + 1 \in 1..k
      BY ONLY <1>2, m \in 0..k - 1
    <3>2. v \in Nat
      BY <1>9, <3>1, Zenon
    <3>3. word(m) = <<v, 0>>
      BY <1>12, Zenon
    <3>. HIDE DEF v, word
    <3>4. Uint32(<<v, 0>>) = v
      BY ONLY <3>2, BaseFacts DEF Uint32
    <3>. QED
      BY <3>3, <3>4, Zenon DEF v
  <2>2. Q = {Uint32(word(m)) + 2 : m \in 0..k - 1}
    BY <1>14, Zenon
  <2>. HIDE DEF word, Q
  <2>3. ASSUME NEW y \in Q PROVE y \in R
    <3>1. PICK m \in 0..k - 1 : y = Uint32(word(m)) + 2
      BY <2>2, Zenon
    <3>2. m + 1 \in 1..k
      BY ONLY <1>2, m \in 0..k - 1
    <3>. QED
      BY <2>1, <3>1, <3>2, Zenon
  <2>4. ASSUME NEW y \in R PROVE y \in Q
    <3>1. PICK i \in 1..k : y = pos[i] + 2 * k + 2
      BY <2>4, Zenon
    <3> DEFINE m == i - 1
    <3>2. m \in 0..k - 1 /\ m + 1 = i
      BY ONLY <1>2, i \in 1..k
    <3>. HIDE DEF m
    <3>. QED
      BY <2>1, <2>2, <3>1, <3>2, Zenon
  <2>. HIDE DEF R
  <2>. QED
    BY <2>3, <2>4, Zenon
<1> DEFINE z == Overwritten(b, R, MagicBytes)
<1>16. recoverMagicBytes(b) = [n |-> o, b |-> z]
  <2>. HIDE DEF Q, R, end
  <2>. QED
    BY <1>8, <1>14, <1>15, Zenon
<1>. HIDE DEF Q, end, o
<1>17. o \in Nat /\ o = 2 * k + 2
  BY ONLY <1>2 DEF o
<1>18. \A y : y \in R <=> \E p \in P : y = p + o
  <2>1. ASSUME NEW i \in 1..k PROVE pos[i] + 2 * k + 2 = pos[i] + o
    <3>1. pos[i] \in Nat
      BY <1>2, Zenon
    <3>. QED
      BY ONLY <1>2, <1>17, <3>1
  <2>2. \A y : y \in R <=> \E i \in 1..k : y = pos[i] + o
    BY <2>1, Zenon
  <2>. QED
    BY <1>5, <2>2, Zenon
<1>. HIDE DEF R
<1>19. R \in SUBSET Nat /\ Apart(R)
  <2>1. \A p \in P : p \in Nat /\ p + o \in Nat
    BY <1>2, <1>17
  <2>2. R \in SUBSET Nat
    BY <1>18, <2>1, Zenon
  <2>3. ASSUME NEW y \in R, NEW w \in R, y # w PROVE y + 4 <= w \/ w + 4 <= y
    <3>1. PICK p \in P : y = p + o
      BY <1>18
    <3>2. PICK q \in P : w = q + o
      BY <1>18
    <3>3. p # q
      BY <2>3, <3>1, <3>2, Zenon
    <3>4. p + 4 <= q \/ q + 4 <= p
      BY <1>2, <3>3, Zenon DEF Apart
    <3>5. p \in Nat /\ q \in Nat
      BY <2>1, Zenon
    <3>. QED
      BY ONLY <1>17, <3>1, <3>2, <3>4, <3>5
  <2>. QED
    BY <2>2, <2>3, Zenon DEF Apart
<1>20. /\ z \in Seq(Cell) /\ Len(z) = N
       /\ \A p \in R, j \in 1..4 : p + j <= N => z[p + j] = MagicBytes[j]
       /\ \A i \in 1..N : (\A p \in R : i \notin p + 1..p + 4) => z[i] = b[i]
  BY <1>19, MagicFacts, OverwrittenProp, Zenon DEF N
<1>. HIDE DEF z
<1>21. ASSUME NEW i \in 1..n PROVE z[o + i] = s[i]
  <2>1. CASE \E p \in P : i \in p + 1..p + 4
    <3>1. PICK p \in P : i \in p + 1..p + 4
      BY <2>1
    <3> DEFINE j == i - p
               y == p + o
    <3>2. p \in Nat
      BY <1>2
    <3>3. /\ j \in 1..4 /\ y + j = o + i /\ y + j <= N /\ p + j = i
      BY ONLY <1>2, <1>3, <1>6, <1>17, <3>1, <3>2, i \in 1..n
    <3>4. y \in R
      BY <1>18, Zenon
    <3>. HIDE DEF j, y
    <3>5. z[y + j] = MagicBytes[j]
      BY <1>20, <3>3, <3>4, Zenon
    <3>6. HasMagicAt(s, p)
      BY <1>2, <1>5
    <3>7. s[p + j] = MagicBytes[j]
      BY <3>3, <3>6, Zenon DEF HasMagicAt
    <3>. QED
      BY <3>3, <3>5, <3>7, Zenon
  <2>2. CASE ~ \E p \in P : i \in p + 1..p + 4
    <3>1. x[i] = s[i] /\ b[o + i] = x[i]
      <4>1. o = 2 * k + 2
        BY <1>17, Zenon
      <4>. QED
        BY <1>4, <1>6, <2>2, Zenon DEF o
    <3>2. o + i \in 1..N
      BY ONLY <1>2, <1>3, <1>6, <1>17, i \in 1..n
    <3>3. \A y \in R : o + i \notin y + 1..y + 4
      <4>. SUFFICES ASSUME NEW y \in R, o + i \in y + 1..y + 4 PROVE FALSE
        OBVIOUS
      <4>1. PICK p \in P : y = p + o
        BY <1>18
      <4>2. p \in Nat
        BY <1>2
      <4>3. i \in p + 1..p + 4
        BY ONLY <1>17, <4>1, <4>2, i \in 1..n, <1>2, o + i \in y + 1..y + 4
      <4>. QED
        BY <2>2, <4>3, Zenon
    <3>. QED
      BY <1>20, <3>1, <3>2, <3>3, Zenon
  <2>. QED
    BY <2>1, <2>2
<1>22. ASSUME NEW i \in 1..N, i > o + n PROVE z[i] = b[i]
  <2>1. \A y \in R : i \notin y + 1..y + 4
    <3>. SUFFICES ASSUME NEW y \in R, i \in y + 1..y + 4 PROVE FALSE
      OBVIOUS
    <3>1. PICK p \in P : y = p + o
      BY <1>18
    <3>2. p \in Nat /\ p + 4 <= n
      BY <1>2, <1>5
    <3>. QED
      BY ONLY <1>2, <1>3, <1>17, <1>22, <3>1, <3>2, i \in y + 1..y + 4
  <2>. QED
    BY <1>20, <2>1, Zenon
<1>23. Holds(z, o, s)
  BY <1>6, <1>20, <1>21, Zenon DEF Holds, n, o
<1> DEFINE r == recoverMagicBytes(b)
<1>24. r.n = o /\ r.b = z
  BY <1>16
<1>. HIDE DEF r
<1>25. /\ r.n = o /\ r.b \in Seq(Cell) /\ Len(r.b) = N /\ Holds(r.b, o, s)
       /\ \A i \in 1..N : i > o + n => r.b[i] = b[i]
  BY <1>20, <1>22, <1>23, <1>24, Zenon
<1>. QED
  BY <1>25, Zenon DEF r, o, n, s, k, pos, N

Entry == [key : Seq(Cell), value : Seq(Cell), nextKey : Seq(Cell),
          height : Int64s, lastHeight : Int64s, serialNum : Int64s]

LEMMA EntryFields ==
    ASSUME NEW e \in Entry
    PROVE  HasStrings(e) /\ HasNumbers(e)
BY DEF Entry, HasStrings, HasNumbers

LEMMA Uint32Small ==
    ASSUME NEW v \in Nat, v < Base, NEW b \in Seq(Cell), NEW p \in Nat, Holds(b, p, PutUint32(v))
    PROVE  Uint32(Slice(b, p, p + 2)) = v /\ (p = 0 => Uint32(b) = v)
<1> DEFINE t == PutUint32(v)
<1>1. t \in Seq(Cell) /\ Len(t) = 2 /\ t = <<v, 0>>
  BY PutUint32Type, Zenon
<1>2. p + 2 = p + Len(t) /\ Holds(b, p, t)
  BY <1>1, Zenon
<1>3. t[1] = v /\ t[2] = 0
  <2>. HIDE DEF t
  <2>. QED
    BY ONLY <1>1
<1>4. t \in Seq(Cell)
  BY <1>1, Zenon
<1>. HIDE DEF t
<1>5. Slice(b, p, p + 2) = t
  BY ONLY <1>2, <1>4, SliceHolds, b \in Seq(Cell), p \in Nat
<1>6. Uint32(t) = v
  BY ONLY <1>3, BaseFacts, v \in Nat DEF Uint32
<1>7. ASSUME p = 0 PROVE Uint32(b) = v
  <2>1. b[0 + 1] = t[1] /\ b[0 + 2] = t[2]
    <3>1. 1 \in 1..2 /\ 2 \in 1..2
      OBVIOUS
    <3>. QED
      BY <1>1, <1>2, <1>7, <3>1, Zenon DEF Holds
  <2>2. 0 + 1 = 1 /\ 0 + 2 = 2
    OBVIOUS
  <2>3. b[1] = v /\ b[2] = 0
    BY <1>3, <2>1, <2>2, Zenon
  <2>. QED
    BY ONLY <2>3, BaseFacts, v \in Nat DEF Uint32
<1>. QED
  BY <1>5, <1>6, <1>7, Zenon

LEMMA Int64At ==
    ASSUME NEW v \in Int64s, NEW b \in Seq(Cell), NEW p \in Nat, Holds(b, p, PutUint64(v))
    PROVE  Int64(Slice(b, p, p + 4)) = v
<1> DEFINE t == PutUint64(v)
<1>1. t \in Seq(Cell) /\ Len(t) = 4 /\ Int64(t) = v
  BY Int64RoundTrip, Zenon
<1>2. t \in Seq(Cell) /\ p + 4 = p + Len(t) /\ Holds(b, p, t)
  BY <1>1, Zenon
<1>. HIDE DEF t
<1>3. Slice(b, p, p + 4) = t
  BY ONLY <1>2, SliceHolds, b \in Seq(Cell), p \in Nat
<1>. QED
  BY <1>1, <1>3, Zenon

LEMMA DecodeProp ==
    ASSUME NEW e \in Entry, Fits(e), NEW l \in Seq(Int64s), NEW b \in Seq(Cell),
           Holds(b, 0, Strings(e)), Holds(b, Len(Strings(e)), Numbers(e)),
           Holds(b, Len(Strings(e)) + 12, SNListToBytes(l))
    PROVE  EntryFromBytes(b, Len(l)) = [entry |-> e, list |-> l]
<1> DEFINE s == Strings(e)
           n == Len(s)
           kl == Len(e.key)
           vl == Len(e.value)
           nl == Len(e.nextKey)
           m == Len(l)
           keyLen == Uint32(b)
           v == 2 + keyLen
           valueLen == Uint32(Slice(b, v, v + 2))
           k == v + 2 + valueLen
           nextLen == Uint32(Slice(b, k, k + 2))
           i == k + 2 + nextLen
           int(j) == Int64(Slice(b, i + 4 * j, i + 4 * j + 4))
<1>1. HasStrings(e) /\ HasNumbers(e)
  BY EntryFields
<1>2. e.key \in Seq(Cell) /\ e.value \in Seq(Cell) /\ e.nextKey \in Seq(Cell)
  BY DEF Entry
<1>3. /\ s \in Seq(Cell) /\ n = 6 + kl + vl + nl /\ kl \in Nat /\ vl \in Nat /\ nl \in Nat
      /\ Holds(s, 0, PutUint32(kl)) /\ Holds(s, 2, e.key)
      /\ Holds(s, 2 + kl, PutUint32(vl)) /\ Holds(s, 4 + kl, e.value)
      /\ Holds(s, 4 + kl + vl, PutUint32(nl)) /\ Holds(s, 6 + kl + vl, e.nextKey)
  BY <1>1, StringsLayout, Zenon
<1>4. n < Base
  <2>1. EntryLength(e) = 2 * Len(Positions(e)) + 2 + n + 12 /\ Len(Positions(e)) \in Nat /\ n \in Nat
    BY <1>1, PositionsProp, Zenon
  <2>2. EntryLength(e) < Base - 1 /\ Base \in Nat
    BY BaseFacts DEF Fits, MaxEntryBytes
  <2>. HIDE DEF n
  <2>. QED
    BY ONLY <2>1, <2>2
<1>5. m \in Nat /\ \A j \in 1..m : l[j] \in Int64s
  BY LenProperties, ElementOfSeq
<1>6. Holds(b, 0, s) /\ Holds(b, n, Numbers(e)) /\ Holds(b, n + 12, SNListToBytes(l))
  OBVIOUS
<1>7. EntryFromBytes(b, Len(l)) =
        [entry |-> [key |-> Slice(b, 2, v), value |-> Slice(b, v + 2, k),
                    nextKey |-> Slice(b, k + 2, i),
                    height |-> int(0), lastHeight |-> int(1), serialNum |-> int(2)],
         list |-> [j \in 1..m |-> int(2 + j)]]
  BY DEF EntryFromBytes
<1>. HIDE DEF s, n, kl, vl, nl, m
<1>8. /\ 2 + kl \in Nat /\ 4 + kl \in Nat /\ 4 + kl + vl \in Nat /\ 6 + kl + vl \in Nat
      /\ 0 \in Nat /\ 2 \in Nat /\ \A q \in Nat : 0 + q = q
      /\ kl < Base /\ vl < Base /\ nl < Base /\ n \in Nat
  <2>1. n = 6 + kl + vl + nl /\ kl \in Nat /\ vl \in Nat /\ nl \in Nat /\ Base \in Nat
    BY <1>3, BaseFacts, Zenon
  <2>2. \A q \in Nat : 0 + q = q
    OBVIOUS
  <2>3. kl < Base /\ vl < Base /\ nl < Base /\ n \in Nat
    BY ONLY <1>4, <2>1
  <2>4. 2 + kl \in Nat /\ 4 + kl \in Nat /\ 4 + kl + vl \in Nat /\ 6 + kl + vl \in Nat
    BY ONLY <2>1
  <2>5. 0 \in Nat /\ 2 \in Nat
    OBVIOUS
  <2>. QED
    BY <2>2, <2>3, <2>4, <2>5, Zenon
<1>9. \A x \in Nat : PutUint32(x) \in Seq(Cell)
  BY PutUint32Type, Zenon
<1>10. /\ Holds(b, 0 + 0, PutUint32(kl)) /\ Holds(b, 0 + 2, e.key)
       /\ Holds(b, 0 + (2 + kl), PutUint32(vl)) /\ Holds(b, 0 + (4 + kl), e.value)
       /\ Holds(b, 0 + (4 + kl + vl), PutUint32(nl)) /\ Holds(b, 0 + (6 + kl + vl), e.nextKey)
  BY <1>2, <1>3, <1>6, <1>8, <1>9, HoldsTrans, Zenon
<1>11. /\ Holds(b, 0, PutUint32(kl)) /\ Holds(b, 2, e.key)
       /\ Holds(b, 2 + kl, PutUint32(vl)) /\ Holds(b, 4 + kl, e.value)
       /\ Holds(b, 4 + kl + vl, PutUint32(nl)) /\ Holds(b, 6 + kl + vl, e.nextKey)
  BY <1>8, <1>10, Zenon
<1>12. keyLen = kl
  BY <1>3, <1>8, <1>11, Uint32Small, Zenon
<1>. HIDE DEF keyLen
<1>13. v = 2 + kl /\ v + 2 = 4 + kl
  BY ONLY <1>3, <1>12
<1>14. valueLen = vl
  <2>1. Uint32(Slice(b, 2 + kl, (2 + kl) + 2)) = vl
    BY <1>3, <1>8, <1>11, Uint32Small, Zenon
  <2>. HIDE DEF v
  <2>. QED
    BY <1>13, <2>1, Zenon
<1>. HIDE DEF valueLen
<1>15. k = 4 + kl + vl /\ k + 2 = 6 + kl + vl
  <2>. HIDE DEF v
  <2>. QED
    BY ONLY <1>3, <1>13, <1>14
<1>16. nextLen = nl
  <2>1. Uint32(Slice(b, 4 + kl + vl, (4 + kl + vl) + 2)) = nl
    BY <1>3, <1>8, <1>11, Uint32Small, Zenon
  <2>. HIDE DEF k
  <2>. QED
    BY <1>15, <2>1, Zenon
<1>. HIDE DEF nextLen
<1>17. i = n
  <2>. HIDE DEF k
  <2>. QED
    BY ONLY <1>3, <1>15, <1>16
<1>. HIDE DEF v, k, i
<1>18. Slice(b, 2, v) = e.key
  <2>1. v = 2 + Len(e.key) /\ 2 \in Nat
    BY <1>13 DEF kl
  <2>. QED
    BY ONLY <1>2, <1>11, <2>1, SliceHolds, b \in Seq(Cell)
<1>19. Slice(b, v + 2, k) = e.value
  <2>1. v + 2 \in Nat /\ k = (v + 2) + Len(e.value) /\ Holds(b, v + 2, e.value)
    <3>1. k = (v + 2) + vl /\ v + 2 \in Nat
      BY ONLY <1>3, <1>8, <1>13, <1>15
    <3>. QED
      BY <1>11, <1>13, <3>1, Zenon DEF vl
  <2> DEFINE p == v + 2
             x == e.value
  <2>2. p \in Nat /\ k = p + Len(x) /\ Holds(b, p, x) /\ x \in Seq(Cell)
    BY <1>2, <2>1, Zenon
  <2>. HIDE DEF p, x
  <2>3. Slice(b, p, k) = x
    BY ONLY <2>2, SliceHolds, b \in Seq(Cell)
  <2>. QED
    BY <2>3, Zenon DEF p, x
<1>20. Slice(b, k + 2, i) = e.nextKey
  <2>1. k + 2 \in Nat /\ i = (k + 2) + Len(e.nextKey) /\ Holds(b, k + 2, e.nextKey)
    <3>1. i = (k + 2) + nl /\ k + 2 \in Nat
      BY ONLY <1>3, <1>8, <1>15, <1>17
    <3>. QED
      BY <1>11, <1>15, <3>1, Zenon DEF nl
  <2> DEFINE p == k + 2
             x == e.nextKey
  <2>2. p \in Nat /\ i = p + Len(x) /\ Holds(b, p, x) /\ x \in Seq(Cell)
    BY <1>2, <2>1, Zenon
  <2>. HIDE DEF p, x
  <2>3. Slice(b, p, i) = x
    BY ONLY <2>2, SliceHolds, b \in Seq(Cell)
  <2>. QED
    BY <2>3, Zenon DEF p, x
<1>21. /\ Numbers(e) \in Seq(Cell) /\ Holds(Numbers(e), 0, PutUint64(e.height))
       /\ Holds(Numbers(e), 4, PutUint64(e.lastHeight)) /\ Holds(Numbers(e), 8, PutUint64(e.serialNum))
  BY <1>1, NumbersLayout, Zenon
<1>22. /\ e.height \in Int64s /\ e.lastHeight \in Int64s /\ e.serialNum \in Int64s
       /\ \A x \in Int64s : PutUint64(x) \in Seq(Cell)
  BY <1>1, Int64RoundTrip, Zenon DEF HasNumbers
<1>23. /\ Holds(b, n + 0, PutUint64(e.height)) /\ Holds(b, n + 4, PutUint64(e.lastHeight))
       /\ Holds(b, n + 8, PutUint64(e.serialNum))
  <2>1. 0 \in Nat /\ 4 \in Nat /\ 8 \in Nat
    OBVIOUS
  <2>. QED
    BY <1>6, <1>8, <1>21, <1>22, <2>1, HoldsTrans, Zenon
<1>24. /\ i + 4 * 0 = n + 0 /\ i + 4 * 1 = n + 4 /\ i + 4 * 2 = n + 8
       /\ n + 0 \in Nat /\ n + 4 \in Nat /\ n + 8 \in Nat
  BY ONLY <1>8, <1>17
<1>25. int(0) = e.height /\ int(1) = e.lastHeight /\ int(2) = e.serialNum
  <2>1. /\ Int64(Slice(b, n + 0, (n + 0) + 4)) = e.height
        /\ Int64(Slice(b, n + 4, (n + 4) + 4)) = e.lastHeight
        /\ Int64(Slice(b, n + 8, (n + 8) + 4)) = e.serialNum
    BY <1>22, <1>23, <1>24, Int64At, Zenon
  <2>. QED
    BY <1>24, <2>1, Zenon
<1>26. ASSUME NEW j \in 1..m PROVE int(2 + j) = l[j]
  <2> DEFINE p == 4 * (j - 1)
  <2>1. /\ SNListToBytes(l) \in Seq(Cell) /\ Holds(SNListToBytes(l), p, PutUint64(l[j]))
    BY ListLayout, Zenon DEF m
  <2>2. p \in Nat /\ n + 12 \in Nat /\ n + 12 + p \in Nat /\ i + 4 * (2 + j) = n + 12 + p
    BY ONLY <1>5, <1>8, <1>17, j \in 1..m
  <2>. HIDE DEF p
  <2>3. Holds(b, n + 12 + p, PutUint64(l[j]))
    BY <1>5, <1>6, <1>22, <2>1, <2>2, HoldsTrans, Zenon
  <2>4. Int64(Slice(b, n + 12 + p, n + 12 + p + 4)) = l[j]
    BY <1>5, <2>2, <2>3, Int64At, Zenon
  <2>. QED
    BY <2>2, <2>4, Zenon
<1>27. [j \in 1..m |-> int(2 + j)] = l
  <2>. HIDE DEF int
  <2>1. [j \in 1..m |-> int(2 + j)] = [j \in 1..m |-> l[j]]
    BY <1>26, Zenon
  <2>2. l \in [1..m -> Int64s]
    BY LenProperties DEF m
  <2>3. l = [j \in 1..m |-> l[j]]
    BY ONLY <2>2
  <2>. QED
    BY <2>1, <2>3, Zenon
<1>28. e = [key |-> e.key, value |-> e.value, nextKey |-> e.nextKey,
            height |-> e.height, lastHeight |-> e.lastHeight, serialNum |-> e.serialNum]
  BY ONLY e \in Entry DEF Entry
<1>. HIDE DEF int
<1>. QED
  BY <1>7, <1>18, <1>19, <1>20, <1>25, <1>27, <1>28, Zenon

-----------------------------------------------------------------------------
(* Entries in the file *)

LEMMA SliceKeeps ==
    ASSUME NEW b \in Seq(Cell), NEW t \in Seq(Cell), NEW p \in Nat, NEW q \in Nat, NEW to \in Nat,
           Holds(b, p + q, t), p + q + Len(t) <= to, to <= Len(b)
    PROVE  Holds(Slice(b, p, to), q, t)
<1> DEFINE n == Len(t)
           x == Slice(b, p, to)
<1>1. n \in Nat
  BY LenNat, Zenon
<1>2. \A i \in 1..n : b[p + q + i] = t[i]
  BY Zenon DEF Holds
<1>3. p + q + n <= to
  OBVIOUS
<1>. HIDE DEF n
<1>4. p <= to
  BY ONLY <1>1, <1>3, p \in Nat, q \in Nat, to \in Nat
<1>5. Len(x) = to - p /\ \A i \in 1..(to - p) : x[i] = b[p + i]
  BY <1>4, SliceFacts, Zenon
<1>. HIDE DEF x
<1>6. ASSUME NEW i \in 1..n PROVE x[q + i] = t[i]
  <2>1. q + i \in 1..(to - p) /\ p + (q + i) = p + q + i
    BY ONLY <1>1, <1>3, p \in Nat, q \in Nat, to \in Nat, i \in 1..n
  <2>. QED
    BY <1>2, <1>5, <2>1, Zenon
<1>7. q + n <= to - p
  BY ONLY <1>1, <1>3, p \in Nat, q \in Nat, to \in Nat
<1>. QED
  BY <1>5, <1>6, <1>7, Zenon DEF Holds, n, x

LEMMA HoldsConcat ==
    ASSUME NEW b \in Seq(Cell), NEW s \in Seq(Cell), NEW t \in Seq(Cell), NEW p \in Nat,
           Holds(b, p, s), Holds(b, p + Len(s), t)
    PROVE  Holds(b, p, s \o t)
<1> DEFINE m == Len(s)
           n == Len(t)
           u == s \o t
<1>1. m \in Nat /\ n \in Nat /\ Len(b) \in Nat
  BY LenNat, Zenon
<1>2. /\ Len(u) = m + n
      /\ \A i \in 1..(m + n) : u[i] = IF i <= m THEN s[i] ELSE t[i - m]
  BY ConcatProperties
<1>3. /\ p + m + n <= Len(b) /\ \A i \in 1..m : b[p + i] = s[i]
      /\ \A i \in 1..n : b[p + m + i] = t[i]
  BY Zenon DEF Holds
<1>. HIDE DEF m, n, u
<1>4. ASSUME NEW i \in 1..(m + n) PROVE b[p + i] = u[i]
  <2>1. CASE i <= m
    <3>1. i \in 1..m
      BY ONLY <1>1, <2>1, i \in 1..(m + n)
    <3>. QED
      BY <1>2, <1>3, <2>1, <3>1, Zenon
  <2>2. CASE ~(i <= m)
    <3>1. i - m \in 1..n /\ p + m + (i - m) = p + i
      BY ONLY <1>1, <2>2, p \in Nat, i \in 1..(m + n)
    <3>. QED
      BY <1>2, <1>3, <2>2, <3>1, Zenon
  <2>. QED
    BY <2>1, <2>2
<1>5. p + (m + n) <= Len(b)
  BY ONLY <1>1, <1>3, p \in Nat
<1>. QED
  BY <1>2, <1>4, <1>5, Zenon DEF Holds, u

LEMMA ConcatMoves ==
    ASSUME NEW a \in Seq(Cell), NEW b \in Seq(Cell), NEW t \in Seq(Cell), NEW q \in Nat,
           Holds(b, q, t)
    PROVE  Holds(a \o b, Len(a) + q, t)
BY ConcatHolds, LenNat, HoldsTrans, Zenon

\* The parts of the bytes of an entry without its list,
HasParts(b, e) ==
    LET k == Len(Positions(e))
        n == Len(Strings(e))
    IN  /\ Holds(b, 0, PosWords(e)) /\ Holds(b, 2 * k, EndMark)
        /\ Holds(b, 2 * k + 2, Escaped(e)) /\ Holds(b, 2 * k + 2 + n, Numbers(e))

\* ... and with it.
HasLayout(b, e, l) ==
    LET k == Len(Positions(e))
        n == Len(Strings(e))
    IN  /\ b \in Seq(Cell) /\ Len(b) = 2 + EntryLength(e) + 4 * Len(l)
        /\ b[1] = Len(l) /\ b[2] = EntryLength(e)
        /\ Holds(b, 2, PosWords(e)) /\ Holds(b, 2 + 2 * k, EndMark)
        /\ Holds(b, 4 + 2 * k, Escaped(e)) /\ Holds(b, 4 + 2 * k + n, Numbers(e))
        /\ Holds(b, 16 + 2 * k + n, SNListToBytes(l))

\* The parts fill the bytes.
LEMMA LayoutUnique ==
    ASSUME NEW e \in Entry, Fits(e), NEW l \in Seq(Int64s), Len(l) < Base,
           NEW b, HasLayout(b, e, l)
    PROVE  b = EntryToBytes(e, l)
<1> DEFINE c == EntryToBytes(e, l)
           k == Len(Positions(e))
           n == Len(Strings(e))
           m == Len(l)
           EL == EntryLength(e)
           W == PosWords(e)
           X == Escaped(e)
           D == Numbers(e)
           L == SNListToBytes(l)
<1>1. HasStrings(e) /\ HasNumbers(e)
  BY EntryFields
<1>2. HasLayout(c, e, l)
  BY <1>1, EntryLayout, Zenon DEF HasLayout
<1>3. k \in Nat /\ n \in Nat /\ EL = 2 * k + 2 + n + 12
  BY <1>1, PositionsProp, Zenon
<1>4. Len(W) = 2 * k /\ Len(EndMark) = 2 /\ Len(X) = n /\ Len(D) = 12 /\ Len(L) = 4 * m /\ m \in Nat
  BY <1>1, PosWordsLayout, MagicFacts, EscapedProp, NumbersLayout, ListLayout, LenProperties, Zenon
<1>5. /\ b \in Seq(Cell) /\ Len(b) = 2 + EL + 4 * m /\ b[1] = m /\ b[2] = EL
      /\ \A i \in 1..2 * k : b[2 + i] = W[i]
      /\ \A i \in 1..2 : b[2 + 2 * k + i] = EndMark[i]
      /\ \A i \in 1..n : b[4 + 2 * k + i] = X[i]
      /\ \A i \in 1..12 : b[4 + 2 * k + n + i] = D[i]
      /\ \A i \in 1..4 * m : b[16 + 2 * k + n + i] = L[i]
  BY <1>4, Zenon DEF HasLayout, Holds
<1>6. /\ c \in Seq(Cell) /\ Len(c) = 2 + EL + 4 * m /\ c[1] = m /\ c[2] = EL
      /\ \A i \in 1..2 * k : c[2 + i] = W[i]
      /\ \A i \in 1..2 : c[2 + 2 * k + i] = EndMark[i]
      /\ \A i \in 1..n : c[4 + 2 * k + i] = X[i]
      /\ \A i \in 1..12 : c[4 + 2 * k + n + i] = D[i]
      /\ \A i \in 1..4 * m : c[16 + 2 * k + n + i] = L[i]
  BY <1>2, <1>4, Zenon DEF HasLayout, Holds
<1>. HIDE DEF c, k, n, m, EL, W, X, D, L
<1> DEFINE N == 2 + EL + 4 * m
<1>7. ASSUME NEW i \in 1..N PROVE b[i] = c[i]
  <2>1. CASE i = 1 \/ i = 2
    BY <1>5, <1>6, <2>1, Zenon
  <2>2. CASE i > 2 /\ i <= 2 + 2 * k
    <3> DEFINE j == i - 2
    <3>1. j \in 1..2 * k /\ 2 + j = i
      BY ONLY <1>3, <2>2, i \in 1..N, <1>4
    <3>. HIDE DEF j
    <3>. QED
      BY <1>5, <1>6, <3>1, Zenon
  <2>3. CASE i > 2 + 2 * k /\ i <= 4 + 2 * k
    <3> DEFINE j == i - (2 + 2 * k)
    <3>1. j \in 1..2 /\ 2 + 2 * k + j = i
      BY ONLY <1>3, <2>3, i \in 1..N, <1>4
    <3>. HIDE DEF j
    <3>. QED
      BY <1>5, <1>6, <3>1, Zenon
  <2>4. CASE i > 4 + 2 * k /\ i <= 4 + 2 * k + n
    <3> DEFINE j == i - (4 + 2 * k)
    <3>1. j \in 1..n /\ 4 + 2 * k + j = i
      BY ONLY <1>3, <2>4, i \in 1..N, <1>4
    <3>. HIDE DEF j
    <3>. QED
      BY <1>5, <1>6, <3>1, Zenon
  <2>5. CASE i > 4 + 2 * k + n /\ i <= 16 + 2 * k + n
    <3> DEFINE j == i - (4 + 2 * k + n)
    <3>1. j \in 1..12 /\ 4 + 2 * k + n + j = i
      BY ONLY <1>3, <2>5, i \in 1..N, <1>4
    <3>. HIDE DEF j
    <3>. QED
      BY <1>5, <1>6, <3>1, Zenon
  <2>6. CASE i > 16 + 2 * k + n
    <3> DEFINE j == i - (16 + 2 * k + n)
    <3>1. j \in 1..4 * m /\ 16 + 2 * k + n + j = i
      BY ONLY <1>3, <2>6, i \in 1..N, <1>4
    <3>. HIDE DEF j
    <3>. QED
      BY <1>5, <1>6, <3>1, Zenon
  <2>7. i \in Nat /\ i >= 1
    BY ONLY <1>3, <1>4, i \in 1..N
  <2>8. \/ i = 1 \/ i = 2
        \/ i > 2 /\ i <= 2 + 2 * k
        \/ i > 2 + 2 * k /\ i <= 4 + 2 * k
        \/ i > 4 + 2 * k /\ i <= 4 + 2 * k + n
        \/ i > 4 + 2 * k + n /\ i <= 16 + 2 * k + n
        \/ i > 16 + 2 * k + n
    BY ONLY <1>3, <2>7
  <2>. QED
    BY <2>1, <2>2, <2>3, <2>4, <2>5, <2>6, <2>8, Zenon
<1>8. b = c
  BY <1>5, <1>6, <1>7, SeqEqual, Zenon
<1>. QED
  BY <1>8 DEF c

\* Behind the list of positions the strings are put back, the numbers and the list stay.
LEMMA RecoverKeeps ==
    ASSUME NEW e \in Entry, Fits(e), NEW b \in Seq(Cell), HasParts(b, e)
    PROVE  LET r == recoverMagicBytes(b)
               k == Len(Positions(e))
               n == Len(Strings(e))
               x == Slice(r.b, r.n, Len(r.b))
           IN  /\ r.n = 2 * k + 2 /\ r.b \in Seq(Cell) /\ Len(r.b) = Len(b)
               /\ x \in Seq(Cell) /\ Holds(r.b, r.n, Strings(e))
               /\ Holds(x, 0, Strings(e)) /\ Holds(x, n, Numbers(e))
               /\ \A t \in Seq(Cell) : Holds(b, 2 * k + 14 + n, t) => Holds(x, n + 12, t)
<1> DEFINE r == recoverMagicBytes(b)
           k == Len(Positions(e))
           n == Len(Strings(e))
           s == Strings(e)
           D == Numbers(e)
           o == r.n
           z == r.b
           N == Len(b)
           x == Slice(z, o, Len(z))
<1>1. HasStrings(e) /\ HasNumbers(e)
  BY EntryFields
<1>2. k \in Nat /\ n \in Nat /\ s \in Seq(Cell)
  BY <1>1, PositionsProp, Zenon
<1>3. D \in Seq(Cell) /\ Len(D) = 12
  BY <1>1, NumbersLayout, Zenon
<1>4. /\ o = 2 * k + 2 /\ z \in Seq(Cell) /\ Len(z) = N /\ Holds(z, 2 * k + 2, s)
      /\ \A i \in 1..N : i > 2 * k + 2 + n => z[i] = b[i]
  BY RecoverProp, Zenon DEF HasParts
<1>5. N \in Nat /\ Holds(b, 2 * k + 2 + n, D)
  BY LenNat, Zenon DEF HasParts
<1>a. n = Len(s)
  OBVIOUS
<1>. HIDE DEF r, k, n, s, D, o, z, N
<1>6. o \in Nat /\ o + n \in Nat /\ o + n = 2 * k + 2 + n /\ o + (n + 12) = 2 * k + 14 + n /\ n + 12 \in Nat
  BY ONLY <1>2, <1>4
<1>7. ASSUME NEW t \in Seq(Cell), NEW q \in Nat, q >= n, Holds(b, o + q, t)
      PROVE  Holds(z, o + q, t)
  <2>1. o + q + Len(t) <= N /\ \A i \in 1..Len(t) : b[o + q + i] = t[i]
    BY <1>7, Zenon DEF Holds, N
  <2>2. Len(t) \in Nat
    BY LenNat, Zenon
  <2>3. ASSUME NEW i \in 1..Len(t) PROVE z[o + q + i] = t[i]
    <3>1. o + q + i \in 1..N /\ o + q + i > 2 * k + 2 + n
      BY ONLY <1>2, <1>4, <1>5, <1>6, <1>7, <2>1, <2>2, i \in 1..Len(t)
    <3>. QED
      BY <1>4, <2>1, <3>1, Zenon
  <2>. QED
    BY <1>4, <2>1, <2>3, Zenon DEF Holds
<1>8. ASSUME NEW t \in Seq(Cell), NEW q \in Nat, Holds(z, o + q, t)
      PROVE  Holds(x, q, t)
  <2>1. o + q + Len(t) <= Len(z)
    BY <1>8, Zenon DEF Holds
  <2>2. Len(z) \in Nat /\ Len(z) <= Len(z)
    BY ONLY <1>4, <1>5
  <2>. QED
    BY <1>4, <1>6, <1>8, <2>1, <2>2, SliceKeeps, Zenon
<1>9. x \in Seq(Cell)
  <2>1. o + n <= Len(z) /\ Len(z) \in Nat
    BY <1>4, <1>5, <1>6, <1>a, Zenon DEF Holds
  <2>2. o <= Len(z) /\ Len(z) <= Len(z)
    BY ONLY <1>2, <1>6, <2>1
  <2>. QED
    BY <1>4, <1>6, <2>1, <2>2, SliceFacts, Zenon
<1>10. Holds(x, 0, s)
  <2>1. 0 \in Nat /\ o + 0 = 2 * k + 2
    BY ONLY <1>2, <1>4
  <2>. QED
    BY <1>2, <1>4, <1>8, <2>1, Zenon
<1>11. Holds(x, n, D)
  <2>1. n >= n
    BY ONLY <1>2
  <2>. QED
    BY <1>2, <1>3, <1>5, <1>6, <1>7, <1>8, <2>1, Zenon
<1>12. ASSUME NEW t \in Seq(Cell), Holds(b, 2 * k + 14 + n, t) PROVE Holds(x, n + 12, t)
  <2>1. n + 12 >= n
    BY ONLY <1>2
  <2>. QED
    BY <1>6, <1>7, <1>8, <1>12, <2>1, Zenon
<1>. HIDE DEF x
<1>13. Holds(z, o, s)
  BY <1>4, Zenon
<1>14. /\ o = 2 * k + 2 /\ z \in Seq(Cell) /\ Len(z) = N /\ x \in Seq(Cell) /\ Holds(z, o, s)
       /\ Holds(x, 0, s) /\ Holds(x, n, D)
       /\ \A t \in Seq(Cell) : Holds(b, 2 * k + 14 + n, t) => Holds(x, n + 12, t)
  BY <1>4, <1>9, <1>10, <1>11, <1>12, <1>13, Zenon
<1>. QED
  BY <1>14, Zenon DEF x, z, o, r, k, n, s, D, N

\* The place p of the file f holds the entry e with the list l.
EncodedAt(f, p, e, l) ==
    LET b == EntryToBytes(e, l)
    IN  /\ Holds(f, p, MagicBytes) /\ Holds(f, p + 4, b)
        /\ Holds(f, p + 4 + Len(b), Zeros(getPaddingSize(Len(b))))

\* An entry and a list that fit their fields.
Good(e, l) == e \in Entry /\ Fits(e) /\ l \in Seq(Int64s) /\ Len(l) < Base

LEMMA GoodLayout ==
    ASSUME NEW e, NEW l, Good(e, l)
    PROVE  /\ HasLayout(EntryToBytes(e, l), e, l)
           /\ EntryToBytes(e, l) \in Seq(Cell) /\ Len(EntryToBytes(e, l)) = 2 + EntryLength(e) + 4 * Len(l)
           /\ EntryLength(e) \in Nat /\ EntryLength(e) < MaxEntryBytes /\ Len(l) \in Nat
           /\ Len(Positions(e)) \in Nat /\ Len(Strings(e)) \in Nat
           /\ EntryLength(e) = 2 * Len(Positions(e)) + 2 + Len(Strings(e)) + 12
<1>1. e \in Entry /\ Fits(e) /\ l \in Seq(Int64s) /\ Len(l) < Base
  BY DEF Good
<1>2. HasStrings(e) /\ HasNumbers(e)
  BY <1>1, EntryFields
<1>3. HasLayout(EntryToBytes(e, l), e, l)
  BY <1>1, <1>2, EntryLayout, Zenon DEF HasLayout
<1>4. /\ EntryLength(e) \in Nat /\ EntryLength(e) < MaxEntryBytes
      /\ Len(Positions(e)) \in Nat /\ Len(Strings(e)) \in Nat
      /\ EntryLength(e) = 2 * Len(Positions(e)) + 2 + Len(Strings(e)) + 12
  BY <1>1, <1>2, PositionsProp, Zenon DEF Fits
<1>5. Len(l) \in Nat
  BY <1>1, LenProperties
<1>. QED
  BY <1>3, <1>4, <1>5, Zenon DEF HasLayout

\* The header of an entry in the file.
LEMMA HeaderProp ==
    ASSUME file \in Seq(Cell), NEW p \in Nat, NEW e, NEW l, Good(e, l), EncodedAt(file, p, e, l)
    PROVE  /\ ValidAt(p) /\ NumberOfSN(p) = Len(l) /\ LengthAt(p) = EntryLength(e)
           /\ p + 6 + EntryLength(e) + 4 * Len(l) <= Len(file)
           /\ ReadAt(p + 4, 2 + EntryLength(e) + 4 * Len(l)) = EntryToBytes(e, l)
<1> DEFINE b == EntryToBytes(e, l)
           EL == EntryLength(e)
           m == Len(l)
           N == Len(file)
<1>1. /\ b \in Seq(Cell) /\ Len(b) = 2 + EL + 4 * m /\ EL \in Nat /\ EL < MaxEntryBytes /\ m \in Nat
      /\ b[1] = m /\ b[2] = EL
  BY GoodLayout, Zenon DEF HasLayout
<1>2. N \in Nat
  BY LenNat, Zenon
<1>3. p + 4 + Len(b) <= N /\ \A i \in 1..Len(b) : file[p + 4 + i] = b[i]
  BY Zenon DEF EncodedAt, Holds
<1>4. HasMagicAt(file, p)
  <2>1. p + 4 <= Len(file) /\ \A i \in 1..4 : file[p + i] = MagicBytes[i]
    BY MagicFacts, Zenon DEF EncodedAt, Holds
  <2>. QED
    BY <2>1, Zenon DEF HasMagicAt
<1>5. Holds(file, p + 4, b)
  BY DEF EncodedAt
<1>. HIDE DEF b, EL, m, N
<1>6. p + 4 + 1 = p + 5 /\ p + 4 + 2 = p + 6 /\ 1 \in 1..Len(b) /\ 2 \in 1..Len(b) /\ p + 4 \in Nat
  BY ONLY <1>1, p \in Nat
<1>7. file[p + 5] = m /\ file[p + 6] = EL
  BY <1>1, <1>3, <1>6, Zenon
<1>8. p + 6 + EL + 4 * m <= N /\ p \in 0..N - 6
  BY ONLY <1>1, <1>2, <1>3, p \in Nat
<1>9. ReadAt(p + 4, 2 + EL + 4 * m) = b
  <2> DEFINE q == p + 4
             to == p + 4 + (2 + EL + 4 * m)
  <2>1. q \in Nat /\ Holds(file, q, b) /\ to = q + Len(b)
    BY <1>1, <1>5, <1>6, Zenon
  <2>2. ReadAt(p + 4, 2 + EL + 4 * m) = Slice(file, q, to)
    BY DEF ReadAt
  <2>. HIDE DEF q, to
  <2>3. Slice(file, q, to) = b
    BY ONLY <1>1, <2>1, SliceHolds, file \in Seq(Cell)
  <2>. QED
    BY <2>2, <2>3, Zenon
<1>. QED
  BY <1>1, <1>4, <1>7, <1>8, <1>9, Zenon DEF ValidAt, NumberOfSN, LengthAt, N, m, EL, b

\* What readEntry reads behind the header, up to any place from the end of the numbers on.
LEMMA PartsProp ==
    ASSUME NEW e, NEW l, Good(e, l), NEW f \in Seq(Cell), NEW p \in Nat,
           Holds(f, p, EntryToBytes(e, l)), NEW x \in Nat, x <= 4 * Len(l)
    PROVE  LET y == Slice(f, p + 2, p + 2 + EntryLength(e) + x)
           IN  /\ y \in Seq(Cell) /\ Len(y) = EntryLength(e) + x /\ HasParts(y, e)
               /\ (x = 4 * Len(l) => Holds(y, EntryLength(e), SNListToBytes(l)))
<1> DEFINE b == EntryToBytes(e, l)
           k == Len(Positions(e))
           n == Len(Strings(e))
           m == Len(l)
           EL == EntryLength(e)
           W == PosWords(e)
           X == Escaped(e)
           D == Numbers(e)
           L == SNListToBytes(l)
           q == p + 2
           to == p + 2 + EL + x
           y == Slice(f, q, to)
<1>1. HasStrings(e) /\ HasNumbers(e) /\ Fits(e) /\ l \in Seq(Int64s)
  BY EntryFields DEF Good
<1>2. /\ HasLayout(b, e, l) /\ b \in Seq(Cell) /\ Len(b) = 2 + EL + 4 * m
      /\ EL \in Nat /\ m \in Nat /\ k \in Nat /\ n \in Nat /\ EL = 2 * k + 2 + n + 12
  BY GoodLayout, Zenon
<1>3. /\ W \in Seq(Cell) /\ Len(W) = 2 * k /\ EndMark \in Seq(Cell) /\ Len(EndMark) = 2
      /\ X \in Seq(Cell) /\ Len(X) = n /\ D \in Seq(Cell) /\ Len(D) = 12
      /\ L \in Seq(Cell) /\ Len(L) = 4 * m
  BY <1>1, PosWordsLayout, MagicFacts, EscapedProp, NumbersLayout, ListLayout, Zenon
<1>4. Holds(f, p, b) /\ p + Len(b) <= Len(f) /\ Len(f) \in Nat
  BY LenNat, Zenon DEF Holds
<1>5. /\ Holds(b, 2, W) /\ Holds(b, 2 + 2 * k, EndMark)
      /\ Holds(b, 4 + 2 * k, X) /\ Holds(b, 4 + 2 * k + n, D)
      /\ Holds(b, 16 + 2 * k + n, L)
  BY <1>2, Zenon DEF HasLayout
<1>a. x <= 4 * m
  OBVIOUS
<1>. HIDE DEF b, k, n, m, EL, W, X, D, L
<1>6. q \in Nat /\ to \in Nat /\ q <= to /\ to <= Len(f) /\ to - q = EL + x
  BY ONLY <1>2, <1>4, <1>a, p \in Nat, x \in Nat
<1>7. y \in Seq(Cell) /\ Len(y) = EL + x
  BY <1>6, SliceFacts, Zenon
<1>8. ASSUME NEW t \in Seq(Cell), NEW j \in Nat, Holds(b, 2 + j, t), j + Len(t) <= EL + x
      PROVE  Holds(y, j, t)
  <2>1. 2 + j \in Nat /\ p + (2 + j) = q + j /\ Len(t) \in Nat
    BY LenNat
  <2>2. Holds(f, p + (2 + j), t)
    BY <1>2, <1>4, <1>8, <2>1, HoldsTrans, Zenon
  <2>3. q + j + Len(t) <= to
    BY ONLY <1>2, <1>8, <2>1, p \in Nat, x \in Nat
  <2>. HIDE DEF q, to
  <2>. QED
    BY <1>6, <2>1, <2>2, <2>3, SliceKeeps, Zenon
<1>9. /\ 0 \in Nat /\ 2 + 0 = 2 /\ 0 + 2 * k <= EL + x
      /\ 2 * k \in Nat /\ 2 * k + 2 <= EL + x
      /\ 2 * k + 2 \in Nat /\ 2 + (2 * k + 2) = 4 + 2 * k /\ 2 * k + 2 + n <= EL + x
      /\ 2 * k + 2 + n \in Nat /\ 2 + (2 * k + 2 + n) = 4 + 2 * k + n /\ 2 * k + 2 + n + 12 <= EL + x
      /\ 2 + EL = 16 + 2 * k + n
  BY ONLY <1>2, x \in Nat
<1>. HIDE DEF y
<1>10. Holds(y, 0, W)
  BY <1>3, <1>5, <1>8, <1>9, Zenon
<1>11. Holds(y, 2 * k, EndMark)
  BY <1>3, <1>5, <1>8, <1>9, Zenon
<1>12. Holds(y, 2 * k + 2, X)
  BY <1>3, <1>5, <1>8, <1>9, Zenon
<1>13. Holds(y, 2 * k + 2 + n, D)
  BY <1>3, <1>5, <1>8, <1>9, Zenon
<1>14. ASSUME x = 4 * m PROVE Holds(y, EL, L)
  <2>1. EL + 4 * m <= EL + x
    BY ONLY <1>2, <1>14, x \in Nat
  <2>. QED
    BY <1>2, <1>3, <1>5, <1>8, <1>9, <2>1, Zenon
<1>15. HasParts(y, e)
  BY <1>10, <1>11, <1>12, <1>13, Zenon DEF HasParts, k, n, W, X, D
<1>. QED
  BY <1>7, <1>14, <1>15, Zenon DEF y, q, to, EL, m, L

LEMMA EmptyList ==
    /\ <<>> \in Seq(Int64s) /\ Len(<<>>) = 0
    /\ SNListToBytes(<<>>) \in Seq(Cell) /\ Len(SNListToBytes(<<>>)) = 0
<1>1. <<>> \in Seq(Int64s) /\ Len(<<>>) = 0
  OBVIOUS
<1>2. SNListToBytes(<<>>) \in Seq(Cell) /\ Len(SNListToBytes(<<>>)) = 4 * Len(<<>>)
  BY <1>1, ListLayout, Zenon
<1>3. 4 * 0 = 0
  OBVIOUS
<1>. QED
  BY <1>1, <1>2, <1>3, Zenon

\* Decoding the parts gives the entry, and the list that follows them.
LEMMA DecodeParts ==
    ASSUME NEW e \in Entry, Fits(e), NEW b \in Seq(Cell), HasParts(b, e), NEW l \in Seq(Int64s),
           Holds(b, EntryLength(e), SNListToBytes(l))
    PROVE  LET r == recoverMagicBytes(b)
           IN  EntryFromBytes(Slice(r.b, r.n, Len(r.b)), Len(l)) = [entry |-> e, list |-> l]
<1> DEFINE r == recoverMagicBytes(b)
           k == Len(Positions(e))
           n == Len(Strings(e))
           x == Slice(r.b, r.n, Len(r.b))
<1>1. HasStrings(e)
  BY EntryFields
<1>2. EntryLength(e) = 2 * k + 2 + n + 12 /\ k \in Nat /\ n \in Nat
  BY <1>1, PositionsProp, Zenon
<1>3. SNListToBytes(l) \in Seq(Cell)
  BY ListLayout, Zenon
<1>4. EntryLength(e) = 2 * k + 14 + n
  <2>. HIDE DEF k, n
  <2>. QED
    BY ONLY <1>2
<1>5. Holds(b, 2 * k + 14 + n, SNListToBytes(l))
  BY <1>4, Zenon
<1>6. /\ x \in Seq(Cell) /\ Holds(x, 0, Strings(e)) /\ Holds(x, n, Numbers(e))
      /\ \A t \in Seq(Cell) : Holds(b, 2 * k + 14 + n, t) => Holds(x, n + 12, t)
  BY RecoverKeeps, Zenon
<1>7. Holds(x, n + 12, SNListToBytes(l))
  BY <1>3, <1>5, <1>6, Zenon
<1>. HIDE DEF x
<1>8. EntryFromBytes(x, Len(l)) = [entry |-> e, list |-> l]
  BY <1>6, <1>7, DecodeProp, Zenon DEF n
<1>. QED
  BY <1>8, Zenon DEF x, r

\* readEntry gives back the entry, and its list when it is asked for.
LEMMA ReadProp ==
    ASSUME file \in Seq(Cell), NEW p \in Nat, NEW e, NEW l, Good(e, l), EncodedAt(file, p, e, l)
    PROVE  ReadEntryAndSNList(p) = [entry |-> e, list |-> l] /\ ReadEntry(p) = e
<1> DEFINE EL == EntryLength(e)
           m == Len(l)
           q == p + 4
<1>1. NumberOfSN(p) = m /\ LengthAt(p) = EL
  BY HeaderProp, Zenon
<1>2. EL \in Nat /\ m \in Nat /\ e \in Entry /\ Fits(e) /\ l \in Seq(Int64s)
  BY GoodLayout, Zenon DEF Good
<1>3. q \in Nat /\ Holds(file, q, EntryToBytes(e, l))
  BY DEF EncodedAt
<1>. HIDE DEF EL, m, q
<1>4. ASSUME NEW x \in Nat, x <= 4 * m
      PROVE  LET y == ReadAt(p + 6, EL + x)
             IN  /\ y \in Seq(Cell) /\ Len(y) = EL + x /\ HasParts(y, e)
                 /\ (x = 4 * m => Holds(y, EL, SNListToBytes(l)))
  <2>1. p + 6 + (EL + x) = q + 2 + EL + x /\ p + 6 = q + 2
    BY ONLY <1>2, x \in Nat, p \in Nat DEF q
  <2>2. ReadAt(p + 6, EL + x) = Slice(file, p + 6, p + 6 + (EL + x))
    BY DEF ReadAt
  <2> DEFINE y == Slice(file, q + 2, q + 2 + EL + x)
  <2>3. ReadAt(p + 6, EL + x) = y
    BY <2>1, <2>2, Zenon
  <2>4. /\ y \in Seq(Cell) /\ Len(y) = EL + x /\ HasParts(y, e)
        /\ (x = 4 * m => Holds(y, EL, SNListToBytes(l)))
    BY <1>3, <1>4, PartsProp, Zenon DEF EL, m
  <2>. HIDE DEF y
  <2>. QED
    BY <2>3, <2>4, Zenon
<1>5. readEntry(p, TRUE) = [entry |-> e, list |-> l]
  <2> DEFINE y == ReadAt(p + 6, EL + 4 * m)
             r == recoverMagicBytes(y)
  <2>1. 4 * m \in Nat /\ 4 * m <= 4 * m
    BY ONLY <1>2
  <2>2. y \in Seq(Cell) /\ HasParts(y, e) /\ Holds(y, EL, SNListToBytes(l))
    BY <1>4, <2>1, Zenon
  <2>3. readEntry(p, TRUE) = EntryFromBytes(Slice(r.b, r.n, Len(r.b)), m)
    BY <1>1, Zenon DEF readEntry
  <2>. HIDE DEF y
  <2>4. EntryFromBytes(Slice(r.b, r.n, Len(r.b)), m) = [entry |-> e, list |-> l]
    BY <1>2, <2>2, DecodeParts, Zenon DEF m, EL
  <2>. QED
    BY <2>3, <2>4, Zenon
<1>6. readEntry(p, FALSE) = [entry |-> e, list |-> <<>>]
  <2> DEFINE y == ReadAt(p + 6, EL + 4 * 0)
             r == recoverMagicBytes(y)
  <2>1. 0 \in Nat /\ 0 <= 4 * m /\ EL + 4 * 0 = EL + 0 /\ EL + 0 = EL
    BY ONLY <1>2
  <2>2. y \in Seq(Cell) /\ Len(y) = EL /\ HasParts(y, e)
    BY <1>4, <2>1, Zenon
  <2>3. readEntry(p, FALSE) = EntryFromBytes(Slice(r.b, r.n, Len(r.b)), 0)
    BY <1>1, Zenon DEF readEntry
  <2>. HIDE DEF y
  <2>4. Holds(y, EL, SNListToBytes(<<>>))
    <3>1. EL + 0 <= Len(y) /\ 1..0 = {}
      BY ONLY <1>2, <2>2
    <3>. QED
      BY <3>1, EmptyList, Zenon DEF Holds
  <2>5. EntryFromBytes(Slice(r.b, r.n, Len(r.b)), Len(<<>>)) = [entry |-> e, list |-> <<>>]
    BY <1>2, <2>2, <2>4, EmptyList, DecodeParts, Zenon DEF EL
  <2>. QED
    BY <2>3, <2>5, EmptyList, Zenon
<1>7. [entry |-> e, list |-> <<>>].entry = e
  OBVIOUS
<1>. QED
  BY <1>5, <1>6, <1>7, Zenon DEF ReadEntryAndSNList, ReadEntry

\* The bytes of an entry without its list: what compaction passes on.
IsRaw(raw, e) ==
    LET k == Len(Positions(e))
        n == Len(Strings(e))
    IN  /\ raw \in Seq(Cell) /\ Len(raw) = 2 + EntryLength(e) /\ raw[2] = EntryLength(e)
        /\ Holds(raw, 2, PosWords(e)) /\ Holds(raw, 2 + 2 * k, EndMark)
        /\ Holds(raw, 4 + 2 * k, Escaped(e)) /\ Holds(raw, 4 + 2 * k + n, Numbers(e))

LEMMA ReadRaw ==
    ASSUME file \in Seq(Cell), NEW p \in Nat, NEW e, NEW l, Good(e, l), EncodedAt(file, p, e, l)
    PROVE  IsRaw(ReadEntryRawBytes(p), e)
<1> DEFINE b == EntryToBytes(e, l)
           k == Len(Positions(e))
           n == Len(Strings(e))
           m == Len(l)
           EL == EntryLength(e)
           W == PosWords(e)
           X == Escaped(e)
           D == Numbers(e)
           q == p + 4
           to == p + 4 + (2 + EL)
           y == Slice(file, q, to)
<1>1. HasStrings(e) /\ HasNumbers(e) /\ Fits(e) /\ l \in Seq(Int64s)
  BY EntryFields DEF Good
<1>2. /\ HasLayout(b, e, l) /\ b \in Seq(Cell) /\ Len(b) = 2 + EL + 4 * m
      /\ EL \in Nat /\ m \in Nat /\ k \in Nat /\ n \in Nat /\ EL = 2 * k + 2 + n + 12
  BY GoodLayout, Zenon
<1>3. /\ W \in Seq(Cell) /\ Len(W) = 2 * k /\ EndMark \in Seq(Cell) /\ Len(EndMark) = 2
      /\ X \in Seq(Cell) /\ Len(X) = n /\ D \in Seq(Cell) /\ Len(D) = 12
  BY <1>1, PosWordsLayout, MagicFacts, EscapedProp, NumbersLayout, Zenon
<1>4. Holds(file, q, b) /\ q + Len(b) <= Len(file) /\ Len(file) \in Nat
  BY LenNat, Zenon DEF Holds, EncodedAt
<1>5. /\ Holds(b, 2, W) /\ Holds(b, 2 + 2 * k, EndMark)
      /\ Holds(b, 4 + 2 * k, X) /\ Holds(b, 4 + 2 * k + n, D) /\ b[2] = EL
  BY <1>2, Zenon DEF HasLayout
<1>6. ReadEntryRawBytes(p) = y
  BY HeaderProp, Zenon DEF ReadEntryRawBytes, ReadAt
<1>. HIDE DEF b, k, n, m, EL, W, X, D
<1>7. q \in Nat /\ to \in Nat /\ q <= to /\ to <= Len(file) /\ to - q = 2 + EL
  BY ONLY <1>2, <1>4, p \in Nat
<1>8. y \in Seq(Cell) /\ Len(y) = 2 + EL /\ \A i \in 1..(2 + EL) : y[i] = file[q + i]
  <2>. HIDE DEF q, to
  <2>1. y \in Seq(Cell) /\ Len(y) = to - q /\ \A i \in 1..(to - q) : y[i] = file[q + i]
    BY <1>7, SliceFacts, Zenon
  <2>. HIDE DEF y
  <2>. QED
    BY <1>7, <2>1, Zenon
<1>9. ASSUME NEW t \in Seq(Cell), NEW j \in Nat, Holds(b, j, t), j + Len(t) <= 2 + EL
      PROVE  Holds(y, j, t)
  <2>1. Len(t) \in Nat
    BY LenNat
  <2>2. Holds(file, q + j, t)
    BY <1>2, <1>4, <1>7, <1>9, HoldsTrans, Zenon
  <2>3. q + j + Len(t) <= to
    BY ONLY <1>2, <1>9, <2>1, p \in Nat
  <2>. HIDE DEF q, to
  <2>. QED
    BY <1>7, <2>2, <2>3, SliceKeeps, Zenon
<1>10. /\ 2 \in Nat /\ 2 + 2 * k <= 2 + EL /\ 2 + 2 * k \in Nat /\ 2 + 2 * k + 2 <= 2 + EL
       /\ 4 + 2 * k \in Nat /\ 4 + 2 * k + n <= 2 + EL
       /\ 4 + 2 * k + n \in Nat /\ 4 + 2 * k + n + 12 <= 2 + EL
       /\ 2 \in 1..(2 + EL) /\ 2 \in 1..Len(b)
  BY ONLY <1>2
<1>11. y[2] = EL
  BY <1>4, <1>5, <1>8, <1>10, Zenon DEF Holds
<1>. HIDE DEF y
<1>12. Holds(y, 2, W) /\ Holds(y, 2 + 2 * k, EndMark) /\ Holds(y, 4 + 2 * k, X) /\ Holds(y, 4 + 2 * k + n, D)
  BY <1>3, <1>5, <1>9, <1>10, Zenon
<1>13. IsRaw(y, e)
  BY <1>8, <1>11, <1>12, Zenon DEF IsRaw, EL, k, n, W, X, D
<1>. QED
  BY <1>6, <1>13, Zenon

\* The extractors of compaction read the key and the serial number.
LEMMA ExtractProp ==
    ASSUME NEW e \in Entry, Fits(e), NEW raw, IsRaw(raw, e)
    PROVE  ExtractKeyFromRawBytes(raw) = e.key /\ ExtractSerialNum(raw) = e.serialNum
<1> DEFINE k == Len(Positions(e))
           n == Len(Strings(e))
           EL == EntryLength(e)
           W == PosWords(e)
           X == Escaped(e)
           D == Numbers(e)
           N == Len(raw)
           y == Slice(raw, 2, N)
           r == recoverMagicBytes(y)
           o == r.n
           z == r.b
           kl == Len(e.key)
<1>1. HasStrings(e) /\ HasNumbers(e)
  BY EntryFields
<1>2. EL \in Nat /\ k \in Nat /\ n \in Nat /\ EL = 2 * k + 2 + n + 12
  BY <1>1, PositionsProp, Zenon
<1>3. /\ W \in Seq(Cell) /\ Len(W) = 2 * k /\ EndMark \in Seq(Cell) /\ Len(EndMark) = 2
      /\ X \in Seq(Cell) /\ Len(X) = n /\ D \in Seq(Cell) /\ Len(D) = 12
  BY <1>1, PosWordsLayout, MagicFacts, EscapedProp, NumbersLayout, Zenon
<1>4. /\ raw \in Seq(Cell) /\ N = 2 + EL
      /\ Holds(raw, 2, W) /\ Holds(raw, 2 + 2 * k, EndMark)
      /\ Holds(raw, 4 + 2 * k, X) /\ Holds(raw, 4 + 2 * k + n, D)
  BY Zenon DEF IsRaw
<1>5. ExtractSerialNum(raw) = Int64(Slice(raw, N - 4, N))
  BY Zenon DEF ExtractSerialNum
<1>6. ExtractKeyFromRawBytes(raw) = Slice(z, o + 2, o + 2 + Uint32(Slice(z, o, o + 2)))
  BY Zenon DEF ExtractKeyFromRawBytes
<1>7. Holds(D, 8, PutUint64(e.serialNum)) /\ e.serialNum \in Int64s /\ PutUint64(e.serialNum) \in Seq(Cell)
  BY <1>1, NumbersLayout, Int64RoundTrip, Zenon DEF HasNumbers
<1>. HIDE DEF k, n, EL, W, X, D, N
<1>8. Int64(Slice(raw, N - 4, N)) = e.serialNum
  <2> DEFINE j == 4 + 2 * k + n
             i == N - 4
  <2>1. j \in Nat /\ 8 \in Nat /\ i \in Nat /\ j + 8 = i /\ i + 4 = N
    BY ONLY <1>2, <1>4
  <2>2. Holds(raw, j + 8, PutUint64(e.serialNum))
    <3>1. Holds(raw, j, D)
      BY <1>4, Zenon
    <3>. HIDE DEF j
    <3>. QED
      BY <1>3, <1>4, <1>7, <2>1, <3>1, HoldsTrans, Zenon
  <2>. HIDE DEF i, j
  <2>3. Int64(Slice(raw, i, i + 4)) = e.serialNum
    BY <1>4, <1>7, <2>1, <2>2, Int64At, Zenon
  <2>4. Int64(Slice(raw, i, N)) = e.serialNum
    BY <2>1, <2>3, Zenon
  <2>. QED
    BY <2>4, Zenon DEF i
<1>9. y \in Seq(Cell) /\ HasParts(y, e)
  <2>1. 2 \in Nat /\ N \in Nat /\ 2 <= N /\ N <= Len(raw)
    <3>1. N = Len(raw)
      BY DEF N
    <3>. QED
      BY ONLY <1>2, <1>4, <3>1
  <2>2. y \in Seq(Cell)
    BY <1>4, <2>1, SliceFacts, Zenon
  <2>3. ASSUME NEW t \in Seq(Cell), NEW j \in Nat, Holds(raw, 2 + j, t) PROVE Holds(y, j, t)
    <3>1. 2 + j + Len(t) <= N
      BY <2>3, Zenon DEF Holds, N
    <3>. QED
      BY <1>4, <2>1, <2>3, <3>1, SliceKeeps, Zenon
  <2>4. /\ 0 \in Nat /\ 2 + 0 = 2 /\ 2 * k \in Nat /\ 2 * k + 2 \in Nat /\ 2 + (2 * k + 2) = 4 + 2 * k
        /\ 2 * k + 2 + n \in Nat /\ 2 + (2 * k + 2 + n) = 4 + 2 * k + n
    BY ONLY <1>2
  <2>. HIDE DEF y
  <2>5. Holds(y, 0, W) /\ Holds(y, 2 * k, EndMark) /\ Holds(y, 2 * k + 2, X) /\ Holds(y, 2 * k + 2 + n, D)
    BY <1>3, <1>4, <2>3, <2>4, Zenon
  <2>. QED
    BY <2>2, <2>5, Zenon DEF HasParts, k, n, W, X, D
<1>10. o = 2 * k + 2 /\ z \in Seq(Cell) /\ Holds(z, o, Strings(e))
  <2>. HIDE DEF y
  <2>. QED
    BY <1>9, RecoverKeeps, Zenon DEF k
<1>11. /\ Strings(e) \in Seq(Cell) /\ kl \in Nat /\ kl < Base /\ e.key \in Seq(Cell)
       /\ Holds(Strings(e), 0, PutUint32(kl)) /\ Holds(Strings(e), 2, e.key)
  <2>1. /\ Strings(e) \in Seq(Cell) /\ kl \in Nat /\ Len(e.value) \in Nat /\ Len(e.nextKey) \in Nat
        /\ Holds(Strings(e), 0, PutUint32(kl)) /\ Holds(Strings(e), 2, e.key)
        /\ n = 6 + kl + Len(e.value) + Len(e.nextKey)
    BY <1>1, StringsLayout, Zenon DEF n
  <2>2. EL < Base - 1 /\ Base \in Nat
    BY BaseFacts DEF Fits, MaxEntryBytes, EL
  <2>3. kl < Base
    <3> DEFINE vl == Len(e.value)
               nl == Len(e.nextKey)
    <3>1. n = 6 + kl + vl + nl /\ kl \in Nat /\ vl \in Nat /\ nl \in Nat
      BY <2>1, Zenon
    <3>. HIDE DEF kl, vl, nl
    <3>. QED
      BY ONLY <1>2, <2>2, <3>1
  <2>. QED
    BY <1>1, <2>1, <2>3, Zenon DEF HasStrings
<1>12. o \in Nat /\ o + 0 = o /\ o + 2 \in Nat /\ 0 \in Nat /\ 2 \in Nat
  BY ONLY <1>2, <1>10
<1>. HIDE DEF o, z
<1>a. PutUint32(kl) \in Seq(Cell)
  BY <1>11, PutUint32Type, Zenon
<1>13. Holds(z, o + 0, PutUint32(kl)) /\ Holds(z, o + 2, e.key)
  BY <1>10, <1>11, <1>12, <1>a, HoldsTrans, Zenon
<1>14. Uint32(Slice(z, o, o + 2)) = kl
  BY <1>10, <1>11, <1>12, <1>13, Uint32Small, Zenon
<1>15. Slice(z, o + 2, o + 2 + kl) = e.key
  <2> DEFINE p == o + 2
             q == o + 2 + kl
             x == e.key
  <2>1. p \in Nat /\ q = p + Len(x) /\ Holds(z, p, x) /\ x \in Seq(Cell)
    BY <1>11, <1>12, <1>13, Zenon
  <2>. HIDE DEF p, q, x
  <2>2. Slice(z, p, q) = x
    BY ONLY <1>10, <2>1, SliceHolds
  <2>. QED
    BY <2>2, Zenon DEF p, q, x
<1>. QED
  BY <1>5, <1>6, <1>8, <1>14, <1>15, Zenon

\* WithSN and BodyOf do not touch the strings.
LEMMA WithSNProp ==
    ASSUME NEW e \in Entry, NEW sn \in Int64s
    PROVE  LET x == WithSN(BodyOf(e), sn)
           IN  /\ x \in Entry /\ Strings(x) = Strings(e) /\ Positions(x) = Positions(e)
               /\ EntryLength(x) = EntryLength(e) /\ Escaped(x) = Escaped(e) /\ PosWords(x) = PosWords(e)
               /\ (Fits(e) => Fits(x)) /\ BodyOf(x) = BodyOf(e)
               /\ x.height = e.height /\ x.lastHeight = e.lastHeight /\ x.serialNum = sn
<1> DEFINE x == WithSN(BodyOf(e), sn)
<1>1. /\ x.key = e.key /\ x.value = e.value /\ x.nextKey = e.nextKey
      /\ x.height = e.height /\ x.lastHeight = e.lastHeight /\ x.serialNum = sn
  BY DEF WithSN, BodyOf
<1>2. x \in Entry
  BY DEF WithSN, BodyOf, Entry
<1>3. BodyOf(x) = BodyOf(e)
  BY <1>1 DEF BodyOf
<1>. HIDE DEF x
<1>4. Strings(x) = Strings(e)
  BY <1>1, Zenon DEF Strings
<1>5. Positions(x) = Positions(e) /\ EntryLength(x) = EntryLength(e)
  BY <1>4, Zenon DEF Positions, EntryLength
<1>6. Escaped(x) = Escaped(e) /\ PosWords(x) = PosWords(e)
  BY <1>4, <1>5, Zenon DEF Escaped, PosWords, Places
<1>7. Fits(e) => Fits(x)
  BY <1>1, <1>5, Zenon DEF Fits, HasStrings
<1>. QED
  BY <1>1, <1>2, <1>3, <1>4, <1>5, <1>6, <1>7, Zenon DEF x

\* UpdateSerialNum and the new first cell make the raw bytes those of the moved entry.
LEMMA MoveProp ==
    ASSUME NEW e \in Entry, Fits(e), NEW raw, IsRaw(raw, e), NEW sn \in Int64s,
           NEW l \in Seq(Int64s), Len(l) < Base
    PROVE  LET v == <<Len(l) % Base>> \o Tail(UpdateSerialNum(raw, sn))
           IN  /\ v \in Seq(Cell) /\ SNListToBytes(l) \in Seq(Cell)
               /\ v \o SNListToBytes(l) = EntryToBytes(WithSN(BodyOf(e), sn), l)
<1> DEFINE x == WithSN(BodyOf(e), sn)
           k == Len(Positions(x))
           n == Len(Strings(x))
           EL == EntryLength(x)
           W == PosWords(x)
           X == Escaped(x)
           D == Numbers(x)
           L == SNListToBytes(l)
           m == Len(l)
           c == m % Base
           N == 2 + EL
           a == Slice(raw, 0, N - 4)
           P == PutUint64(sn)
           H == PutUint64(x.height)
           G == PutUint64(x.lastHeight)
           u == a \o P
           v == <<c>> \o Tail(u)
           w == v \o L
<1>1. x \in Entry /\ Fits(x)
  BY WithSNProp, Zenon
<1>2. HasStrings(x) /\ HasNumbers(x)
  BY <1>1, EntryFields, Zenon
<1>3. EL \in Nat /\ k \in Nat /\ n \in Nat /\ EL = 2 * k + 2 + n + 12
  BY <1>2, PositionsProp, Zenon
<1>4. /\ W \in Seq(Cell) /\ Len(W) = 2 * k /\ EndMark \in Seq(Cell) /\ Len(EndMark) = 2
      /\ X \in Seq(Cell) /\ Len(X) = n /\ D \in Seq(Cell) /\ Len(D) = 12
      /\ L \in Seq(Cell) /\ Len(L) = 4 * m
  BY <1>1, <1>2, PosWordsLayout, MagicFacts, EscapedProp, NumbersLayout, ListLayout, Zenon
<1>5. /\ raw \in Seq(Cell) /\ Len(raw) = N /\ raw[2] = EL
      /\ Holds(raw, 2, W) /\ Holds(raw, 2 + 2 * k, EndMark)
      /\ Holds(raw, 4 + 2 * k, X) /\ Holds(raw, 4 + 2 * k + n, Numbers(e))
  BY WithSNProp, Zenon DEF IsRaw
<1>6. m \in Nat /\ m < Base
  BY LenProperties
<1>7. /\ P \in Seq(Cell) /\ Len(P) = 4 /\ H \in Seq(Cell) /\ Len(H) = 4 /\ G \in Seq(Cell) /\ Len(G) = 4
  BY <1>2, Int64RoundTrip, Zenon DEF HasNumbers
<1>8. /\ Numbers(e) \in Seq(Cell) /\ Holds(Numbers(e), 0, H) /\ Holds(Numbers(e), 4, G)
  <2>1. HasNumbers(e)
    BY EntryFields
  <2>2. x.height = e.height /\ x.lastHeight = e.lastHeight
    BY WithSNProp, Zenon
  <2>3. /\ Numbers(e) \in Seq(Cell) /\ Holds(Numbers(e), 0, PutUint64(e.height))
        /\ Holds(Numbers(e), 4, PutUint64(e.lastHeight))
    BY <2>1, NumbersLayout, Zenon
  <2>. QED
    BY <2>2, <2>3, Zenon
<1>9. D = H \o G \o P
  BY WithSNProp, Zenon DEF Numbers
<1>10. UpdateSerialNum(raw, sn) = u
  BY <1>5, Zenon DEF UpdateSerialNum
<1>11. c = m /\ c \in Cell
  <2>1. m \in Cell /\ Base * 0 + m = m /\ 0 \in Int
    BY <1>6, BaseFacts DEF Cell
  <2>. QED
    BY <2>1, DivModUnique
<1>. HIDE DEF x, k, n, EL, W, X, D, L, m, c, P, H, G
<1>12. N \in Nat /\ N - 4 \in Nat /\ 0 \in Nat /\ 0 <= N - 4 /\ N - 4 <= Len(raw) /\ (N - 4) - 0 = N - 4
  BY ONLY <1>3, <1>5
<1>13. a \in Seq(Cell) /\ Len(a) = N - 4 /\ \A i \in 1..(N - 4) : a[i] = raw[0 + i]
  <2> DEFINE h == N - 4
  <2>1. h \in Nat /\ 0 \in Nat /\ 0 <= h /\ h <= Len(raw) /\ h - 0 = h
    BY <1>12, Zenon
  <2>. HIDE DEF h
  <2>2. LET y == Slice(raw, 0, h) IN
        y \in Seq(Cell) /\ Len(y) = h - 0 /\ \A i \in 1..(h - 0) : y[i] = raw[0 + i]
    BY <1>5, <2>1, SliceFacts, Zenon
  <2>3. LET y == Slice(raw, 0, h) IN
        y \in Seq(Cell) /\ Len(y) = h /\ \A i \in 1..h : y[i] = raw[0 + i]
    BY <2>1, <2>2, Zenon
  <2>. QED
    BY <2>3, Zenon DEF h
<1>. HIDE DEF a
<1>14. u \in Seq(Cell) /\ Len(u) = N /\ Holds(u, 0, a) /\ Holds(u, N - 4, P)
  <2>3. u \in Seq(Cell) /\ Len(u) = Len(a) + Len(P) /\ Holds(u, 0, a) /\ Holds(u, Len(a), P)
    BY <1>7, <1>13, ConcatHolds, Zenon
  <2>1. u \in Seq(Cell) /\ Len(u) = (N - 4) + 4 /\ Holds(u, 0, a) /\ Holds(u, N - 4, P)
    <3>. HIDE DEF u
    <3>. QED
      BY <1>7, <1>13, <2>3, Zenon
  <2>2. (N - 4) + 4 = N
    BY ONLY <1>3
  <2>. QED
    BY <2>1, <2>2, Zenon
<1>. HIDE DEF u
<1>15. \A i \in 1..(N - 4) : u[i] = raw[i]
  <2>1. \A i \in 1..(N - 4) : 0 + i = i
    OBVIOUS
  <2>. QED
    BY <1>13, <1>14, <2>1, Zenon DEF Holds
<1>16. /\ Tail(u) \in Seq(Cell) /\ Len(Tail(u)) = N - 1
       /\ \A i \in 1..(N - 1) : Tail(u)[i] = u[i + 1]
  <2>1. u # <<>>
    <3>1. Len(u) # 0
      BY ONLY <1>3, <1>14
    <3>. QED
      BY <3>1, EmptyList, Zenon
  <2>. QED
    BY <1>14, <2>1, HeadTailProperties, Zenon
<1>17. <<c>> \in Seq(Cell) /\ Len(<<c>>) = 1 /\ <<c>>[1] = c
  BY ONLY <1>11
<1> DEFINE y == Tail(u)
<1>18. v \in Seq(Cell) /\ Len(v) = N /\ v[1] = c /\ \A i \in 2..N : v[i] = u[i]
  <2> DEFINE s == <<c>>
  <2>1. s \in Seq(Cell) /\ Len(s) = 1 /\ s[1] = c
    BY <1>17, Zenon
  <2>2. v = s \o y
    OBVIOUS
  <2>. HIDE DEF s, v
  <2>a. y \in Seq(Cell)
    BY <1>16, Zenon
  <2>. HIDE DEF y
  <2>3. v \in Seq(Cell) /\ Len(v) = 1 + Len(y) /\ Holds(v, 0, s) /\ Holds(v, 1, y)
    BY <2>1, <2>2, <2>a, ConcatHolds, Zenon
  <2>4. 1 + (N - 1) = N /\ 1 \in 1..1 /\ 0 + 1 = 1
    BY ONLY <1>3
  <2>5. Len(v) = N
    BY <1>16, <2>3, <2>4, Zenon DEF y
  <2>6. v[0 + 1] = s[1]
    BY <2>1, <2>3, <2>4, Zenon DEF Holds
  <2>7. ASSUME NEW i \in 2..N PROVE v[i] = u[i]
    <3> DEFINE j == i - 1
    <3>1. j \in 1..(N - 1) /\ 1 + j = i /\ j + 1 = i
      BY ONLY <1>3, i \in 2..N
    <3>. HIDE DEF j
    <3>2. v[1 + j] = y[j]
      BY <1>16, <2>3, <3>1, Zenon DEF Holds, y
    <3>. QED
      BY <1>16, <3>1, <3>2, Zenon DEF y
  <2>. QED
    BY <2>1, <2>3, <2>4, <2>5, <2>6, <2>7, Zenon
<1>. HIDE DEF v, y
<1>19. w \in Seq(Cell) /\ Len(w) = N + 4 * m /\ Holds(w, 0, v) /\ Holds(w, N, L)
  <2>1. w \in Seq(Cell) /\ Len(w) = Len(v) + Len(L) /\ Holds(w, 0, v) /\ Holds(w, Len(v), L)
    BY <1>4, <1>18, ConcatHolds, Zenon
  <2>. HIDE DEF w
  <2>. QED
    BY <1>4, <1>18, <2>1, Zenon
<1>. HIDE DEF w
<1>20. ASSUME NEW t \in Seq(Cell), NEW j \in Nat, j > 0, Holds(raw, j, t), j + Len(t) <= N - 4
       PROVE  Holds(w, j, t)
  <2>1. Len(t) \in Nat /\ \A i \in 1..Len(t) : raw[j + i] = t[i]
    BY <1>20, LenNat, Zenon DEF Holds
  <2>2. ASSUME NEW i \in 1..Len(t) PROVE w[j + i] = t[i]
    <3> DEFINE h == j + i
    <3>1. h \in 1..(N - 4) /\ h \in 2..N /\ h \in 1..N /\ 0 + h = h
      BY ONLY <1>3, <1>20, <2>1, i \in 1..Len(t)
    <3>2. raw[h] = t[i]
      BY <2>1, Zenon
    <3>. HIDE DEF h
    <3>3. w[0 + h] = v[h]
      BY <1>18, <1>19, <3>1, Zenon DEF Holds
    <3>4. w[h] = t[i]
      BY <1>15, <1>18, <3>1, <3>2, <3>3, Zenon
    <3>. QED
      BY <3>4, Zenon DEF h
  <2>3. j + Len(t) <= N + 4 * m
    BY ONLY <1>3, <1>6, <1>20, <2>1
  <2>. QED
    BY <1>19, <2>2, <2>3, Zenon DEF Holds
<1>21. Holds(w, N - 4, P)
  <2>1. ASSUME NEW i \in 1..4 PROVE w[N - 4 + i] = P[i]
    <3> DEFINE h == N - 4 + i
    <3>1. h \in 2..N /\ h \in 1..N /\ 0 + h = h
      BY ONLY <1>3, i \in 1..4
    <3>2. u[h] = P[i]
      BY <1>7, <1>14, Zenon DEF Holds
    <3>. HIDE DEF h
    <3>3. w[0 + h] = v[h]
      BY <1>18, <1>19, <3>1, Zenon DEF Holds
    <3>4. w[h] = P[i]
      BY <1>18, <3>1, <3>2, <3>3, Zenon
    <3>. QED
      BY <3>4, Zenon DEF h
  <2>2. N - 4 + 4 <= N + 4 * m
    BY ONLY <1>3, <1>6
  <2>. QED
    BY <1>7, <1>19, <2>1, <2>2, Zenon DEF Holds
<1>22. w[1] = m /\ w[2] = EL
  <2>1. 1 \in 1..N /\ 2 \in 1..N /\ 2 \in 2..N /\ 2 \in 1..(N - 4) /\ 0 + 1 = 1 /\ 0 + 2 = 2
    BY ONLY <1>3
  <2>2. w[0 + 1] = v[1] /\ w[0 + 2] = v[2]
    BY <1>18, <1>19, <2>1, Zenon DEF Holds
  <2>. QED
    BY <1>5, <1>11, <1>15, <1>18, <2>1, <2>2, Zenon
<1>23. /\ 2 \in Nat /\ 2 > 0 /\ 2 + 2 * k <= N - 4 /\ 2 + 2 * k \in Nat /\ 2 + 2 * k > 0
       /\ 2 + 2 * k + 2 <= N - 4
       /\ 4 + 2 * k \in Nat /\ 4 + 2 * k > 0 /\ 4 + 2 * k + n <= N - 4
  BY ONLY <1>3
<1>24. Holds(w, 2, W)
  BY <1>4, <1>5, <1>20, <1>23, Zenon
<1>25. Holds(w, 2 + 2 * k, EndMark)
  BY <1>4, <1>5, <1>20, <1>23, Zenon
<1>26. Holds(w, 4 + 2 * k, X)
  BY <1>4, <1>5, <1>20, <1>23, Zenon
<1>27. Holds(w, 4 + 2 * k + n, D)
  <2> DEFINE p == 4 + 2 * k + n
  <2>1. /\ p \in Nat /\ 0 \in Nat /\ 4 \in Nat /\ p + 0 = p /\ p + 4 \in Nat /\ p > 0 /\ p + 4 > 0
        /\ p + 4 <= N - 4 /\ p + 4 + 4 <= N - 4 /\ p + (4 + 4) = N - 4
    BY ONLY <1>3
  <2>2. Holds(raw, p, Numbers(e))
    BY <1>5, Zenon
  <2>. HIDE DEF p
  <2>3. Holds(raw, p + 0, H) /\ Holds(raw, p + 4, G)
    BY <1>5, <1>7, <1>8, <2>1, <2>2, HoldsTrans, Zenon
  <2>4. Holds(raw, p, H)
    BY <2>1, <2>3, Zenon
  <2>5. Holds(w, p, H)
    BY <1>7, <1>20, <2>1, <2>4, Zenon
  <2>6. Holds(w, p + 4, G)
    BY <1>7, <1>20, <2>1, <2>3, Zenon
  <2>7. H \o G \in Seq(Cell) /\ Len(H \o G) = 4 + 4
    BY <1>7, ConcatHolds, Zenon
  <2>8. Holds(w, p, H \o G)
    BY <1>7, <1>19, <2>1, <2>5, <2>6, HoldsConcat, Zenon
  <2>9. Holds(w, p + Len(H \o G), P)
    BY <1>21, <2>1, <2>7, Zenon
  <2> DEFINE hg == H \o G
  <2>. HIDE DEF hg
  <2>10. Holds(w, p, hg \o P)
    BY <1>7, <1>19, <2>1, <2>7, <2>8, <2>9, HoldsConcat, Zenon DEF hg
  <2>. QED
    BY <1>9, <2>10, Zenon DEF p, hg
<1>28. Holds(w, 16 + 2 * k + n, L)
  <2>1. 16 + 2 * k + n = N
    BY ONLY <1>3
  <2>. QED
    BY <1>19, <2>1, Zenon
<1>29. HasLayout(w, x, l)
  BY <1>19, <1>22, <1>24, <1>25, <1>26, <1>27, <1>28, Zenon DEF HasLayout, k, n, EL, W, X, D, L, m
<1>30. w = EntryToBytes(x, l)
  BY <1>1, <1>29, LayoutUnique, Zenon
<1>31. v \in Seq(Cell) /\ L \in Seq(Cell) /\ w = v \o L
  BY <1>4, <1>18, Zenon DEF w
<1>. QED
  BY <1>10, <1>30, <1>31, Zenon DEF v, c, m, L, x

-----------------------------------------------------------------------------
(* The inductive invariant *)

\* Where the entry after one at p begins.
After(p, e, l) == getNextPos(p, EntryLength(e) + 4 * Len(l))

\* The position of the entry with number i in the file of d, or its end.
PosOf(d, i) == IF i <= d.maxSN THEN d.log[i].pos ELSE Len(d.file)

Record == [entry : Entry, list : Seq(Int64s), pos : Nat]

IsData(d) == d = [file |-> d.file, maxSN |-> d.maxSN, active |-> d.active, list |-> d.list,
                  first |-> d.first, log |-> d.log]

\* A list in the file.
ListOK(l) == Len(l) <= DeactivedSNListMaxLen + 1 /\ \A j \in 1..Len(l) : l[j] \in 0..MaxSN - 1

\* The entry with number i is in the file as it was meant, and the next one follows it.
EntryOK(d, i) ==
    LET r == d.log[i]
    IN  /\ Good(r.entry, r.list) /\ r.entry.serialNum = i - 1 /\ r.pos \in Nat
        /\ BodyOf(r.entry) \in Bodies \cup {DummyBody} /\ ListOK(r.list)
        /\ EncodedAt(d.file, r.pos, r.entry, r.list)
        /\ After(r.pos, r.entry, r.list) = PosOf(d, i + 1)

\* Twigs are recorded when their first entry is written.
FirstOK(d) ==
    \A t \in Nat : /\ t * LeafCountInTwig < d.maxSN <=> t \in DOMAIN d.first
                   /\ t \in DOMAIN d.first => d.first[t] = PosOf(d, t * LeafCountInTwig + 1)

DataOK(d) ==
    /\ IsData(d)
    /\ d.file \in Seq(Cell) /\ Len(d.file) % 4 = 0
    /\ d.maxSN \in 0..MaxSN /\ d.active \subseteq 0..d.maxSN - 1
    /\ d.list \in Seq(0..d.maxSN - 1) /\ Len(d.list) <= DeactivedSNListMaxLen + 1
    /\ d.log \in Seq(Record) /\ Len(d.log) = d.maxSN
    /\ PosOf(d, 1) = 0
    /\ \A i \in 1..d.maxSN : EntryOK(d, i)
    /\ DOMAIN d.first \subseteq Nat /\ FirstOK(d)

\* The active entries with the body b.
With(d, b) == {sn \in d.active : BodyOf(d.log[sn + 1].entry) = b}

\* v counts the active entries.
LiveFor(d, v) ==
    /\ v \in [Bodies -> Nat]
    /\ \A sn \in d.active : BodyOf(d.log[sn + 1].entry) \in Bodies
    /\ \A b \in Bodies : Cardinality(With(d, b)) = v[b]

InTwig == {sn \in active : sn < (oldest + 1) * LeafCountInTwig}

\* The goroutine is at the entry CurrentSN of the oldest twig, which is full, and there is
\* room for what compaction may still write.
ReaderOK ==
    /\ ~reader.panicked /\ oldest * LeafCountInTwig <= maxSN
    /\ \A sn \in active : oldest * LeafCountInTwig <= sn
    /\ ~reader.running => chan = <<>>
    /\ reader.running =>
          /\ reader.i \in 0..LeafCountInTwig /\ (~reader.open => reader.i = LeafCountInTwig)
          /\ (oldest + 1) * LeafCountInTwig <= maxSN
          /\ reader.start = PosOf(Data, CurrentSN + 1)
          /\ maxSN + Cardinality(InTwig) + (IF deactivedSNList = <<>> THEN 0 ELSE 1) <= MaxSN

\* The channel holds the active entries the goroutine has passed, each once.
ChanOK ==
    /\ Len(chan) <= ChanCap
    /\ \A j \in 1..Len(chan) :
          LET sn == ExtractSerialNum(chan[j])
          IN  sn \in active /\ sn < CurrentSN /\ IsRaw(chan[j], log[sn + 1].entry)
    /\ \A j, k \in 1..Len(chan) : j # k => ExtractSerialNum(chan[j]) # ExtractSerialNum(chan[k])
    /\ reader.running => \A sn \in active : sn < CurrentSN =>
                            \E j \in 1..Len(chan) : ExtractSerialNum(chan[j]) = sn

Types ==
    /\ Len(deactivedSNList) <= DeactivedSNListMaxLen
    /\ oldest \in Nat /\ chan \in Seq(Seq(Cell))
    /\ reader \in [running : BOOLEAN, open : BOOLEAN, i : Nat, start : Nat, panicked : BOOLEAN]

Inv == Types /\ DataOK(Data) /\ LiveFor(Data, live) /\ ReaderOK /\ ChanOK

LEMMA ConstantFacts ==
    /\ LeafCountInTwig \in Nat \ {0} /\ DeactivedSNListMaxLen \in Nat \ {0}
    /\ DeactivedSNListMaxLen + 3 < Base /\ ChanCap \in Nat \ {0}
    /\ MaxWritten \in Nat /\ MaxSN \in Nat /\ MaxWritten + 1 <= MaxSN /\ MaxSN <= MaxInt64
    /\ StartReapThres \in Nat /\ KeptEntriesToActiveEntriesRatio \in Nat
    /\ KeptEntriesToActiveEntriesRatio * (StartReapThres + 1) >= LeafCountInTwig
BY EntryFileAssumption, Zenon

LEMMA SerialNumbers == MaxInt64 \in Nat /\ \A n \in 0..MaxSN : n \in Int64s
<1> DEFINE h == Base \div 2
           x1 == Base * h
           x2 == Base * x1
<1>1. Base \in Nat /\ Base >= 64 /\ h \in Nat /\ h >= 1
  BY BaseFacts
<1>. HIDE DEF h
<1>2. x1 \in Nat /\ x1 >= 1
  BY ONLY <1>1
<1>. HIDE DEF x1
<1>3. x2 \in Nat /\ x2 >= 1
  BY ONLY <1>1, <1>2
<1>. HIDE DEF x2
<1>4. Base * x2 \in Nat /\ Base * x2 >= 1
  BY ONLY <1>1, <1>3
<1>5. MaxInt64 = Base * x2 - 1
  BY DEF MaxInt64, x2, x1, h
<1>6. MaxInt64 \in Nat
  BY ONLY <1>4, <1>5
<1>7. MaxSN \in Nat /\ MaxSN <= MaxInt64
  BY ConstantFacts
<1>8. \A n \in 0..MaxSN : n \in (-MaxInt64 - 1)..MaxInt64
  BY ONLY <1>6, <1>7
<1>. QED
  BY <1>6, <1>8, Zenon DEF Int64s

\* A list of serial numbers stays one when there are more of them.
LEMMA SubSeqType ==
    ASSUME NEW S, NEW T, S \subseteq T, NEW l \in Seq(S)
    PROVE  l \in Seq(T)
<1> DEFINE n == Len(l)
<1>1. n \in Nat /\ l \in [1..n -> S]
  BY LenProperties
<1>. HIDE DEF n
<1>2. l \in [1..n -> T]
  BY <1>1
<1>. QED
  BY <1>1, <1>2, MakeSeq, Zenon

\* Strings decide about the length.
LEMMA SameStrings ==
    ASSUME NEW e, NEW b, e.key = b.key, e.value = b.value, e.nextKey = b.nextKey
    PROVE  Strings(e) = Strings(b) /\ EntryLength(e) = EntryLength(b)
<1>1. Strings(e) = Strings(b)
  BY Zenon DEF Strings
<1>. QED
  BY <1>1, Zenon DEF EntryLength

LEMMA NewEntry ==
    ASSUME NEW b \in Bodies \cup {DummyBody}, NEW sn \in 0..MaxSN
    PROVE  LET e == WithSN(b, sn)
           IN  e \in Entry /\ Fits(e) /\ e.serialNum = sn /\ BodyOf(e) = b
<1> DEFINE e == WithSN(b, sn)
<1>1. sn \in Int64s
  BY SerialNumbers, Zenon
<1>2. CASE b \in Bodies
  <2>1. b \in Body /\ EntryLength(b) < MaxEntryBytes
    BY <1>2, EntryFileAssumption, Zenon
  <2>2. /\ b.key \in Seq(Cell) /\ b.value \in Seq(Cell) /\ b.nextKey \in Seq(Cell)
        /\ b.height \in Int64s /\ b.lastHeight \in Int64s
        /\ b = [key |-> b.key, value |-> b.value, nextKey |-> b.nextKey,
                height |-> b.height, lastHeight |-> b.lastHeight]
    BY ONLY <2>1 DEF Body
  <2>3. /\ e.key = b.key /\ e.value = b.value /\ e.nextKey = b.nextKey
        /\ e.height = b.height /\ e.lastHeight = b.lastHeight /\ e.serialNum = sn
    BY ONLY TRUE DEF WithSN
  <2>4. e \in Entry
    BY ONLY <1>1, <2>2 DEF WithSN, Entry
  <2>. HIDE DEF e
  <2>5. BodyOf(e) = b
    BY <2>2, <2>3, Zenon DEF BodyOf
  <2>6. EntryLength(e) = EntryLength(b)
    BY <2>3, SameStrings, Zenon
  <2>7. Fits(e)
    BY <2>1, <2>2, <2>3, <2>6, Zenon DEF Fits, HasStrings
  <2>. QED
    BY <2>3, <2>4, <2>5, <2>7, Zenon DEF e
<1>3. CASE b = DummyBody
  <2>1. -2 \in Int64s
    <3>1. MaxInt64 \in Nat /\ MaxInt64 >= 1
      BY ConstantFacts, SerialNumbers
    <3>. QED
      BY ONLY <3>1 DEF Int64s
  <2>2. <<1, 2>> \in Seq(Cell) /\ Len(<<1, 2>>) = 2
    BY CellFacts
  <2>3. /\ e.key = <<1, 2>> /\ e.value = <<1, 2>> /\ e.nextKey = <<1, 2>>
        /\ e.height = -2 /\ e.lastHeight = -2 /\ e.serialNum = sn
    BY <1>3 DEF WithSN, DummyBody
  <2>4. e = [key |-> <<1, 2>>, value |-> <<1, 2>>, nextKey |-> <<1, 2>>,
             height |-> -2, lastHeight |-> -2, serialNum |-> sn]
    BY <1>3 DEF WithSN, DummyBody
  <2>. HIDE DEF e
  <2>5. e \in Entry
    BY ONLY <1>1, <2>1, <2>2, <2>4 DEF Entry
  <2>6. BodyOf(e) = b
    BY ONLY <1>3, <2>3 DEF BodyOf, DummyBody
  <2>7. HasStrings(e)
    BY <2>2, <2>3, Zenon DEF HasStrings
  <2>8. Len(Strings(e)) = 12
    <3>1. Len(Strings(e)) = 6 + Len(e.key) + Len(e.value) + Len(e.nextKey)
      BY <2>7, StringsLayout, Zenon
    <3>2. Len(Strings(e)) = 6 + 2 + 2 + 2
      BY <2>2, <2>3, <3>1, Zenon
    <3>. QED
      BY ONLY <3>2
  <2>9. EntryLength(e) < MaxEntryBytes
    <3> DEFINE k == Len(Positions(e))
               n == Len(Strings(e))
    <3>1. k \in Nat /\ 4 * k <= n /\ EntryLength(e) = 2 * k + 2 + n + 12
      BY <2>7, PositionsProp, Zenon
    <3>2. MaxEntryBytes = Base - 1 /\ Base \in Nat /\ Base >= 64
      BY BaseFacts DEF MaxEntryBytes
    <3>3. n = 12
      BY <2>8
    <3>. HIDE DEF k, n
    <3>. QED
      BY ONLY <3>1, <3>2, <3>3
  <2>. QED
    BY <2>3, <2>5, <2>6, <2>7, <2>9, Zenon DEF Fits, e
<1>. QED
  BY <1>2, <1>3

\* What EntryFile.Append makes of the file.
IsAppend(x, f, b1, b2, e, l) ==
    /\ f \in Seq(Cell) /\ Len(f) % 4 = 0 /\ b1 \in Seq(Cell) /\ b2 \in Seq(Cell)
    /\ Good(e, l) /\ b1 \o b2 = EntryToBytes(e, l)
    /\ x = f \o MagicBytes \o b1 \o b2 \o Zeros(getPaddingSize(Len(b1) + Len(b2)))

LEMMA AppendProp ==
    ASSUME NEW x, NEW f, NEW b1, NEW b2, NEW e, NEW l, IsAppend(x, f, b1, b2, e, l)
    PROVE  /\ x \in Seq(Cell) /\ Len(x) % 4 = 0 /\ Holds(x, 0, f)
           /\ EncodedAt(x, Len(f), e, l) /\ Len(x) = After(Len(f), e, l)
<1> DEFINE c == b1 \o b2
           m == Len(l)
           EL == EntryLength(e)
           F == Len(f)
           pad == getPaddingSize(Len(b1) + Len(b2))
           Z == Zeros(pad)
           g1 == f \o MagicBytes
           g2 == g1 \o b1
           g3 == g2 \o b2
           g == g3 \o Z
<1>0. /\ f \in Seq(Cell) /\ Len(f) % 4 = 0 /\ b1 \in Seq(Cell) /\ b2 \in Seq(Cell)
      /\ Good(e, l) /\ b1 \o b2 = EntryToBytes(e, l) /\ x = g
  BY Zenon DEF IsAppend
<1>1. F \in Nat /\ Len(b1) \in Nat /\ Len(b2) \in Nat
  BY <1>0, LenNat, Zenon
<1>2. c \in Seq(Cell) /\ Len(c) = Len(b1) + Len(b2)
  BY <1>0, ConcatHolds, Zenon
<1>3. c = EntryToBytes(e, l) /\ Len(c) = 2 + EL + 4 * m /\ EL \in Nat /\ m \in Nat
  BY <1>0, GoodLayout, Zenon
<1>4. pad \in Nat /\ (Len(c) + pad) % 4 = 0 /\ pad = getPaddingSize(EL + 4 * m + 6)
  <2> DEFINE t == Len(c)
  <2>1. pad = getPaddingSize(t)
    BY <1>2, Zenon
  <2>2. t = 2 + EL + 4 * m
    BY <1>3, Zenon
  <2>. HIDE DEF t, EL, m, pad
  <2>3. t \in Nat /\ EL + 4 * m + 6 = t + 4
    BY ONLY <1>3, <2>2
  <2>4. getPaddingSize(t) \in Nat /\ (t + getPaddingSize(t)) % 4 = 0 /\ getPaddingSize(t + 4) = getPaddingSize(t)
    BY ONLY <2>3 DEF getPaddingSize
  <2>. QED
    BY <2>1, <2>3, <2>4, Zenon DEF t
<1>5. Z \in Seq(Cell) /\ Len(Z) = pad
  <2>. HIDE DEF pad
  <2>1. Z = [i \in 1..pad |-> 0]
    BY Zenon DEF Zeros
  <2>2. 0 \in Cell
    BY CellFacts
  <2>. HIDE DEF Z
  <2>3. Z \in [1..pad -> Cell]
    BY <2>1, <2>2, Zenon
  <2>. QED
    BY <1>4, <2>3, MakeSeq, Zenon
<1>. HIDE DEF F, EL, m, pad, Z, c
<1>6. g1 \in Seq(Cell) /\ Len(g1) = F + 4 /\ Holds(g1, 0, f) /\ Holds(g1, F, MagicBytes)
  BY <1>0, MagicFacts, ConcatHolds, Zenon DEF F
<1>. HIDE DEF g1
<1>7. /\ g2 \in Seq(Cell) /\ Len(g2) = F + 4 + Len(b1) /\ Holds(g2, F + 4, b1)
      /\ Holds(g2, 0, f) /\ Holds(g2, F, MagicBytes)
  <2>1. g2 \in Seq(Cell) /\ Len(g2) = Len(g1) + Len(b1) /\ Holds(g2, Len(g1), b1)
    BY <1>0, <1>6, ConcatHolds, Zenon
  <2>2. 0 \in Nat
    OBVIOUS
  <2>3. Holds(g2, 0, f) /\ Holds(g2, F, MagicBytes)
    BY <1>1, <1>6, <2>2, <1>0, MagicFacts, ConcatKeeps, Zenon
  <2>. HIDE DEF g2
  <2>. QED
    BY <1>6, <2>1, <2>3, Zenon
<1>. HIDE DEF g2
<1>8. /\ g3 \in Seq(Cell) /\ Len(g3) = F + 4 + Len(b1) + Len(b2) /\ Holds(g3, F + 4 + Len(b1), b2)
      /\ Holds(g3, 0, f) /\ Holds(g3, F, MagicBytes) /\ Holds(g3, F + 4, b1)
  <2>1. g3 \in Seq(Cell) /\ Len(g3) = Len(g2) + Len(b2) /\ Holds(g3, Len(g2), b2)
    BY <1>0, <1>7, ConcatHolds, Zenon
  <2>2. 0 \in Nat /\ F + 4 \in Nat
    BY <1>1
  <2>3. Holds(g3, 0, f) /\ Holds(g3, F, MagicBytes) /\ Holds(g3, F + 4, b1)
    BY <1>1, <1>7, <2>2, <1>0, MagicFacts, ConcatKeeps, Zenon
  <2>. HIDE DEF g3
  <2>. QED
    BY <1>7, <2>1, <2>3, Zenon
<1>. HIDE DEF g3
<1>9. Holds(g3, F + 4, c)
  <2>1. F + 4 \in Nat
    BY <1>1
  <2>. QED
    BY <1>0, <1>8, <2>1, HoldsConcat, Zenon DEF c
<1>10. /\ g \in Seq(Cell) /\ Len(g) = Len(g3) + pad
       /\ Holds(g, 0, f) /\ Holds(g, F, MagicBytes) /\ Holds(g, F + 4, c)
  <2>1. g \in Seq(Cell) /\ Len(g) = Len(g3) + Len(Z)
    BY <1>5, <1>8, ConcatHolds, Zenon
  <2>2. 0 \in Nat /\ F + 4 \in Nat
    BY <1>1
  <2>3. Holds(g, 0, f) /\ Holds(g, F, MagicBytes) /\ Holds(g, F + 4, c)
    BY <1>1, <1>2, <1>5, <1>8, <1>9, <2>2, <1>0, MagicFacts, ConcatKeeps, Zenon
  <2>. HIDE DEF g
  <2>. QED
    BY <1>5, <2>1, <2>3, Zenon
<1>. HIDE DEF g
<1>11. Len(g) = F + 4 + Len(c) + pad
  BY ONLY <1>1, <1>2, <1>4, <1>8, <1>10
<1>a. F % 4 = 0
  BY <1>0 DEF F
<1>12. Len(g) % 4 = 0
  <2> DEFINE t == Len(c)
  <2>1. t \in Nat /\ (t + pad) % 4 = 0 /\ Len(g) = F + 4 + t + pad
    BY <1>2, <1>1, <1>4, <1>11
  <2> DEFINE y == t + pad
             G == Len(g)
  <2>2. y \in Nat /\ y % 4 = 0 /\ F \in Nat /\ F % 4 = 0 /\ G = F + 4 + y
    <3>. HIDE DEF t
    <3>1. pad \in Nat
      BY <1>4
    <3>. QED
      BY ONLY <1>1, <1>a, <2>1, <3>1
  <2>. HIDE DEF y, t, G
  <2>3. G % 4 = 0
    BY ONLY <2>2
  <2>. QED
    BY <2>3 DEF G
<1>13. Len(g) = After(F, e, l)
  <2>1. After(F, e, l) = F + (EL + 4 * m) + 6 + getPaddingSize(EL + 4 * m + 6)
    BY DEF After, getNextPos, EL, m
  <2>. QED
    BY ONLY <1>1, <1>3, <1>4, <1>11, <2>1
<1>14. EncodedAt(g, F, e, l)
  <2>1. Holds(g, Len(g3), Z)
    BY <1>5, <1>8, ConcatHolds, Zenon DEF g
  <2>2. Len(g3) = F + 4 + Len(c)
    BY ONLY <1>1, <1>2, <1>8
  <2>3. Z = Zeros(getPaddingSize(Len(c)))
    BY <1>2, Zenon DEF Z, pad
  <2>. QED
    BY <1>3, <1>10, <2>1, <2>2, <2>3, Zenon DEF EncodedAt
<1>b. x = g
  BY <1>0, Zenon DEF g, g3, g2, g1, Z, pad
<1>15. g \in Seq(Cell) /\ Len(g) % 4 = 0 /\ Holds(g, 0, f) /\ EncodedAt(g, F, e, l) /\ Len(g) = After(F, e, l)
  BY <1>10, <1>12, <1>13, <1>14, Zenon
<1>. QED
  BY <1>b, <1>15, Zenon DEF F

LEMMA TwigMultiples ==
    ASSUME NEW t \in Nat, NEW n \in Nat
    PROVE  t * LeafCountInTwig = n <=> n % LeafCountInTwig = 0 /\ t = n \div LeafCountInTwig
<1> DEFINE B == LeafCountInTwig
           q == n \div B
           r == n % B
<1>1. B \in Nat /\ B > 0
  BY ConstantFacts
<1>2. q \in Int /\ r \in 0..B - 1
  BY ONLY <1>1, n \in Nat
<1>a. r = n - B * q
  BY ONLY <1>1, n \in Nat
<1>. HIDE DEF q, r, B
<1>3. B * q \in Int /\ B * t \in Nat /\ t * B = B * t /\ B * (t + 1) = B * t + B /\ q * B = B * q
  BY ONLY <1>1, <1>2, t \in Nat
<1>4. n = B * q + r
  BY ONLY <1>1, <1>2, <1>3, <1>a, n \in Nat
<1>5. ASSUME t * B = n PROVE r = 0 /\ t = q
  <2>1. B * q + r < B * (t + 1) /\ B * q + r >= B * t
    BY ONLY <1>1, <1>3, <1>4, <1>5
  <2>2. r \in Nat /\ r < B /\ t + 1 \in Int /\ t \in Int
    BY ONLY <1>1, <1>2, t \in Nat
  <2>3. q < t + 1 /\ q >= t
    BY ONLY <1>1, <1>2, <2>1, <2>2, QuotientBelow
  <2>4. t = q
    BY ONLY <1>2, <2>3, t \in Nat
  <2>. QED
    BY ONLY <1>2, <1>3, <1>4, <1>5, <2>4
<1>6. ASSUME r = 0, t = q PROVE t * B = n
  BY ONLY <1>3, <1>4, <1>6
<1>. QED
  BY <1>5, <1>6 DEF q, r, B

LEMMA EncodedKeeps ==
    ASSUME NEW f \in Seq(Cell), NEW g \in Seq(Cell), Holds(g, 0, f), NEW p \in Nat,
           NEW e, NEW l, Good(e, l), EncodedAt(f, p, e, l)
    PROVE  EncodedAt(g, p, e, l)
<1> DEFINE t == p + 4 + Len(EntryToBytes(e, l))
           Z == Zeros(getPaddingSize(Len(EntryToBytes(e, l))))
<1>1. 0 \in Nat /\ p + 4 \in Nat /\ 0 + p = p /\ 0 + (p + 4) = p + 4
  OBVIOUS
<1>2. EntryToBytes(e, l) \in Seq(Cell) /\ MagicBytes \in Seq(Cell)
  BY GoodLayout, MagicFacts, Zenon
<1>3. Holds(f, p, MagicBytes) /\ Holds(f, p + 4, EntryToBytes(e, l)) /\ Holds(f, t, Z)
  BY Zenon DEF EncodedAt
<1>a. t \in Nat /\ 0 + t = t /\ Z \in Seq(Cell)
  <2>1. Len(EntryToBytes(e, l)) \in Nat
    BY <1>2, LenNat, Zenon
  <2> DEFINE n == Len(EntryToBytes(e, l))
  <2>2. n \in Nat
    BY <2>1
  <2>. HIDE DEF n
  <2>3. getPaddingSize(n) \in Nat
    BY ONLY <2>2 DEF getPaddingSize
  <2>4. Zeros(getPaddingSize(n)) \in Seq(Cell)
    BY <2>3, ZerosProp, Zenon
  <2>5. p + 4 + n \in Nat /\ 0 + (p + 4 + n) = p + 4 + n
    BY ONLY <2>2, p \in Nat
  <2>. QED
    BY <2>4, <2>5 DEF n
<1>b. Holds(g, 0 + t, Z)
  <2>. HIDE DEF t, Z
  <2>. QED
    BY <1>1, <1>3, <1>a, HoldsTrans, Zenon
<1>4. Holds(g, 0 + p, MagicBytes) /\ Holds(g, 0 + (p + 4), EntryToBytes(e, l))
  <2> DEFINE q == p + 4
             b == EntryToBytes(e, l)
             m == MagicBytes
  <2>1. q \in Nat /\ 0 \in Nat /\ b \in Seq(Cell) /\ m \in Seq(Cell) /\ Holds(f, p, m) /\ Holds(f, q, b)
    BY <1>1, <1>2, <1>3, Zenon
  <2>. HIDE DEF q, b, m
  <2>2. Holds(g, 0 + p, m)
    BY <2>1, HoldsTrans, Zenon
  <2>3. Holds(g, 0 + q, b)
    BY <2>1, HoldsTrans, Zenon
  <2>. QED
    BY <2>2, <2>3, Zenon DEF q, b, m
<1>c. Holds(g, t, Z)
  <2>. HIDE DEF Z
  <2>. QED
    BY <1>a, <1>b, Zenon
<1>. QED
  BY <1>1, <1>4, <1>c, Zenon DEF EncodedAt, t, Z

\* x has what d has, and perhaps more entries.
Continues(d, x) ==
    /\ d.maxSN <= x.maxSN
    /\ \A i \in 1..d.maxSN : x.log[i] = d.log[i]
    /\ \A i \in 1..(d.maxSN + 1) : PosOf(x, i) = PosOf(d, i)

\* b1 and b2 are the bytes of the next entry e and of the list of d,
CanAppend(d, b1, b2, e) ==
    /\ DataOK(d) /\ d.maxSN < MaxSN
    /\ b1 \in Seq(Cell) /\ b2 \in Seq(Cell) /\ b1 \o b2 = EntryToBytes(e, d.list)
    /\ e \in Entry /\ Fits(e) /\ e.serialNum = d.maxSN /\ BodyOf(e) \in Bodies \cup {DummyBody}

\* ... and x is d with e.
Grown(d, x, e) ==
    /\ DataOK(x) /\ Continues(d, x)
    /\ x.maxSN = d.maxSN + 1 /\ x.active = d.active \cup {d.maxSN} /\ x.list = <<>>
    /\ x.log[d.maxSN + 1].entry = e

LEMMA AppendData ==
    ASSUME NEW d, NEW b1, NEW b2, NEW e, CanAppend(d, b1, b2, e)
    PROVE  Grown(d, appendEntry(d, <<b1, b2>>, e), e)
<1> DEFINE sn == d.maxSN
           pos == Len(d.file)
           twig == sn \div LeafCountInTwig
           L == LeafCountInTwig
           g == d.file \o MagicBytes \o b1 \o b2 \o Zeros(getPaddingSize(Len(b1) + Len(b2)))
           r == [entry |-> e, list |-> d.list, pos |-> pos]
           fst == IF sn % L = 0
                  THEN [t \in DOMAIN d.first \cup {twig} |-> IF t = twig THEN pos ELSE d.first[t]]
                  ELSE d.first
           lg == Append(d.log, r)
           x == appendEntry(d, <<b1, b2>>, e)
<1>0. /\ DataOK(d) /\ sn < MaxSN
      /\ b1 \in Seq(Cell) /\ b2 \in Seq(Cell) /\ b1 \o b2 = EntryToBytes(e, d.list)
      /\ e \in Entry /\ Fits(e) /\ e.serialNum = sn /\ BodyOf(e) \in Bodies \cup {DummyBody}
  BY Zenon DEF CanAppend
<1>1. /\ IsData(d) /\ d.file \in Seq(Cell) /\ Len(d.file) % 4 = 0
      /\ sn \in 0..MaxSN /\ d.active \subseteq 0..sn - 1
      /\ d.list \in Seq(0..sn - 1) /\ Len(d.list) <= DeactivedSNListMaxLen + 1
      /\ d.log \in Seq(Record) /\ Len(d.log) = sn /\ PosOf(d, 1) = 0
      /\ \A i \in 1..sn : EntryOK(d, i)
      /\ DOMAIN d.first \subseteq Nat /\ FirstOK(d)
  BY <1>0, Zenon DEF DataOK
<1>2. sn \in Nat /\ sn < MaxSN /\ MaxSN \in Nat /\ L \in Nat /\ L > 0
  BY <1>0, <1>1, ConstantFacts
<1>3. x = [file |-> g, maxSN |-> sn + 1, active |-> d.active \cup {sn}, list |-> <<>>,
           first |-> fst, log |-> lg]
  <2> DEFINE y == [file |-> d.file, maxSN |-> d.maxSN, active |-> d.active, list |-> d.list,
                   first |-> d.first, log |-> d.log]
  <2>1. d = y
    BY <1>1 DEF IsData
  <2>2. <<b1, b2>>[1] = b1 /\ <<b1, b2>>[2] = b2
    OBVIOUS
  <2>3. x = [d EXCEPT !.file = d.file \o MagicBytes \o b1 \o b2 \o Zeros(getPaddingSize(Len(b1) + Len(b2))),
                      !.maxSN = sn + 1, !.active = d.active \cup {sn}, !.list = <<>>,
                      !.first = fst, !.log = lg]
    BY <2>2 DEF appendEntry
  <2>. HIDE DEF x, g, fst, lg
  <2>4. x = [d EXCEPT !.file = g, !.maxSN = sn + 1, !.active = d.active \cup {sn}, !.list = <<>>,
                      !.first = fst, !.log = lg]
    BY <2>3, Zenon DEF g
  <2>5. x = [y EXCEPT !.file = g, !.maxSN = sn + 1, !.active = d.active \cup {sn}, !.list = <<>>,
                      !.first = fst, !.log = lg]
    BY <2>1, <2>4, Zenon
  <2>. QED
    BY ONLY <2>5
<1>4. /\ x.file = g /\ x.maxSN = sn + 1 /\ x.active = d.active \cup {sn} /\ x.list = <<>>
      /\ x.first = fst /\ x.log = lg /\ IsData(x)
  <2>. HIDE DEF x, g, fst, lg
  <2>1. /\ x.file = g /\ x.maxSN = sn + 1 /\ x.active = d.active \cup {sn} /\ x.list = <<>>
        /\ x.first = fst /\ x.log = lg
    BY ONLY <1>3
  <2>. QED
    BY <1>3, <2>1, Zenon DEF IsData
<1>. HIDE DEF x
<1>5. Good(e, d.list)
  <2>1. 0..sn - 1 \subseteq Int64s
    <3>1. \A n \in 0..sn - 1 : n \in 0..MaxSN
      BY ONLY <1>2
    <3>. QED
      BY <3>1, SerialNumbers, Zenon
  <2> DEFINE l == d.list
             S == 0..sn - 1
  <2>a. l \in Seq(S) /\ S \subseteq Int64s /\ Len(l) <= DeactivedSNListMaxLen + 1
    BY <1>1, <2>1, Zenon
  <2>. HIDE DEF l, S
  <2>b. l \in Seq(Int64s)
    BY <2>a, SubSeqType, Zenon
  <2>3. Len(l) \in Nat
    BY <2>b, LenProperties
  <2>c. Len(l) < Base
    BY ONLY <2>a, <2>3, ConstantFacts, BaseFacts
  <2>2. d.list \in Seq(Int64s)
    BY <2>b DEF l
  <2>4. Len(d.list) < Base
    BY <2>c DEF l
  <2>. QED
    BY <1>0, <2>2, <2>4, Zenon DEF Good
<1>a. ListOK(d.list)
  <2> DEFINE l == d.list
             S == 0..sn - 1
  <2>1. l \in Seq(S) /\ Len(l) <= DeactivedSNListMaxLen + 1
    BY <1>1, Zenon
  <2>2. \A n \in S : n \in 0..MaxSN - 1
    BY ONLY <1>2
  <2>. HIDE DEF l, S
  <2>3. \A j \in 1..Len(l) : l[j] \in S
    BY <2>1, ElementOfSeq
  <2>. QED
    BY <2>1, <2>2, <2>3, Zenon DEF ListOK, l
<1>6. /\ g \in Seq(Cell) /\ Len(g) % 4 = 0 /\ Holds(g, 0, d.file)
      /\ EncodedAt(g, pos, e, d.list) /\ Len(g) = After(pos, e, d.list)
  <2> DEFINE f == d.file
             l == d.list
  <2>1. f \in Seq(Cell) /\ Len(f) % 4 = 0 /\ Good(e, l) /\ b1 \o b2 = EntryToBytes(e, l)
    BY <1>0, <1>1, <1>5, Zenon
  <2> DEFINE h == f \o MagicBytes \o b1 \o b2 \o Zeros(getPaddingSize(Len(b1) + Len(b2)))
  <2>a. h = f \o MagicBytes \o b1 \o b2 \o Zeros(getPaddingSize(Len(b1) + Len(b2)))
    OBVIOUS
  <2>. HIDE DEF f, l, h
  <2>2. /\ h \in Seq(Cell) /\ Len(h) % 4 = 0 /\ Holds(h, 0, f)
        /\ EncodedAt(h, Len(f), e, l) /\ Len(h) = After(Len(f), e, l)
    <3>1. IsAppend(h, f, b1, b2, e, l)
      BY <1>0, <2>1, <2>a, Zenon DEF IsAppend
    <3>2. h \in Seq(Cell)
      BY <3>1, AppendProp, Zenon
    <3>3. Len(h) % 4 = 0
      BY <3>1, AppendProp, Zenon
    <3>4. Holds(h, 0, f)
      BY <3>1, AppendProp, Zenon
    <3>5. EncodedAt(h, Len(f), e, l)
      BY <3>1, AppendProp, Zenon
    <3>6. Len(h) = After(Len(f), e, l)
      <4> DEFINE n == After(Len(f), e, l)
      <4>1. Len(h) = n
        BY <3>1, AppendProp
      <4>. QED
        BY <4>1
    <3>. QED
      BY <3>2, <3>3, <3>4, <3>5, <3>6, Zenon
  <2>. QED
    BY <2>2, Zenon DEF f, l, h
<1>7. pos \in Nat
  BY <1>1, LenNat, Zenon
<1>8. r \in Record /\ r.entry = e /\ r.list = d.list /\ r.pos = pos
  <2>1. d.list \in Seq(Int64s)
    BY <1>5, Zenon DEF Good
  <2>. HIDE DEF pos
  <2>. QED
    BY ONLY <1>0, <1>7, <2>1 DEF Record
<1>. HIDE DEF g, r, pos
<1>9. /\ lg \in Seq(Record) /\ Len(lg) = sn + 1 /\ lg[sn + 1] = r
      /\ \A i \in 1..sn : lg[i] = d.log[i]
  <2>1. /\ lg \in Seq(Record) /\ Len(lg) = Len(d.log) + 1
        /\ \A i \in 1..Len(d.log) : lg[i] = d.log[i]
        /\ lg[Len(d.log) + 1] = r
    BY <1>1, <1>8, AppendProperties
  <2>. HIDE DEF lg
  <2>. QED
    BY <1>1, <2>1, Zenon
<1>. HIDE DEF lg
<1>10. \A i \in 1..(sn + 1) : PosOf(x, i) = PosOf(d, i)
  <2>. SUFFICES ASSUME NEW i \in 1..(sn + 1) PROVE PosOf(x, i) = PosOf(d, i)
    OBVIOUS
  <2>1. i <= sn + 1 /\ (i \in 1..sn \/ i = sn + 1)
    BY ONLY <1>2, i \in 1..(sn + 1)
  <2>2. PosOf(x, i) = lg[i].pos
    BY <1>4, <2>1, Zenon DEF PosOf
  <2>3. CASE i \in 1..sn
    <3>1. i <= sn
      BY ONLY <1>2, <2>3
    <3>. QED
      BY <1>9, <2>2, <2>3, <3>1, Zenon DEF PosOf
  <2>4. CASE i = sn + 1
    <3>1. ~(i <= sn)
      BY ONLY <1>2, <2>4
    <3>. QED
      BY <1>8, <1>9, <2>2, <2>4, <3>1, Zenon DEF PosOf, pos
  <2>. QED
    BY <2>1, <2>3, <2>4
<1>11. Continues(d, x)
  <2>1. sn <= sn + 1
    BY ONLY <1>2
  <2>. QED
    BY <1>4, <1>9, <1>10, <2>1, Zenon DEF Continues
<1>12. PosOf(x, sn + 2) = Len(g)
  <2>1. ~(sn + 2 <= sn + 1)
    BY ONLY <1>2
  <2>. QED
    BY <1>4, <2>1, Zenon DEF PosOf
<1>13. ASSUME NEW i \in 1..sn PROVE EntryOK(x, i)
  <2> DEFINE o == d.log[i]
  <2>1. /\ Good(o.entry, o.list) /\ o.entry.serialNum = i - 1 /\ o.pos \in Nat
        /\ BodyOf(o.entry) \in Bodies \cup {DummyBody} /\ ListOK(o.list)
        /\ EncodedAt(d.file, o.pos, o.entry, o.list)
        /\ After(o.pos, o.entry, o.list) = PosOf(d, i + 1)
    BY <1>1, Zenon DEF EntryOK
  <2>2. x.log[i] = o
    BY <1>4, <1>9, Zenon
  <2>3. i + 1 \in 1..(sn + 1)
    BY ONLY <1>2, i \in 1..sn
  <2>4. PosOf(x, i + 1) = PosOf(d, i + 1)
    BY <1>10, <2>3, Zenon
  <2>5. EncodedAt(g, o.pos, o.entry, o.list)
    BY <1>1, <1>6, <2>1, EncodedKeeps, Zenon
  <2>. HIDE DEF o
  <2>. QED
    BY <1>4, <2>1, <2>2, <2>4, <2>5, Zenon DEF EntryOK
<1>14. EntryOK(x, sn + 1)
  <2>1. sn + 1 + 1 = sn + 2 /\ (sn + 1) - 1 = sn
    BY ONLY <1>2
  <2>2. x.log[sn + 1] = r
    BY <1>4, <1>9, Zenon
  <2>3. /\ Good(r.entry, r.list) /\ r.entry.serialNum = (sn + 1) - 1 /\ r.pos \in Nat
        /\ BodyOf(r.entry) \in Bodies \cup {DummyBody} /\ ListOK(r.list)
        /\ EncodedAt(g, r.pos, r.entry, r.list)
        /\ After(r.pos, r.entry, r.list) = PosOf(x, sn + 1 + 1)
    BY <1>0, <1>5, <1>a, <1>6, <1>7, <1>8, <1>12, <2>1, Zenon
  <2>. QED
    BY <1>4, <2>2, <2>3, Zenon DEF EntryOK
<1>15. \A i \in 1..(sn + 1) : EntryOK(x, i)
  <2>1. \A i \in 1..(sn + 1) : i \in 1..sn \/ i = sn + 1
    BY ONLY <1>2
  <2>. QED
    BY <1>13, <1>14, <2>1, Zenon
<1>16. PosOf(x, 1) = 0
  <2>1. 1 \in 1..(sn + 1)
    BY ONLY <1>2
  <2>. QED
    BY <1>1, <1>10, <2>1, Zenon
<1>17. /\ DOMAIN fst \subseteq Nat
       /\ \A t \in Nat : /\ t * L < sn + 1 <=> t \in DOMAIN fst
                         /\ t \in DOMAIN fst => fst[t] = PosOf(x, t * L + 1)
  <2>1. twig \in Nat
    BY ONLY <1>2
  <2>2. \A t \in Nat : t * L = sn <=> sn % L = 0 /\ t = twig
    BY <1>2, TwigMultiples, Zenon
  <2>3. \A t \in Nat : /\ t * L < sn <=> t \in DOMAIN d.first
                       /\ t \in DOMAIN d.first => d.first[t] = PosOf(d, t * L + 1)
    BY <1>1, Zenon DEF FirstOK
  <2>4. \A t \in Nat : t * L \in Nat
    BY ONLY <1>2
  <2>5. ASSUME NEW t \in Nat PROVE t * L < sn + 1 <=> t * L < sn \/ t * L = sn
    <3> DEFINE n == t * L
    <3>1. n \in Nat
      BY <2>4
    <3>. HIDE DEF n
    <3>2. n < sn + 1 <=> n < sn \/ n = sn
      BY ONLY <1>2, <3>1
    <3>. QED
      BY <3>2, Zenon DEF n
  <2>6. ASSUME NEW t \in Nat, t * L < sn \/ t * L = sn PROVE PosOf(x, t * L + 1) = PosOf(d, t * L + 1)
    <3> DEFINE n == t * L
    <3>1. n \in Nat /\ (n < sn \/ n = sn)
      BY <2>4, <2>6
    <3>. HIDE DEF n
    <3>2. n + 1 \in 1..(sn + 1)
      BY ONLY <1>2, <3>1
    <3>3. PosOf(x, n + 1) = PosOf(d, n + 1)
      BY <1>10, <3>2, Zenon
    <3>. QED
      BY <3>3, Zenon DEF n
  <2>7. PosOf(d, sn + 1) = pos
    <3>1. ~(sn + 1 <= sn)
      BY ONLY <1>2
    <3>. QED
      BY <3>1, Zenon DEF PosOf, pos
  <2>. HIDE DEF twig
  <2>8. CASE sn % L = 0
    <3>1. fst = [t \in DOMAIN d.first \cup {twig} |-> IF t = twig THEN pos ELSE d.first[t]]
      BY <2>8
    <3>. HIDE DEF fst
    <3>2. /\ DOMAIN fst = DOMAIN d.first \cup {twig} /\ fst[twig] = pos
          /\ \A t \in DOMAIN d.first : t # twig => fst[t] = d.first[t]
      BY <3>1, Zenon
    <3>3. twig * L = sn
      BY <2>1, <2>2, <2>8, Zenon
    <3>4. DOMAIN fst \subseteq Nat
      BY <1>1, <2>1, <3>2, Zenon
    <3>5. ASSUME NEW t \in Nat PROVE t * L < sn + 1 <=> t \in DOMAIN fst
      BY <2>2, <2>3, <2>5, <2>8, <3>2, <3>3, Zenon
    <3>6. ASSUME NEW t \in Nat, t \in DOMAIN fst PROVE fst[t] = PosOf(x, t * L + 1)
      <4>1. t * L < sn \/ t * L = sn
        BY <2>5, <3>5, <3>6, Zenon
      <4>2. PosOf(x, t * L + 1) = PosOf(d, t * L + 1)
        BY <2>6, <4>1, Zenon
      <4>3. CASE t = twig
        BY <2>7, <3>2, <3>3, <4>2, <4>3, Zenon
      <4>4. CASE t # twig
        BY <2>3, <3>2, <3>6, <4>2, <4>4, Zenon
      <4>. QED
        BY <4>3, <4>4
    <3>. QED
      BY <3>4, <3>5, <3>6, Zenon
  <2>9. CASE sn % L # 0
    <3>1. fst = d.first
      BY <2>9
    <3>. HIDE DEF fst
    <3>2. ASSUME NEW t \in Nat PROVE t * L < sn + 1 <=> t \in DOMAIN fst
      BY <2>2, <2>3, <2>5, <2>9, <3>1, Zenon
    <3>3. ASSUME NEW t \in Nat, t \in DOMAIN fst PROVE fst[t] = PosOf(x, t * L + 1)
      BY <2>3, <2>6, <3>1, <3>3, Zenon
    <3>. QED
      BY <1>1, <3>1, <3>2, <3>3, Zenon
  <2>. QED
    BY <2>8, <2>9
<1>. HIDE DEF fst
<1>18. DOMAIN x.first \subseteq Nat /\ FirstOK(x)
  <2>1. DOMAIN x.first \subseteq Nat
    BY <1>4, <1>17, Zenon
  <2>2. ASSUME NEW t \in Nat
        PROVE  /\ t * L < x.maxSN <=> t \in DOMAIN x.first
               /\ t \in DOMAIN x.first => x.first[t] = PosOf(x, t * L + 1)
    <3>1. x.first = fst /\ x.maxSN = sn + 1
      BY <1>4, Zenon
    <3>2. /\ t * L < sn + 1 <=> t \in DOMAIN fst
          /\ t \in DOMAIN fst => fst[t] = PosOf(x, t * L + 1)
      BY <1>17, Zenon
    <3>. QED
      BY <3>1, <3>2, Zenon
  <2>. QED
    BY <2>1, <2>2, Zenon DEF FirstOK
<1>19. sn + 1 \in 0..MaxSN /\ d.active \cup {sn} \subseteq 0..(sn + 1) - 1
  BY <1>1, <1>2
<1>20. <<>> \in Seq(0..(sn + 1) - 1) /\ Len(<<>>) <= DeactivedSNListMaxLen + 1
  BY ConstantFacts
<1>21. DataOK(x)
  <2>1. /\ x.file \in Seq(Cell) /\ Len(x.file) % 4 = 0
        /\ x.maxSN \in 0..MaxSN /\ x.active \subseteq 0..x.maxSN - 1
        /\ x.list \in Seq(0..x.maxSN - 1) /\ Len(x.list) <= DeactivedSNListMaxLen + 1
        /\ x.log \in Seq(Record) /\ Len(x.log) = x.maxSN
        /\ \A i \in 1..x.maxSN : EntryOK(x, i)
    BY <1>4, <1>6, <1>9, <1>15, <1>19, <1>20, Zenon
  <2>. QED
    BY <1>4, <1>16, <1>18, <2>1, Zenon DEF DataOK
<1>22. x.log[sn + 1].entry = e
  BY <1>4, <1>8, <1>9, Zenon
<1>. QED
  BY <1>4, <1>11, <1>21, <1>22, Zenon DEF x, Grown

LEMMA AppendEntryData ==
    ASSUME NEW d, DataOK(d), d.maxSN < MaxSN, NEW body \in Bodies \cup {DummyBody}
    PROVE  LET x == AppendEntry(d, body)
           IN  /\ DataOK(x) /\ Continues(d, x)
               /\ x.maxSN = d.maxSN + 1 /\ x.active = d.active \cup {d.maxSN} /\ x.list = <<>>
               /\ BodyOf(x.log[d.maxSN + 1].entry) = body
<1> DEFINE e == WithSN(body, d.maxSN)
           l == d.list
           b == EntryToBytes(e, l)
           x == appendEntry(d, <<b, <<>>>>, e)
<1>1. d.maxSN \in 0..MaxSN /\ l \in Seq(0..d.maxSN - 1) /\ Len(l) <= DeactivedSNListMaxLen + 1
  BY DEF DataOK
<1>2. e \in Entry /\ Fits(e) /\ e.serialNum = d.maxSN /\ BodyOf(e) = body
  BY <1>1, NewEntry, Zenon
<1>3. AppendEntry(d, body) = x
  BY DEF AppendEntry
<1>. HIDE DEF e
<1>4. Good(e, l)
  <2>1. 0..d.maxSN - 1 \subseteq Int64s
    <3>1. \A n \in 0..d.maxSN - 1 : n \in 0..MaxSN
      BY <1>1, ConstantFacts
    <3>. QED
      BY <3>1, SerialNumbers, Zenon
  <2> DEFINE S == 0..d.maxSN - 1
  <2>2. S \subseteq Int64s /\ l \in Seq(S)
    BY <1>1, <2>1, Zenon
  <2>. HIDE DEF l, S
  <2>3. l \in Seq(Int64s)
    BY <2>2, SubSeqType, Zenon
  <2>4. Len(l) \in Nat
    BY <2>3, LenProperties
  <2>5. Len(l) < Base
    BY <1>1, <2>4, ConstantFacts, BaseFacts
  <2>. QED
    BY <1>2, <2>3, <2>5, Zenon DEF Good
<1>5. b \in Seq(Cell) /\ <<>> \in Seq(Cell)
  <2>1. <<>> \in Seq(Cell)
    OBVIOUS
  <2>. QED
    BY <1>4, <2>1, GoodLayout, Zenon
<1>6. b \o <<>> = b
  <2>. HIDE DEF b
  <2>. QED
    BY <1>5, ConcatEmptySeq
<1>7. b \o <<>> = EntryToBytes(e, d.list)
  BY <1>6, Zenon
<1>. HIDE DEF b
<1>8. /\ DataOK(x) /\ Continues(d, x)
      /\ x.maxSN = d.maxSN + 1 /\ x.active = d.active \cup {d.maxSN} /\ x.list = <<>>
      /\ x.log[d.maxSN + 1].entry = e
  <2> DEFINE b2 == <<>>
             y == appendEntry(d, <<b, b2>>, e)
  <2>1. BodyOf(e) \in Bodies \cup {DummyBody}
    BY <1>2, Zenon
  <2>2. b2 \in Seq(Cell) /\ b \o b2 = EntryToBytes(e, d.list)
    BY <1>5, <1>7, Zenon
  <2>. HIDE DEF b2
  <2>3. CanAppend(d, b, b2, e)
    BY <1>2, <1>5, <2>1, <2>2, Zenon DEF CanAppend
  <2>4. Grown(d, y, e)
    BY <2>3, AppendData, Zenon
  <2>5. y = x
    BY Zenon DEF b2
  <2>. QED
    BY <2>4, <2>5, Zenon DEF Grown
<1>. HIDE DEF x
<1>. QED
  BY <1>2, <1>3, <1>8, Zenon

LEMMA ContinuesTrans ==
    ASSUME NEW d, NEW x, NEW y, d.maxSN \in Nat, x.maxSN \in Nat, y.maxSN \in Nat,
           Continues(d, x), Continues(x, y)
    PROVE  Continues(d, y)
<1> DEFINE m == d.maxSN
           n == x.maxSN
           k == y.maxSN
<1>1. m \in Nat /\ n \in Nat /\ k \in Nat /\ m <= n /\ n <= k
  BY DEF Continues
<1>2. /\ \A i \in 1..m : x.log[i] = d.log[i]
      /\ \A i \in 1..(m + 1) : PosOf(x, i) = PosOf(d, i)
      /\ \A i \in 1..n : y.log[i] = x.log[i]
      /\ \A i \in 1..(n + 1) : PosOf(y, i) = PosOf(x, i)
  BY Zenon DEF Continues
<1>. HIDE DEF m, n, k
<1>3. m <= k /\ (\A i \in 1..m : i \in 1..n) /\ (\A i \in 1..(m + 1) : i \in 1..(n + 1))
  BY ONLY <1>1
<1>. QED
  BY <1>2, <1>3, Zenon DEF Continues, m, k

LEMMA ClearBitData ==
    ASSUME NEW d, DataOK(d), Len(d.list) <= DeactivedSNListMaxLen, NEW sn \in 0..d.maxSN - 1
    PROVE  LET x == ClearBit(d, sn)
           IN  /\ DataOK(x) /\ Continues(d, x) /\ x.maxSN = d.maxSN /\ x.active = d.active \ {sn}
               /\ Len(x.list) = Len(d.list) + 1
<1> DEFINE x == ClearBit(d, sn)
           y == [file |-> d.file, maxSN |-> d.maxSN, active |-> d.active, list |-> d.list,
                 first |-> d.first, log |-> d.log]
<1>1. /\ d = y /\ d.file \in Seq(Cell) /\ Len(d.file) % 4 = 0
      /\ d.maxSN \in 0..MaxSN /\ d.active \subseteq 0..d.maxSN - 1
      /\ d.list \in Seq(0..d.maxSN - 1)
      /\ d.log \in Seq(Record) /\ Len(d.log) = d.maxSN /\ PosOf(d, 1) = 0
      /\ \A i \in 1..d.maxSN : EntryOK(d, i)
      /\ DOMAIN d.first \subseteq Nat /\ FirstOK(d)
  BY Zenon DEF DataOK, IsData
<1> DEFINE l == Append(d.list, sn)
<1>2. x = [file |-> d.file, maxSN |-> d.maxSN, active |-> d.active \ {sn}, list |-> l,
           first |-> d.first, log |-> d.log]
  <2>1. x = [d EXCEPT !.active = d.active \ {sn}, !.list = l]
    BY DEF ClearBit
  <2>. HIDE DEF x, l
  <2>2. x = [y EXCEPT !.active = d.active \ {sn}, !.list = l]
    BY <1>1, <2>1, Zenon
  <2>. QED
    BY ONLY <2>2
<1>3. /\ x.file = d.file /\ x.maxSN = d.maxSN /\ x.active = d.active \ {sn} /\ x.list = l
      /\ x.first = d.first /\ x.log = d.log
  <2>. HIDE DEF x, l
  <2>. QED
    BY ONLY <1>2
<1>. HIDE DEF x
<1>4. l \in Seq(0..d.maxSN - 1) /\ Len(l) = Len(d.list) + 1
  BY <1>1, AppendProperties
<1>. HIDE DEF l
<1>5. IsData(x)
  BY <1>2, <1>3, Zenon DEF IsData
<1>6. \A i : PosOf(x, i) = PosOf(d, i)
  BY <1>3, Zenon DEF PosOf
<1>7. \A i \in 1..d.maxSN : EntryOK(x, i)
  BY <1>1, <1>3, <1>6, Zenon DEF EntryOK
<1>8. FirstOK(x)
  BY <1>1, <1>3, <1>6, Zenon DEF FirstOK
<1>9. Len(l) <= DeactivedSNListMaxLen + 1
  <2>1. Len(d.list) \in Nat /\ DeactivedSNListMaxLen \in Nat
    BY <1>1, LenProperties, ConstantFacts
  <2>. QED
    BY <1>4, <2>1
<1>10. d.active \ {sn} \subseteq 0..d.maxSN - 1
  BY <1>1, Zenon
<1>11. DataOK(x)
  <2>1. /\ x.file \in Seq(Cell) /\ Len(x.file) % 4 = 0
        /\ x.maxSN \in 0..MaxSN /\ x.active \subseteq 0..x.maxSN - 1
        /\ x.list \in Seq(0..x.maxSN - 1) /\ Len(x.list) <= DeactivedSNListMaxLen + 1
        /\ x.log \in Seq(Record) /\ Len(x.log) = x.maxSN
        /\ \A i \in 1..x.maxSN : EntryOK(x, i)
        /\ DOMAIN x.first \subseteq Nat /\ PosOf(x, 1) = 0
    BY <1>1, <1>3, <1>4, <1>6, <1>7, <1>9, <1>10, Zenon
  <2>. QED
    BY <1>5, <1>8, <2>1, Zenon DEF DataOK
<1>12. Continues(d, x)
  <2>1. d.maxSN <= d.maxSN
    BY <1>1
  <2>. QED
    BY <1>3, <1>6, <2>1, Zenon DEF Continues
<1>. QED
  BY <1>3, <1>4, <1>11, <1>12, Zenon DEF x

\* A deactivation removes one entry and may write a dummy entry, never two.
LEMMA DeactivateData ==
    ASSUME NEW d, DataOK(d), Len(d.list) <= DeactivedSNListMaxLen, d.maxSN < MaxSN,
           NEW sn, sn \in d.active
    PROVE  LET x == DeactiviateEntry(d, sn)
           IN  /\ DataOK(x) /\ Continues(d, x) /\ x.active = d.active \ {sn}
               /\ x.maxSN = d.maxSN \/ (x.maxSN = d.maxSN + 1 /\ d.list # <<>>)
               /\ Len(x.list) <= DeactivedSNListMaxLen
<1> DEFINE c == ClearBit(d, sn)
           a == AppendEntry(c, DummyBody)
           z == ClearBit(a, d.maxSN)
           x == DeactiviateEntry(d, sn)
           D == DeactivedSNListMaxLen
<1>1. d.maxSN \in 0..MaxSN /\ d.active \subseteq 0..d.maxSN - 1
  BY DEF DataOK
<1>2. d.maxSN \in Nat /\ sn \in 0..d.maxSN - 1 /\ d.maxSN \notin d.active /\ D \in Nat /\ D > 0
  BY <1>1, ConstantFacts
<1>3. /\ DataOK(c) /\ Continues(d, c) /\ c.maxSN = d.maxSN /\ c.active = d.active \ {sn}
      /\ Len(c.list) = Len(d.list) + 1
  BY <1>2, ClearBitData, Zenon
<1>4. x = IF Len(c.list) > D THEN z ELSE c
  BY DEF DeactiviateEntry
<1>. HIDE DEF c, x
<1>5. CASE Len(c.list) > D
  <2>1. x = z
    BY <1>4, <1>5
  <2>2. /\ DataOK(a) /\ Continues(c, a) /\ a.maxSN = c.maxSN + 1
        /\ a.active = c.active \cup {c.maxSN} /\ a.list = <<>>
    BY <1>3, AppendEntryData, Zenon
  <2>. HIDE DEF a
  <2>3. d.maxSN \in 0..a.maxSN - 1 /\ a.maxSN = d.maxSN + 1 /\ a.maxSN \in Nat
    BY <1>2, <1>3, <2>2
  <2>4. Len(a.list) = 0 /\ Len(a.list) <= D
    BY ONLY <1>2, <2>2
  <2>5. /\ DataOK(z) /\ Continues(a, z) /\ z.maxSN = a.maxSN /\ z.active = a.active \ {d.maxSN}
        /\ Len(z.list) = Len(a.list) + 1
    BY <2>2, <2>3, <2>4, ClearBitData, Zenon
  <2>. HIDE DEF z
  <2>6. z.active = d.active \ {sn}
    BY <1>2, <1>3, <2>2, <2>5, Zenon
  <2>7. c.maxSN \in Nat /\ z.maxSN \in Nat
    BY <1>2, <1>3, <2>3, <2>5, Zenon
  <2>8. Continues(d, a)
    BY <1>2, <1>3, <2>2, <2>3, <2>7, ContinuesTrans, Zenon
  <2>9. Continues(d, z)
    BY <1>2, <2>3, <2>5, <2>7, <2>8, ContinuesTrans, Zenon
  <2>10. Len(z.list) <= D
    BY ONLY <1>2, <2>4, <2>5
  <2>11. d.list # <<>>
    <3>. SUFFICES ASSUME d.list = <<>> PROVE FALSE
      OBVIOUS
    <3>1. Len(d.list) = 0
      BY EmptyList, Zenon
    <3>. QED
      BY ONLY <1>2, <1>3, <1>5, <3>1
  <2>. QED
    BY <2>1, <2>3, <2>5, <2>6, <2>9, <2>10, <2>11, Zenon DEF x
<1>6. CASE ~(Len(c.list) > D)
  <2>1. x = c
    BY <1>4, <1>6
  <2>2. Len(c.list) \in Nat
    <3>1. c.list \in Seq(0..c.maxSN - 1)
      BY <1>3, Zenon DEF DataOK
    <3>. QED
      BY <3>1, LenProperties
  <2>3. Len(c.list) <= D
    BY ONLY <1>2, <1>6, <2>2
  <2>. QED
    BY <1>3, <2>1, <2>3, Zenon DEF x
<1>. QED
  BY <1>5, <1>6

LEMMA MoveData ==
    ASSUME NEW d, DataOK(d), d.maxSN < MaxSN, NEW e \in Entry, Fits(e),
           BodyOf(e) \in Bodies \cup {DummyBody}, NEW raw, IsRaw(raw, e)
    PROVE  Grown(d, AppendEntryRawBytes(d, UpdateSerialNum(raw, d.maxSN), BodyOf(e)),
                 WithSN(BodyOf(e), d.maxSN))
<1> DEFINE sn == d.maxSN
           x == WithSN(BodyOf(e), sn)
           l == d.list
           b1 == <<Len(l) % Base>> \o Tail(UpdateSerialNum(raw, sn))
           b2 == SNListToBytes(l)
<1>1. sn \in 0..MaxSN /\ l \in Seq(0..sn - 1) /\ Len(l) <= DeactivedSNListMaxLen + 1
  BY DEF DataOK
<1>2. x \in Entry /\ Fits(x) /\ x.serialNum = sn /\ BodyOf(x) = BodyOf(e)
  BY <1>1, NewEntry, Zenon
<1>3. AppendEntryRawBytes(d, UpdateSerialNum(raw, sn), BodyOf(e)) = appendEntry(d, <<b1, b2>>, x)
  BY DEF AppendEntryRawBytes
<1>4. sn \in Int64s /\ l \in Seq(Int64s) /\ Len(l) < Base
  <2>1. 0..sn - 1 \subseteq Int64s
    <3>1. \A n \in 0..sn - 1 : n \in 0..MaxSN
      BY <1>1, ConstantFacts
    <3>. QED
      BY <3>1, SerialNumbers, Zenon
  <2> DEFINE S == 0..sn - 1
  <2>2. S \subseteq Int64s /\ l \in Seq(S)
    BY <1>1, <2>1, Zenon
  <2>. HIDE DEF l, S
  <2>3. l \in Seq(Int64s)
    BY <2>2, SubSeqType, Zenon
  <2>4. Len(l) \in Nat
    BY <2>3, LenProperties
  <2>5. Len(l) < Base
    BY <1>1, <2>4, ConstantFacts, BaseFacts
  <2>. QED
    BY <1>1, <2>3, <2>5, SerialNumbers, Zenon
<1>. HIDE DEF sn, l
<1>5. b1 \in Seq(Cell) /\ b2 \in Seq(Cell) /\ b1 \o b2 = EntryToBytes(x, l)
  BY <1>4, MoveProp, Zenon
<1>. HIDE DEF b1, b2
<1>6. BodyOf(x) \in Bodies \cup {DummyBody}
  BY <1>2, Zenon
<1>. HIDE DEF x
<1>7. CanAppend(d, b1, b2, x)
  BY <1>2, <1>5, <1>6, Zenon DEF CanAppend, sn, l
<1>8. Grown(d, appendEntry(d, <<b1, b2>>, x), x)
  BY <1>7, AppendData, Zenon
<1>. QED
  BY <1>3, <1>8, Zenon DEF sn, x

\* The active entries are finitely many.
LEMMA ActiveFinite ==
    ASSUME NEW d, DataOK(d)
    PROVE  IsFiniteSet(d.active) /\ \A S : S \subseteq d.active => IsFiniteSet(S) /\ Cardinality(S) \in Nat
<1>1. d.maxSN \in Nat /\ d.active \subseteq 0..d.maxSN - 1
  BY ConstantFacts DEF DataOK
<1>2. IsFiniteSet(0..d.maxSN - 1)
  <2>1. 0 \in Int /\ d.maxSN - 1 \in Int
    BY <1>1
  <2>. QED
    BY <2>1, FS_Interval
<1>3. IsFiniteSet(d.active)
  BY <1>1, <1>2, FS_Subset, Zenon
<1>4. ASSUME NEW S, S \subseteq d.active PROVE IsFiniteSet(S) /\ Cardinality(S) \in Nat
  <2>1. IsFiniteSet(S)
    BY <1>3, <1>4, FS_Subset, Zenon
  <2>. QED
    BY <2>1, FS_CardinalityType, Zenon
<1>. QED
  BY <1>3, <1>4, Zenon

LEMMA LiveRemoved ==
    ASSUME NEW d, NEW x, NEW v, NEW sn, DataOK(d), LiveFor(d, v), Continues(d, x),
           sn \in d.active, x.active = d.active \ {sn}
    PROVE  /\ BodyOf(d.log[sn + 1].entry) \in Bodies
           /\ LiveFor(x, [v EXCEPT ![BodyOf(d.log[sn + 1].entry)] = @ - 1])
<1> DEFINE c == BodyOf(d.log[sn + 1].entry)
           w == [v EXCEPT ![c] = @ - 1]
<1>1. /\ v \in [Bodies -> Nat] /\ \A n \in d.active : BodyOf(d.log[n + 1].entry) \in Bodies
      /\ \A b \in Bodies : Cardinality(With(d, b)) = v[b]
  BY Zenon DEF LiveFor
<1>2. c \in Bodies
  BY <1>1, Zenon
<1>3. \A n \in d.active : x.log[n + 1] = d.log[n + 1]
  <2>1. \A n \in d.active : n + 1 \in 1..d.maxSN
    BY ConstantFacts DEF DataOK
  <2>. QED
    BY <2>1, Zenon DEF Continues
<1>4. ASSUME NEW b PROVE With(x, b) = With(d, b) \ {sn}
  BY <1>3, Zenon DEF With
<1>5. ASSUME NEW b PROVE sn \in With(d, b) <=> b = c
  BY Zenon DEF With
<1>6. ASSUME NEW b PROVE IsFiniteSet(With(d, b)) /\ Cardinality(With(d, b)) \in Nat
  <2>1. With(d, b) \subseteq d.active
    BY Zenon DEF With
  <2>. QED
    BY <2>1, ActiveFinite, Zenon
<1>. HIDE DEF c
<1>7. Cardinality(With(x, c)) = v[c] - 1 /\ v[c] - 1 \in Nat
  <2> DEFINE W == With(d, c)
  <2>1. IsFiniteSet(W) /\ sn \in W /\ Cardinality(W) = v[c] /\ v[c] \in Nat /\ With(x, c) = W \ {sn}
    BY <1>1, <1>2, <1>4, <1>5, <1>6, Zenon
  <2>. HIDE DEF W
  <2>2. Cardinality(W \ {sn}) = Cardinality(W) - 1
    BY <2>1, FS_RemoveElement
  <2>3. Cardinality(W) # 0
    BY <2>1, FS_EmptySet, Zenon
  <2>4. v[c] - 1 \in Nat
    BY ONLY <2>1, <2>3
  <2>. QED
    BY <2>1, <2>2, <2>4, Zenon
<1>8. ASSUME NEW b \in Bodies, b # c PROVE Cardinality(With(x, b)) = v[b]
  <2>1. With(x, b) = With(d, b)
    BY <1>4, <1>5, <1>8, Zenon
  <2>. QED
    BY <1>1, <2>1, Zenon
<1>9. w \in [Bodies -> Nat] /\ w[c] = v[c] - 1 /\ \A b \in Bodies : b # c => w[b] = v[b]
  BY ONLY <1>1, <1>2, <1>7
<1>. HIDE DEF w
<1>10. \A n \in x.active : BodyOf(x.log[n + 1].entry) \in Bodies
  BY <1>1, <1>3, Zenon
<1>11. \A b \in Bodies : Cardinality(With(x, b)) = w[b]
  BY <1>7, <1>8, <1>9, Zenon
<1>. QED
  BY <1>2, <1>9, <1>10, <1>11, Zenon DEF LiveFor, w, c

LEMMA LiveAdded ==
    ASSUME NEW d, NEW x, NEW v, NEW c \in Bodies, DataOK(d), LiveFor(d, v), Continues(d, x),
           x.active = d.active \cup {d.maxSN}, BodyOf(x.log[d.maxSN + 1].entry) = c
    PROVE  LiveFor(x, [v EXCEPT ![c] = @ + 1])
<1> DEFINE sn == d.maxSN
           w == [v EXCEPT ![c] = @ + 1]
<1>1. /\ v \in [Bodies -> Nat] /\ \A n \in d.active : BodyOf(d.log[n + 1].entry) \in Bodies
      /\ \A b \in Bodies : Cardinality(With(d, b)) = v[b]
  BY Zenon DEF LiveFor
<1>2. (\A n \in d.active : n + 1 \in 1..sn) /\ sn \notin d.active
  BY ConstantFacts DEF DataOK
<1>3. \A n \in d.active : x.log[n + 1] = d.log[n + 1]
  BY <1>2, Zenon DEF Continues
<1>4. With(x, c) = With(d, c) \cup {sn} /\ sn \notin With(d, c)
  BY <1>2, <1>3, Zenon DEF With
<1>5. ASSUME NEW b, b # c PROVE With(x, b) = With(d, b)
  BY <1>2, <1>3, <1>5, Zenon DEF With
<1>6. IsFiniteSet(With(d, c))
  <2>1. With(d, c) \subseteq d.active
    BY Zenon DEF With
  <2>. QED
    BY <2>1, ActiveFinite, Zenon
<1>7. Cardinality(With(x, c)) = v[c] + 1
  <2> DEFINE W == With(d, c)
  <2>1. IsFiniteSet(W) /\ sn \notin W /\ Cardinality(W) = v[c] /\ With(x, c) = W \cup {sn}
    BY <1>1, <1>4, <1>6, Zenon
  <2>. HIDE DEF W, sn
  <2>2. Cardinality(W \cup {sn}) = Cardinality(W) + 1
    BY <2>1, FS_AddElement
  <2>. QED
    BY <2>1, <2>2, Zenon
<1>8. w \in [Bodies -> Nat] /\ w[c] = v[c] + 1 /\ \A b \in Bodies : b # c => w[b] = v[b]
  BY ONLY <1>1, c \in Bodies
<1>. HIDE DEF w
<1>9. \A n \in x.active : BodyOf(x.log[n + 1].entry) \in Bodies
  BY <1>1, <1>3, Zenon
<1>10. \A b \in Bodies : Cardinality(With(x, b)) = w[b]
  BY <1>1, <1>5, <1>7, <1>8, Zenon
<1>. QED
  BY <1>8, <1>9, <1>10, Zenon DEF LiveFor, w

-----------------------------------------------------------------------------
(* The steps *)

LEMMA DataFields ==
    /\ IsData(Data) /\ Data.file = file /\ Data.maxSN = maxSN /\ Data.active = active
    /\ Data.list = deactivedSNList /\ Data.first = firstEntryPos /\ Data.log = log
BY DEF Data, IsData

LEMMA NewData ==
    ASSUME NEW x, IsData(x), Becomes(x)
    PROVE  /\ Data' = x /\ file' = x.file /\ maxSN' = x.maxSN /\ active' = x.active
           /\ deactivedSNList' = x.list /\ firstEntryPos' = x.first /\ log' = x.log
BY Zenon DEF Becomes, Data, IsData

LEMMA SameData ==
    ASSUME UNCHANGED <<file, maxSN, active, deactivedSNList, firstEntryPos, log>>
    PROVE  Data' = Data
BY DEF Data

LEMMA InitStep == Init => Inv
<1>. SUFFICES ASSUME Init PROVE Inv
  OBVIOUS
<1>1. /\ file = <<>> /\ maxSN = 0 /\ active = {} /\ deactivedSNList = <<>>
      /\ firstEntryPos = <<>> /\ oldest = 0 /\ reader = NoReader /\ chan = <<>>
      /\ log = <<>> /\ live = [b \in Bodies |-> 0]
  BY DEF Init
<1>2. LeafCountInTwig \in Nat /\ MaxSN \in Nat /\ DeactivedSNListMaxLen \in Nat /\ ChanCap \in Nat
  BY ConstantFacts
<1>3. Types
  <2>1. Len(deactivedSNList) <= DeactivedSNListMaxLen /\ oldest \in Nat /\ chan \in Seq(Seq(Cell))
    BY <1>1, <1>2
  <2>2. reader \in [running : BOOLEAN, open : BOOLEAN, i : Nat, start : Nat, panicked : BOOLEAN]
    BY <1>1 DEF NoReader
  <2>. QED
    BY <2>1, <2>2 DEF Types
<1>4. DataOK(Data)
  <2>1. /\ file \in Seq(Cell) /\ Len(file) = 0 /\ 0 % 4 = 0 /\ maxSN \in 0..MaxSN
        /\ active \subseteq 0..maxSN - 1
        /\ deactivedSNList \in Seq(0..maxSN - 1) /\ Len(deactivedSNList) <= DeactivedSNListMaxLen + 1
        /\ log \in Seq(Record) /\ Len(log) = maxSN /\ 1..maxSN = {}
    BY <1>1, <1>2
  <2>2. PosOf(Data, 1) = 0
    <3>1. ~(1 <= maxSN)
      BY <1>1
    <3>. QED
      BY <2>1, <3>1, DataFields, Zenon DEF PosOf
  <2>3. DOMAIN firstEntryPos = {}
    BY <1>1
  <2>4. \A t \in Nat : ~(t * LeafCountInTwig < maxSN)
    BY <1>1, <1>2
  <2>5. FirstOK(Data)
    BY <2>3, <2>4, DataFields, Zenon DEF FirstOK
  <2>. QED
    BY <2>1, <2>2, <2>3, <2>5, DataFields, Zenon DEF DataOK
<1>5. LiveFor(Data, live)
  <2>1. \A b \in Bodies : With(Data, b) = {}
    BY <1>1, DataFields, Zenon DEF With
  <2>2. Cardinality({}) = 0
    BY FS_EmptySet
  <2>3. live \in [Bodies -> Nat] /\ \A b \in Bodies : live[b] = 0
    BY <1>1
  <2>. QED
    BY <1>1, <2>1, <2>2, <2>3, DataFields, Zenon DEF LiveFor
<1>6. reader.running = FALSE /\ reader.panicked = FALSE
  BY <1>1 DEF NoReader
<1>7. ReaderOK
  <2>1. oldest * LeafCountInTwig <= maxSN
    BY <1>1, <1>2
  <2>. QED
    BY <1>1, <1>6, <2>1, Zenon DEF ReaderOK
<1>8. ChanOK
  <2>1. Len(chan) <= ChanCap /\ 1..Len(chan) = {}
    BY <1>1, <1>2
  <2>. QED
    BY <1>6, <2>1, Zenon DEF ChanOK
<1>. QED
  BY <1>3, <1>4, <1>5, <1>7, <1>8 DEF Inv

\* While no twig is compacted.
LEMMA QuietStep ==
    ASSUME Inv, ~reader.running, NEW x, DataOK(x), Len(x.list) <= DeactivedSNListMaxLen, Becomes(x),
           LiveFor(x, live'), UNCHANGED <<oldest, reader, chan>>, maxSN <= x.maxSN,
           \A sn \in x.active : sn \in active \/ sn >= maxSN
    PROVE  Inv'
<1>1. Types /\ ReaderOK /\ ChanOK /\ DataOK(Data)
  BY DEF Inv
<1>2. /\ Data' = x /\ maxSN' = x.maxSN /\ active' = x.active /\ deactivedSNList' = x.list /\ log' = x.log
  BY NewData, Zenon DEF DataOK
<1>3. oldest' = oldest /\ reader' = reader /\ chan' = chan
  OBVIOUS
<1>4. Types'
  BY <1>1, <1>2, <1>3, Zenon DEF Types
<1>5. chan = <<>> /\ ~reader.panicked /\ oldest * LeafCountInTwig <= maxSN
      /\ \A sn \in active : oldest * LeafCountInTwig <= sn
  BY <1>1, Zenon DEF ReaderOK
<1>6. /\ oldest * LeafCountInTwig \in Nat /\ maxSN \in Nat /\ x.maxSN \in Nat
      /\ \A sn \in x.active : sn \in Nat
  <2>1. oldest \in Nat /\ LeafCountInTwig \in Nat /\ MaxSN \in Nat
    BY <1>1, ConstantFacts DEF Types
  <2>2. maxSN \in Nat /\ x.maxSN \in Nat /\ \A sn \in x.active : sn \in Nat
    <3>1. maxSN \in 0..MaxSN /\ x.maxSN \in 0..MaxSN /\ x.active \subseteq 0..x.maxSN - 1
      BY <1>1, DataFields, Zenon DEF DataOK
    <3>. QED
      BY <2>1, <3>1
  <2>3. oldest * LeafCountInTwig \in Nat
    BY ONLY <2>1
  <2>. QED
    BY <2>2, <2>3
<1> DEFINE n == oldest * LeafCountInTwig
<1>7. n <= x.maxSN /\ \A sn \in x.active : n <= sn
  <2>1. n <= maxSN /\ n \in Nat /\ \A sn \in active : n <= sn
    BY <1>5, <1>6, Zenon
  <2>. HIDE DEF n
  <2>2. n <= x.maxSN
    BY <1>6, <2>1
  <2>3. ASSUME NEW sn \in x.active PROVE n <= sn
    BY <1>6, <2>1
  <2>. QED
    BY <2>2, <2>3
<1>8. ReaderOK'
  BY <1>2, <1>3, <1>5, <1>7, Zenon DEF ReaderOK
<1>9. ChanOK'
  <2>1. 1..Len(chan') = {} /\ Len(chan') <= ChanCap
    BY <1>3, <1>5, ConstantFacts
  <2>. QED
    BY <1>3, <2>1, Zenon DEF ChanOK
<1>. QED
  BY <1>2, <1>4, <1>8, <1>9, Zenon DEF Inv

LEMMA RoomFacts ==
    ASSUME Inv, HasRoom
    PROVE  /\ maxSN \in Nat /\ maxSN < MaxSN /\ maxSN + 1 < MaxSN
           /\ Len(deactivedSNList) <= DeactivedSNListMaxLen
           /\ \A sn \in active : sn \in Nat /\ sn < maxSN
<1>1. maxSN \in 0..MaxSN /\ active \subseteq 0..maxSN - 1
  BY DataFields, Zenon DEF Inv, DataOK
<1>2. maxSN < MaxWritten
  BY DEF HasRoom
<1>. QED
  BY <1>1, <1>2, ConstantFacts DEF Inv, Types

LEMMA InsertStep ==
    ASSUME Inv, NEW body \in Bodies, Insert(body)
    PROVE  Inv'
<1> DEFINE x == AppendEntry(Data, body)
<1>1. ~reader.running /\ HasRoom /\ Becomes(x) /\ live' = [live EXCEPT ![body] = @ + 1]
      /\ UNCHANGED <<oldest, reader, chan>>
  BY Zenon DEF Insert
<1>2. DataOK(Data) /\ LiveFor(Data, live)
  BY DEF Inv
<1>3. maxSN \in Nat /\ maxSN < MaxSN
  BY <1>1, RoomFacts, Zenon
<1>4. body \in Bodies \cup {DummyBody} /\ Data.maxSN < MaxSN
  BY <1>3, DataFields, Zenon
<1>5. /\ DataOK(x) /\ Continues(Data, x)
      /\ x.maxSN = maxSN + 1 /\ x.active = active \cup {maxSN} /\ x.list = <<>>
      /\ BodyOf(x.log[maxSN + 1].entry) = body
  <2>1. /\ DataOK(x) /\ Continues(Data, x)
        /\ x.maxSN = Data.maxSN + 1 /\ x.active = Data.active \cup {Data.maxSN} /\ x.list = <<>>
        /\ BodyOf(x.log[Data.maxSN + 1].entry) = body
    BY <1>2, <1>4, AppendEntryData, Zenon
  <2>. HIDE DEF x
  <2>. QED
    BY <2>1, DataFields, Zenon
<1>. HIDE DEF x
<1>6. LiveFor(x, live')
  <2>1. x.active = Data.active \cup {Data.maxSN} /\ BodyOf(x.log[Data.maxSN + 1].entry) = body
    BY <1>5, DataFields, Zenon
  <2>. QED
    BY <1>1, <1>2, <1>5, <2>1, LiveAdded, Zenon
<1>7. Len(x.list) <= DeactivedSNListMaxLen /\ maxSN <= x.maxSN /\ maxSN >= maxSN
  <2>1. DeactivedSNListMaxLen \in Nat
    BY ConstantFacts
  <2>. QED
    BY ONLY <1>3, <1>5, <2>1
<1>8. \A sn \in x.active : sn \in active \/ sn >= maxSN
  BY <1>5, <1>7, Zenon
<1>. QED
  BY <1>1, <1>5, <1>6, <1>7, <1>8, QuietStep, Zenon

LEMMA DeactivateVars ==
    ASSUME Inv, maxSN < MaxSN, NEW sn \in active, NEW x, x = DeactiviateEntry(Data, sn)
    PROVE  /\ DataOK(x) /\ Continues(Data, x) /\ x.active = active \ {sn}
           /\ x.maxSN = maxSN \/ (x.maxSN = maxSN + 1 /\ deactivedSNList # <<>>)
           /\ Len(x.list) <= DeactivedSNListMaxLen
           /\ BodyOf(log[sn + 1].entry) \in Bodies
           /\ LiveFor(x, [live EXCEPT ![BodyOf(log[sn + 1].entry)] = @ - 1])
<1>1. DataOK(Data) /\ LiveFor(Data, live) /\ Len(deactivedSNList) <= DeactivedSNListMaxLen
  BY DEF Inv, Types
<1> DEFINE d == Data
<1>2. /\ DataOK(d) /\ LiveFor(d, live) /\ Len(d.list) <= DeactivedSNListMaxLen /\ d.maxSN < MaxSN
      /\ sn \in d.active /\ d.maxSN = maxSN /\ d.active = active /\ d.list = deactivedSNList /\ d.log = log
      /\ x = DeactiviateEntry(d, sn)
  BY <1>1, DataFields, Zenon
<1>. HIDE DEF d
<1>3. /\ DataOK(x) /\ Continues(d, x) /\ x.active = d.active \ {sn}
      /\ x.maxSN = d.maxSN \/ (x.maxSN = d.maxSN + 1 /\ d.list # <<>>)
      /\ Len(x.list) <= DeactivedSNListMaxLen
  <2> DEFINE y == DeactiviateEntry(d, sn)
  <2>1. /\ DataOK(y) /\ Continues(d, y) /\ y.active = d.active \ {sn}
        /\ y.maxSN = d.maxSN \/ (y.maxSN = d.maxSN + 1 /\ d.list # <<>>)
        /\ Len(y.list) <= DeactivedSNListMaxLen
    BY <1>2, DeactivateData
  <2>2. x = y
    BY <1>2
  <2>. HIDE DEF y
  <2>. QED
    BY <2>1, <2>2, Zenon
<1>4. /\ BodyOf(d.log[sn + 1].entry) \in Bodies
      /\ LiveFor(x, [live EXCEPT ![BodyOf(d.log[sn + 1].entry)] = @ - 1])
  BY <1>2, <1>3, LiveRemoved, Zenon
<1>. QED
  BY <1>2, <1>3, <1>4, Zenon DEF d

LEMMA DeleteStep ==
    ASSUME Inv, NEW sn \in active, Delete(sn)
    PROVE  Inv'
<1> DEFINE x == DeactiviateEntry(Data, sn)
<1>1. /\ ~reader.running /\ HasRoom /\ Becomes(x)
      /\ live' = [live EXCEPT ![BodyOf(log[sn + 1].entry)] = @ - 1]
      /\ UNCHANGED <<oldest, reader, chan>>
  BY Zenon DEF Delete
<1>2. maxSN \in Nat /\ maxSN < MaxSN
  BY <1>1, RoomFacts, Zenon
<1>a. x = DeactiviateEntry(Data, sn)
  OBVIOUS
<1>. HIDE DEF x
<1>3. /\ DataOK(x) /\ x.active = active \ {sn}
      /\ x.maxSN = maxSN \/ x.maxSN = maxSN + 1
      /\ Len(x.list) <= DeactivedSNListMaxLen
      /\ LiveFor(x, [live EXCEPT ![BodyOf(log[sn + 1].entry)] = @ - 1])
  BY <1>2, <1>a, DeactivateVars, Zenon
<1>4. LiveFor(x, live')
  BY <1>1, <1>3, Zenon
<1>5. maxSN <= x.maxSN
  BY ONLY <1>2, <1>3
<1>6. \A n \in x.active : n \in active \/ n >= maxSN
  BY <1>3, Zenon
<1>. QED
  BY <1>1, <1>3, <1>4, <1>5, <1>6, QuietStep, Zenon

LEMMA ChangeStep ==
    ASSUME Inv, NEW sn \in active, NEW body \in Bodies, Change(sn, body)
    PROVE  Inv'
<1> DEFINE x == DeactiviateEntry(Data, sn)
           y == AppendEntry(x, body)
           c == BodyOf(log[sn + 1].entry)
           v == [live EXCEPT ![c] = @ - 1]
<1>1. /\ ~reader.running /\ HasRoom /\ Becomes(y)
      /\ live' = [v EXCEPT ![body] = @ + 1]
      /\ UNCHANGED <<oldest, reader, chan>>
  BY Zenon DEF Change
<1>2. maxSN \in Nat /\ maxSN < MaxSN /\ maxSN + 1 < MaxSN
  BY <1>1, RoomFacts, Zenon
<1>a. x = DeactiviateEntry(Data, sn)
  OBVIOUS
<1>. HIDE DEF x
<1>3. /\ DataOK(x) /\ x.active = active \ {sn}
      /\ x.maxSN = maxSN \/ x.maxSN = maxSN + 1
      /\ c \in Bodies /\ LiveFor(x, v)
  BY <1>2, <1>a, DeactivateVars, Zenon
<1>4. x.maxSN \in Nat /\ x.maxSN < MaxSN /\ MaxSN \in Nat /\ maxSN <= x.maxSN
  <2>1. MaxSN \in Nat
    BY ConstantFacts
  <2>. QED
    BY ONLY <1>2, <1>3, <2>1
<1>5. body \in Bodies \cup {DummyBody}
  OBVIOUS
<1>6. /\ DataOK(y) /\ Continues(x, y)
      /\ y.maxSN = x.maxSN + 1 /\ y.active = x.active \cup {x.maxSN} /\ y.list = <<>>
      /\ BodyOf(y.log[x.maxSN + 1].entry) = body
  BY <1>3, <1>4, <1>5, AppendEntryData, Zenon
<1>. HIDE DEF y, c
<1>7. LiveFor(y, [v EXCEPT ![body] = @ + 1])
  <2>. HIDE DEF v
  <2>. QED
    BY <1>3, <1>6, LiveAdded, Zenon
<1>8. live' = [v EXCEPT ![body] = @ + 1]
  BY <1>1, Zenon
<1>9. LiveFor(y, live')
  BY <1>7, <1>8, Zenon
<1>10. Len(y.list) <= DeactivedSNListMaxLen /\ maxSN <= y.maxSN
  <2>1. DeactivedSNListMaxLen \in Nat
    BY ConstantFacts
  <2>. QED
    BY ONLY <1>2, <1>4, <1>6, <2>1
<1>11. \A n \in y.active : n \in active \/ n >= maxSN
  <2>1. x.maxSN >= maxSN
    BY ONLY <1>2, <1>4
  <2>. QED
    BY <1>3, <1>6, <2>1, Zenon
<1>. QED
  BY <1>1, <1>6, <1>9, <1>10, <1>11, QuietStep, Zenon

\* The facts about the running goroutine.
LEMMA ReaderFacts ==
    ASSUME Inv
    PROVE  /\ DataOK(Data) /\ LiveFor(Data, live) /\ Types
           /\ maxSN \in Nat /\ MaxSN \in Nat /\ oldest \in Nat /\ active \subseteq 0..maxSN - 1
           /\ LeafCountInTwig \in Nat /\ LeafCountInTwig > 0
           /\ oldest * LeafCountInTwig \in Nat
           /\ (oldest + 1) * LeafCountInTwig = oldest * LeafCountInTwig + LeafCountInTwig
           /\ reader.i \in Nat /\ CurrentSN \in Nat /\ CurrentSN = oldest * LeafCountInTwig + reader.i
           /\ reader = [running |-> reader.running, open |-> reader.open, i |-> reader.i,
                        start |-> reader.start, panicked |-> reader.panicked]
           /\ chan \in Seq(Seq(Cell)) /\ Len(chan) \in Nat
<1>1. DataOK(Data) /\ LiveFor(Data, live) /\ Types
  BY DEF Inv
<1>2. maxSN \in 0..MaxSN /\ active \subseteq 0..maxSN - 1
  BY <1>1, DataFields, Zenon DEF DataOK
<1>3. MaxSN \in Nat /\ LeafCountInTwig \in Nat /\ LeafCountInTwig > 0
  BY ConstantFacts
<1>4. oldest \in Nat /\ chan \in Seq(Seq(Cell))
      /\ reader \in [running : BOOLEAN, open : BOOLEAN, i : Nat, start : Nat, panicked : BOOLEAN]
  BY <1>1 DEF Types
<1>5. /\ reader.i \in Nat
      /\ reader = [running |-> reader.running, open |-> reader.open, i |-> reader.i,
                   start |-> reader.start, panicked |-> reader.panicked]
  BY ONLY <1>4
<1> DEFINE n == oldest * LeafCountInTwig
<1>6. n \in Nat /\ (oldest + 1) * LeafCountInTwig = n + LeafCountInTwig
  BY ONLY <1>3, <1>4
<1>7. CurrentSN = n + reader.i
  BY DEF CurrentSN
<1>. HIDE DEF n
<1>8. CurrentSN \in Nat
  BY ONLY <1>5, <1>6, <1>7
<1>9. maxSN \in Nat
  BY ONLY <1>2, <1>3
<1>10. Len(chan) \in Nat
  BY <1>4, LenProperties
<1>. QED
  BY <1>1, <1>2, <1>3, <1>4, <1>5, <1>6, <1>7, <1>8, <1>9, <1>10, Zenon DEF n

LEMMA StartStep ==
    ASSUME Inv, GetActiveEntriesInTwig
    PROVE  Inv'
<1> DEFINE L == LeafCountInTwig
           n == oldest * L
           K == KeptEntriesToActiveEntriesRatio
           A == Cardinality(active)
<1>1. /\ ~reader.running /\ maxSN - n > A * K /\ A > StartReapThres /\ maxSN + L + 1 <= MaxSN
      /\ reader' = [running |-> TRUE, open |-> TRUE, i |-> 0, start |-> firstEntryPos[oldest],
                    panicked |-> FALSE]
      /\ UNCHANGED <<file, maxSN, active, deactivedSNList, firstEntryPos, oldest, chan, log, live>>
  BY Zenon DEF GetActiveEntriesInTwig, NumOfKeptEntries
<1>2. /\ DataOK(Data) /\ LiveFor(Data, live) /\ Types
      /\ maxSN \in Nat /\ MaxSN \in Nat /\ oldest \in Nat /\ active \subseteq 0..maxSN - 1
      /\ L \in Nat /\ L > 0 /\ n \in Nat /\ (oldest + 1) * L = n + L
  BY ReaderFacts, Zenon
<1>3. ReaderOK /\ ChanOK
  BY DEF Inv
<1>4. A \in Nat /\ IsFiniteSet(active)
  BY <1>2, DataFields, ActiveFinite, FS_CardinalityType, Zenon
<1>5. chan = <<>> /\ \A sn \in active : n <= sn
  BY <1>1, <1>3, Zenon DEF ReaderOK
<1>. HIDE DEF n, A
<1>6. n + L < maxSN
  <2>1. K \in Nat /\ StartReapThres \in Nat /\ K * (StartReapThres + 1) >= L
    BY ConstantFacts
  <2> DEFINE T == StartReapThres + 1
             B == A - T
  <2>2. T \in Nat /\ B \in Nat /\ A = T + B
    BY ONLY <1>1, <1>4, <2>1
  <2>3. K * T >= L
    BY <2>1
  <2>. HIDE DEF T, B
  <2>4. A * K = K * T + K * B /\ K * B \in Nat /\ K * T \in Nat
    BY ONLY <2>1, <2>2
  <2> DEFINE kt == K * T
             kb == K * B
             ak == A * K
  <2>5. ak = kt + kb /\ kb \in Nat /\ kt \in Nat /\ kt >= L /\ maxSN - n > ak
    BY <1>1, <2>3, <2>4
  <2>. HIDE DEF kt, kb, ak
  <2>. QED
    BY ONLY <1>2, <2>5
<1>7. Data' = Data
  BY <1>1, SameData, Zenon
<1>8. /\ maxSN' = maxSN /\ active' = active /\ deactivedSNList' = deactivedSNList /\ oldest' = oldest
      /\ chan' = chan /\ log' = log /\ live' = live
  BY <1>1
<1>9. /\ reader'.running = TRUE /\ reader'.open = TRUE /\ reader'.i = 0
      /\ reader'.start = firstEntryPos[oldest] /\ reader'.panicked = FALSE
  BY ONLY <1>1
<1>10. firstEntryPos[oldest] = PosOf(Data, n + 1) /\ PosOf(Data, n + 1) \in Nat
  <2>1. n < maxSN
    BY ONLY <1>2, <1>6
  <2>2. firstEntryPos[oldest] = PosOf(Data, n + 1)
    BY <1>2, <2>1, DataFields, Zenon DEF DataOK, FirstOK, n
  <2>3. n + 1 \in 1..maxSN /\ n + 1 <= maxSN
    BY ONLY <1>2, <2>1
  <2>4. EntryOK(Data, n + 1)
    BY <1>2, <2>3, DataFields, Zenon DEF DataOK
  <2>5. PosOf(Data, n + 1) = Data.log[n + 1].pos
    BY <2>3, DataFields, Zenon DEF PosOf
  <2>. QED
    BY <2>2, <2>4, <2>5, Zenon DEF EntryOK
<1>11. Types'
  <2>1. reader' \in [running : BOOLEAN, open : BOOLEAN, i : Nat, start : Nat, panicked : BOOLEAN]
    <3> DEFINE p == firstEntryPos[oldest]
    <3>1. p \in Nat
      BY <1>10, Zenon
    <3>2. reader' = [running |-> TRUE, open |-> TRUE, i |-> 0, start |-> p, panicked |-> FALSE]
      BY <1>1
    <3>. HIDE DEF p
    <3>. QED
      BY ONLY <3>1, <3>2
  <2>. QED
    BY <1>2, <1>8, <2>1, Zenon DEF Types
<1>12. CurrentSN' = n
  <2>1. CurrentSN' = n + 0
    BY <1>8, <1>9, Zenon DEF CurrentSN, n
  <2>. QED
    BY ONLY <1>2, <2>1
<1>13. InTwig' = InTwig /\ Cardinality(InTwig) \in Nat /\ Cardinality(InTwig) <= L
  <2>1. InTwig' = InTwig
    BY <1>8, Zenon DEF InTwig
  <2>2. InTwig \subseteq n..n + L - 1
    <3>. SUFFICES ASSUME NEW sn \in InTwig PROVE sn \in n..n + L - 1
      OBVIOUS
    <3>1. sn \in active /\ sn < n + L
      BY <1>2, Zenon DEF InTwig
    <3>2. n <= sn /\ sn \in Nat
      BY <1>2, <1>5, <3>1
    <3>. QED
      BY ONLY <1>2, <3>1, <3>2
  <2>3. IsFiniteSet(n..n + L - 1) /\ Cardinality(n..n + L - 1) = L
    <3> DEFINE m == n + L - 1
    <3>1. n \in Int /\ m \in Int /\ ~(n > m) /\ m - n + 1 = L
      BY ONLY <1>2
    <3>. HIDE DEF m
    <3>2. IsFiniteSet(n..m) /\ Cardinality(n..m) = IF n > m THEN 0 ELSE m - n + 1
      BY <3>1, FS_Interval
    <3>3. IsFiniteSet(n..m) /\ Cardinality(n..m) = L
      BY <3>1, <3>2, Zenon
    <3>. QED
      BY <3>3 DEF m
  <2>4. IsFiniteSet(InTwig) /\ Cardinality(InTwig) <= Cardinality(n..n + L - 1)
    BY <2>2, <2>3, FS_Subset, Zenon
  <2>. QED
    BY <2>1, <2>3, <2>4, FS_CardinalityType, Zenon
<1>14. ReaderOK'
  <2>1. 0 \in 0..L
    BY ONLY <1>2
  <2>2. (oldest + 1) * L <= maxSN /\ n <= maxSN
    BY ONLY <1>2, <1>6
  <2>3. maxSN + Cardinality(InTwig) + (IF deactivedSNList = <<>> THEN 0 ELSE 1) <= MaxSN
    BY ONLY <1>1, <1>2, <1>13
  <2>4. /\ ~reader'.panicked /\ oldest' * L <= maxSN' /\ \A sn \in active' : oldest' * L <= sn
        /\ reader'.i \in 0..L /\ reader'.open /\ (oldest' + 1) * L <= maxSN'
        /\ reader'.start = PosOf(Data', CurrentSN' + 1) /\ reader'.running
    BY <1>5, <1>7, <1>8, <1>9, <1>10, <1>12, <2>1, <2>2, Zenon DEF n
  <2>5. maxSN' + Cardinality(InTwig') + (IF deactivedSNList' = <<>> THEN 0 ELSE 1) <= MaxSN
    BY <1>8, <1>13, <2>3, Zenon
  <2>. QED
    BY <2>4, <2>5, Zenon DEF ReaderOK
<1>15. ChanOK'
  <2>1. 1..Len(chan') = {} /\ Len(chan') <= ChanCap
    BY <1>5, <1>8, ConstantFacts
  <2>2. \A sn \in active' : ~(sn < CurrentSN')
    <3>. SUFFICES ASSUME NEW sn \in active, sn < n PROVE FALSE
      BY <1>8, <1>12, Zenon
    <3>1. n <= sn /\ sn \in Nat
      BY <1>2, <1>5
    <3>. QED
      BY ONLY <1>2, <3>1, sn < n
  <2>. QED
    BY <2>1, <2>2, Zenon DEF ChanOK
<1>16. DataOK(Data') /\ LiveFor(Data', live')
  BY <1>2, <1>7, <1>8, Zenon
<1>. QED
  BY <1>11, <1>14, <1>15, <1>16, Zenon DEF Inv

\* The entry the goroutine is at.
LEMMA CurrentEntry ==
    ASSUME Inv, reader.running, reader.i < LeafCountInTwig
    PROVE  LET e == log[CurrentSN + 1].entry
           IN  /\ ValidAt(reader.start) /\ NextPos(reader.start) = PosOf(Data, CurrentSN + 2)
               /\ PosOf(Data, CurrentSN + 2) \in Nat
               /\ e \in Entry /\ Fits(e) /\ e.serialNum = CurrentSN
               /\ IsRaw(ReadEntryRawBytes(reader.start), e)
<1> DEFINE c == CurrentSN
           r == log[c + 1]
           L == LeafCountInTwig
           n == oldest * L
<1>1. /\ DataOK(Data) /\ maxSN \in Nat /\ L \in Nat /\ n \in Nat /\ (oldest + 1) * L = n + L
      /\ reader.i \in Nat /\ c \in Nat /\ c = n + reader.i
  BY ReaderFacts, Zenon
<1>2. (oldest + 1) * L <= maxSN /\ reader.start = PosOf(Data, c + 1)
  BY Zenon DEF Inv, ReaderOK
<1>3. file \in Seq(Cell) /\ \A i \in 1..maxSN : EntryOK(Data, i)
  BY <1>1, DataFields, Zenon DEF DataOK
<1>a. reader.i < L
  OBVIOUS
<1>. HIDE DEF c, n
<1>4. c + 1 \in 1..maxSN /\ c + 1 <= maxSN /\ (c + 1) + 1 = c + 2 /\ (c + 1) - 1 = c /\ c + 2 \in 1..maxSN + 1
  BY ONLY <1>1, <1>2, <1>a
<1>5. /\ Good(r.entry, r.list) /\ r.entry.serialNum = (c + 1) - 1 /\ r.pos \in Nat
      /\ EncodedAt(file, r.pos, r.entry, r.list)
      /\ After(r.pos, r.entry, r.list) = PosOf(Data, (c + 1) + 1)
  BY <1>3, <1>4, DataFields, Zenon DEF EntryOK
<1>6. reader.start = r.pos
  BY <1>2, <1>4, DataFields, Zenon DEF PosOf
<1>. HIDE DEF r
<1>7. ValidAt(r.pos) /\ NumberOfSN(r.pos) = Len(r.list) /\ LengthAt(r.pos) = EntryLength(r.entry)
  BY <1>3, <1>5, HeaderProp, Zenon
<1>8. NextPos(r.pos) = PosOf(Data, c + 2)
  BY <1>4, <1>5, <1>7, Zenon DEF NextPos, After
<1>9. IsRaw(ReadEntryRawBytes(r.pos), r.entry)
  BY <1>3, <1>5, ReadRaw, Zenon
<1>10. PosOf(Data, c + 2) \in Nat
  <2>1. CASE c + 2 \in 1..maxSN
    <3>1. c + 2 <= maxSN
      BY ONLY <1>1, <2>1
    <3>. QED
      BY <1>3, <2>1, <3>1, DataFields, Zenon DEF PosOf, EntryOK
  <2>2. CASE c + 2 \notin 1..maxSN
    <3>1. ~(c + 2 <= maxSN)
      BY ONLY <1>1, <2>2
    <3>. QED
      BY <1>3, <3>1, LenNat, DataFields, Zenon DEF PosOf
  <2>. QED
    BY <2>1, <2>2
<1>. QED
  BY <1>4, <1>5, <1>6, <1>7, <1>8, <1>9, <1>10, Zenon DEF c, r, Good

LEMMA ReaderStepStep ==
    ASSUME Inv, ReaderStep
    PROVE  Inv'
<1> DEFINE c == CurrentSN
           L == LeafCountInTwig
           n == oldest * L
           raw == ReadEntryRawBytes(reader.start)
           sends == c \in active
<1>1. /\ reader.running /\ reader.open /\ reader.i < L /\ ~reader.panicked
      /\ IF ~ValidAt(reader.start)
         THEN reader' = [reader EXCEPT !.panicked = TRUE] /\ UNCHANGED chan
         ELSE IF c \in active
         THEN /\ Len(chan) < ChanCap /\ chan' = Append(chan, raw)
              /\ reader' = [reader EXCEPT !.i = @ + 1, !.start = NextPos(@)]
         ELSE /\ reader' = [reader EXCEPT !.i = @ + 1, !.start = SkipInactive(@)]
              /\ UNCHANGED chan
      /\ UNCHANGED <<file, maxSN, active, deactivedSNList, firstEntryPos, oldest, log, live>>
  BY Zenon DEF ReaderStep
<1>2. /\ DataOK(Data) /\ LiveFor(Data, live) /\ Types /\ maxSN \in Nat /\ L \in Nat /\ n \in Nat
      /\ (oldest + 1) * L = n + L /\ reader.i \in Nat /\ c \in Nat /\ c = n + reader.i
      /\ reader = [running |-> reader.running, open |-> reader.open, i |-> reader.i,
                   start |-> reader.start, panicked |-> reader.panicked]
      /\ chan \in Seq(Seq(Cell)) /\ Len(chan) \in Nat /\ active \subseteq 0..maxSN - 1
  BY ReaderFacts, Zenon
<1>3. /\ ValidAt(reader.start) /\ NextPos(reader.start) = PosOf(Data, c + 2)
      /\ PosOf(Data, c + 2) \in Nat
      /\ log[c + 1].entry \in Entry /\ Fits(log[c + 1].entry) /\ log[c + 1].entry.serialNum = c
      /\ IsRaw(raw, log[c + 1].entry)
  BY <1>1, CurrentEntry, Zenon
<1> DEFINE q == PosOf(Data, c + 2)
<1>4. ExtractSerialNum(raw) = c /\ raw \in Seq(Cell)
  BY <1>3, ExtractProp, Zenon DEF IsRaw
<1>5. ReaderOK /\ ChanOK
  BY DEF Inv
<1>6. reader' = [reader EXCEPT !.i = @ + 1, !.start = q]
  <2>1. \/ reader' = [reader EXCEPT !.i = @ + 1, !.start = NextPos(reader.start)]
        \/ reader' = [reader EXCEPT !.i = @ + 1, !.start = SkipInactive(reader.start)]
    BY <1>1, <1>3
  <2>2. SkipInactive(reader.start) = q /\ NextPos(reader.start) = q
    BY <1>3, Zenon DEF SkipInactive
  <2>. QED
    BY <2>1, <2>2, Zenon
<1>7. /\ reader'.running = reader.running /\ reader'.open = reader.open
      /\ reader'.i = reader.i + 1 /\ reader'.start = q /\ reader'.panicked = reader.panicked
      /\ reader' = [running |-> reader.running, open |-> reader.open, i |-> reader.i + 1,
                    start |-> q, panicked |-> reader.panicked]
  <2> DEFINE a1 == reader.running
             a2 == reader.open
             a3 == reader.i
             a4 == reader.start
             a5 == reader.panicked
             y == [running |-> a1, open |-> a2, i |-> a3, start |-> a4, panicked |-> a5]
  <2>1. reader = y
    BY <1>2, Zenon
  <2>2. reader' = [y EXCEPT !.i = @ + 1, !.start = q]
    BY <1>6, <2>1, Zenon
  <2>. HIDE DEF a1, a2, a3, a4, a5, q
  <2>3. /\ reader'.running = a1 /\ reader'.open = a2
        /\ reader'.i = a3 + 1 /\ reader'.start = q /\ reader'.panicked = a5
        /\ reader' = [running |-> a1, open |-> a2, i |-> a3 + 1, start |-> q, panicked |-> a5]
    BY ONLY <2>2
  <2>. QED
    BY <2>3, Zenon DEF a1, a2, a3, a5
<1>8. Data' = Data
  BY <1>1, SameData, Zenon
<1>9. /\ maxSN' = maxSN /\ active' = active /\ deactivedSNList' = deactivedSNList /\ oldest' = oldest
      /\ log' = log /\ live' = live
  BY <1>1
<1>10. /\ c \in active => Len(chan) < ChanCap /\ chan' = Append(chan, raw)
       /\ c \notin active => chan' = chan
  BY <1>1, <1>3, Zenon
<1>. HIDE DEF raw
<1>11. /\ chan' \in Seq(Seq(Cell)) /\ Len(chan') <= ChanCap
       /\ Len(chan') = IF c \in active THEN Len(chan) + 1 ELSE Len(chan)
       /\ \A j \in 1..Len(chan) : chan'[j] = chan[j]
       /\ c \in active => chan'[Len(chan) + 1] = raw
  <2>0. Len(chan) <= ChanCap /\ ChanCap \in Nat
    BY <1>5, ConstantFacts DEF ChanOK
  <2>1. CASE c \in active
    <3>1. chan' = Append(chan, raw) /\ Len(chan) < ChanCap
      BY <1>10, <2>1, Zenon
    <3>2. /\ chan' \in Seq(Seq(Cell)) /\ Len(chan') = Len(chan) + 1
          /\ \A j \in 1..Len(chan) : chan'[j] = chan[j]
          /\ chan'[Len(chan) + 1] = raw
      BY <1>2, <1>4, <3>1, AppendProperties
    <3>3. Len(chan') <= ChanCap
      BY ONLY <1>2, <2>0, <3>1, <3>2
    <3>. QED
      BY <2>1, <3>2, <3>3, Zenon
  <2>2. CASE c \notin active
    BY <1>2, <1>10, <2>0, <2>2, Zenon
  <2>. QED
    BY <2>1, <2>2
<1>12. CurrentSN' = c + 1
  <2>1. CurrentSN' = n + (reader.i + 1)
    BY <1>7, <1>9, Zenon DEF CurrentSN
  <2>. HIDE DEF c, n
  <2>. QED
    BY ONLY <1>2, <2>1
<1>13. Types'
  <2>1. reader \in [running : BOOLEAN, open : BOOLEAN, i : Nat, start : Nat, panicked : BOOLEAN]
    BY <1>2, Zenon DEF Types
  <2>2. reader' \in [running : BOOLEAN, open : BOOLEAN, i : Nat, start : Nat, panicked : BOOLEAN]
    <3>1. q \in Nat
      BY <1>3
    <3>. HIDE DEF q
    <3>. QED
      BY ONLY <1>7, <2>1, <3>1
  <2>. QED
    BY <1>2, <1>9, <1>11, <2>2, Zenon DEF Types
<1>14. ReaderOK'
  <2>1. /\ oldest * L <= maxSN /\ \A sn \in active : oldest * L <= sn
        /\ (oldest + 1) * L <= maxSN
        /\ maxSN + Cardinality(InTwig) + (IF deactivedSNList = <<>> THEN 0 ELSE 1) <= MaxSN
    BY <1>1, <1>5, Zenon DEF ReaderOK
  <2>2. InTwig' = InTwig
    BY <1>9, Zenon DEF InTwig
  <2>3. reader.i + 1 \in 0..L /\ (c + 1) + 1 = c + 2
    BY ONLY <1>1, <1>2
  <2>4. /\ ~reader'.panicked /\ oldest' * L <= maxSN' /\ \A sn \in active' : oldest' * L <= sn
        /\ reader'.i \in 0..L /\ reader'.open /\ (oldest' + 1) * L <= maxSN'
        /\ reader'.start = PosOf(Data', CurrentSN' + 1) /\ reader'.running
    BY <1>1, <1>7, <1>8, <1>9, <1>12, <2>1, <2>3, Zenon
  <2>5. maxSN' + Cardinality(InTwig') + (IF deactivedSNList' = <<>> THEN 0 ELSE 1) <= MaxSN
    BY <1>9, <2>1, <2>2, Zenon
  <2>. QED
    BY <2>4, <2>5, Zenon DEF ReaderOK
<1>15. ChanOK'
  <2> DEFINE N == Len(chan)
             SN(j) == ExtractSerialNum(chan[j])
             SNx(j) == ExtractSerialNum(chan'[j])
  <2>1. /\ \A j \in 1..N : SN(j) \in active /\ SN(j) < c /\ IsRaw(chan[j], log[SN(j) + 1].entry)
        /\ \A j, k \in 1..N : j # k => SN(j) # SN(k)
        /\ \A sn \in active : sn < c => \E j \in 1..N : SN(j) = sn
    BY <1>1, <1>5, Zenon DEF ChanOK
  <2>2. \A j \in 1..N : SNx(j) = SN(j) /\ chan'[j] = chan[j]
    BY <1>11, Zenon
  <2>3. c \in active => SNx(N + 1) = c /\ chan'[N + 1] = raw
    BY <1>4, <1>11, Zenon
  <2>4. \A j \in 1..Len(chan') : j \in 1..N \/ (j = N + 1 /\ c \in active)
    <3>1. Len(chan') = IF c \in active THEN N + 1 ELSE N
      BY <1>11, Zenon
    <3>2. N \in Nat
      BY <1>2
    <3>. HIDE DEF N, c
    <3>. QED
      BY ONLY <3>1, <3>2
  <2>5. /\ \A j \in 1..N : j \in 1..Len(chan')
        /\ c \in active => N + 1 \in 1..Len(chan')
    <3>1. Len(chan') = IF c \in active THEN N + 1 ELSE N
      BY <1>11, Zenon
    <3>2. N \in Nat
      BY <1>2
    <3>. HIDE DEF N, c
    <3>. QED
      BY ONLY <3>1, <3>2
  <2>. HIDE DEF SN, SNx, N
  <2>6. \A sn \in active : sn \in Nat
    BY <1>2
  <2>7. ASSUME NEW j \in 1..Len(chan')
        PROVE  SNx(j) \in active /\ SNx(j) < c + 1 /\ IsRaw(chan'[j], log[SNx(j) + 1].entry)
    <3>1. CASE j \in 1..N
      <4>1. SNx(j) = SN(j) /\ chan'[j] = chan[j] /\ SN(j) \in active /\ SN(j) < c /\ SN(j) \in Nat
        BY <2>1, <2>2, <2>6, <3>1, Zenon
      <4>2. SN(j) < c + 1
        BY ONLY <1>2, <4>1
      <4>. QED
        BY <2>1, <3>1, <4>1, <4>2, Zenon
    <3>2. CASE j = N + 1 /\ c \in active
      <4>1. c < c + 1
        BY <1>2
      <4>. QED
        BY <1>3, <2>3, <3>2, <4>1, Zenon
    <3>. QED
      BY <2>4, <3>1, <3>2, Zenon
  <2>8. ASSUME NEW j \in 1..Len(chan'), NEW k \in 1..Len(chan'), j # k PROVE SNx(j) # SNx(k)
    <3>0. \A i \in 1..N : SNx(i) # c
      <4>. SUFFICES ASSUME NEW i \in 1..N, SNx(i) = c PROVE FALSE
        OBVIOUS
      <4>1. c < c
        BY <2>1, <2>2, Zenon
      <4>. QED
        BY <1>2, <4>1
    <3>1. CASE j \in 1..N /\ k \in 1..N
      BY <2>1, <2>2, <2>8, <3>1, Zenon
    <3>2. CASE j \in 1..N /\ k = N + 1 /\ c \in active
      BY <2>3, <3>0, <3>2, Zenon
    <3>3. CASE k \in 1..N /\ j = N + 1 /\ c \in active
      BY <2>3, <3>0, <3>3, Zenon
    <3>. QED
      BY <2>4, <2>8, <3>1, <3>2, <3>3, Zenon
  <2>9. ASSUME NEW sn \in active, sn < c + 1 PROVE \E j \in 1..Len(chan') : SNx(j) = sn
    <3>1. sn < c \/ sn = c
      BY <1>2, <2>6, <2>9
    <3>2. CASE sn < c
      <4>1. PICK j \in 1..N : SN(j) = sn
        BY <2>1, <3>2, Zenon
      <4>. QED
        BY <2>2, <2>5, <4>1, Zenon
    <3>3. CASE sn = c
      BY <2>3, <2>5, <3>3, Zenon
    <3>. QED
      BY <3>1, <3>2, <3>3
  <2>10. /\ \A j \in 1..Len(chan') : SNx(j) \in active' /\ SNx(j) < CurrentSN' /\ IsRaw(chan'[j], log'[SNx(j) + 1].entry)
         /\ \A sn \in active' : sn < CurrentSN' => \E j \in 1..Len(chan') : SNx(j) = sn
    BY <1>9, <1>12, <2>7, <2>9, Zenon
  <2>. QED
    BY <1>11, <2>8, <2>10, Zenon DEF ChanOK, SNx
<1>16. DataOK(Data') /\ LiveFor(Data', live')
  BY <1>2, <1>8, <1>9, Zenon
<1>. QED
  BY <1>13, <1>14, <1>15, <1>16, Zenon DEF Inv

LEMMA CloseChanStep ==
    ASSUME Inv, CloseChan
    PROVE  Inv'
<1>1. /\ reader.running /\ reader.open /\ reader.i = LeafCountInTwig
      /\ reader' = [reader EXCEPT !.open = FALSE]
      /\ UNCHANGED <<file, maxSN, active, deactivedSNList, firstEntryPos, oldest, chan, log, live>>
  BY Zenon DEF CloseChan
<1>2. /\ DataOK(Data) /\ LiveFor(Data, live) /\ Types
      /\ reader = [running |-> reader.running, open |-> reader.open, i |-> reader.i,
                   start |-> reader.start, panicked |-> reader.panicked]
  BY ReaderFacts, Zenon
<1>3. ReaderOK /\ ChanOK
  BY DEF Inv
<1>4. Data' = Data
  BY <1>1, SameData, Zenon
<1>5. /\ maxSN' = maxSN /\ active' = active /\ deactivedSNList' = deactivedSNList /\ oldest' = oldest
      /\ log' = log /\ live' = live /\ chan' = chan
  BY <1>1
<1>6. reader \in [running : BOOLEAN, open : BOOLEAN, i : Nat, start : Nat, panicked : BOOLEAN]
  BY <1>2, Zenon DEF Types
<1>7. /\ reader'.running = reader.running /\ ~reader'.open /\ reader'.i = reader.i
      /\ reader'.start = reader.start /\ reader'.panicked = reader.panicked
      /\ reader' \in [running : BOOLEAN, open : BOOLEAN, i : Nat, start : Nat, panicked : BOOLEAN]
  BY ONLY <1>1, <1>6
<1>8. CurrentSN' = CurrentSN /\ InTwig' = InTwig
  BY <1>5, <1>7, Zenon DEF CurrentSN, InTwig
<1>9. Types'
  BY <1>2, <1>5, <1>7, Zenon DEF Types
<1>10. ReaderOK'
  BY <1>1, <1>3, <1>4, <1>5, <1>7, <1>8, Zenon DEF ReaderOK
<1>11. ChanOK'
  BY <1>3, <1>5, <1>7, <1>8, Zenon DEF ChanOK
<1>. QED
  BY <1>2, <1>4, <1>5, <1>9, <1>10, <1>11, Zenon DEF Inv

LEMMA EvictStep ==
    ASSUME Inv, EvictTwig
    PROVE  Inv'
<1> DEFINE L == LeafCountInTwig
           n == oldest * L
<1>1. /\ reader.running /\ ~reader.open /\ chan = <<>>
      /\ active' = active \ (n..(oldest + 1) * L - 1)
      /\ oldest' = oldest + 1 /\ reader' = NoReader
      /\ UNCHANGED <<file, maxSN, deactivedSNList, firstEntryPos, chan, log, live>>
  BY Zenon DEF EvictTwig
<1>2. /\ DataOK(Data) /\ LiveFor(Data, live) /\ Types /\ maxSN \in Nat /\ L \in Nat /\ n \in Nat
      /\ (oldest + 1) * L = n + L /\ CurrentSN = n + reader.i /\ active \subseteq 0..maxSN - 1
  BY ReaderFacts, Zenon
<1>3. /\ reader.i = L /\ (oldest + 1) * L <= maxSN
      /\ \A sn \in active : sn < CurrentSN => \E j \in 1..Len(chan) : ExtractSerialNum(chan[j]) = sn
  BY <1>1, Zenon DEF Inv, ReaderOK, ChanOK
<1>4. 1..Len(chan) = {} /\ Len(chan) <= ChanCap
  BY <1>1, ConstantFacts
<1>5. \A sn \in active : ~(sn < n + L)
  BY <1>2, <1>3, <1>4, Zenon
<1>. HIDE DEF n
<1>6. \A sn \in active : (oldest + 1) * L <= sn /\ sn \notin n..(oldest + 1) * L - 1
  BY <1>2, <1>5
<1>7. active' = active
  BY <1>1, <1>6, Zenon
<1>8. Data' = Data
  BY <1>1, <1>7, SameData, Zenon
<1>9. /\ maxSN' = maxSN /\ deactivedSNList' = deactivedSNList /\ oldest' = oldest + 1
      /\ log' = log /\ live' = live /\ chan' = <<>> /\ chan' = chan
  BY <1>1
<1>10. /\ ~reader'.running /\ ~reader'.panicked
       /\ reader' \in [running : BOOLEAN, open : BOOLEAN, i : Nat, start : Nat, panicked : BOOLEAN]
  BY <1>1 DEF NoReader
<1>11. oldest + 1 \in Nat
  BY <1>2 DEF Types
<1>12. Types'
  BY <1>2, <1>9, <1>10, <1>11, Zenon DEF Types
<1>13. ReaderOK'
  BY <1>3, <1>6, <1>7, <1>9, <1>10, Zenon DEF ReaderOK
<1>14. ChanOK'
  BY <1>4, <1>9, <1>10, Zenon DEF ChanOK
<1>. QED
  BY <1>2, <1>8, <1>9, <1>12, <1>13, <1>14, Zenon DEF Inv

LEMMA StutterStep ==
    ASSUME Inv, UNCHANGED vars
    PROVE  Inv'
<1>1. /\ Data' = Data /\ maxSN' = maxSN /\ active' = active /\ deactivedSNList' = deactivedSNList
      /\ oldest' = oldest /\ log' = log /\ live' = live /\ chan' = chan /\ reader' = reader
  BY DEF vars, Data
<1>2. CurrentSN' = CurrentSN /\ InTwig' = InTwig
  BY <1>1, Zenon DEF CurrentSN, InTwig
<1>3. Types' /\ ReaderOK'
  BY <1>1, <1>2, Zenon DEF Inv, Types, ReaderOK
<1>4. ChanOK'
  BY <1>1, <1>2, Zenon DEF Inv, ChanOK
<1>. QED
  BY <1>1, <1>3, <1>4, Zenon DEF Inv

\* What the loop over the channel takes is the entry of an active number, for which there
\* is room at the end of the file.
LEMMA HeadFacts ==
    ASSUME Inv, reader.running, chan # <<>>
    PROVE  LET sn == ExtractSerialNum(chan[1])
               e == log[sn + 1].entry
           IN  /\ Head(chan) = chan[1] /\ 1 \in 1..Len(chan)
               /\ sn \in active /\ sn \in InTwig /\ sn < CurrentSN
               /\ e \in Entry /\ Fits(e) /\ BodyOf(e) \in Bodies \cup {DummyBody}
               /\ IsRaw(chan[1], e)
               /\ IsFiniteSet(InTwig) /\ Cardinality(InTwig) \in Nat /\ Cardinality(InTwig) >= 1
               /\ maxSN < MaxSN /\ CurrentSN <= (oldest + 1) * LeafCountInTwig
<1> DEFINE sn == ExtractSerialNum(chan[1])
           r == log[sn + 1]
           e == r.entry
           L == LeafCountInTwig
           n == oldest * L
           c == CurrentSN
<1>1. /\ DataOK(Data) /\ maxSN \in Nat /\ MaxSN \in Nat /\ L \in Nat /\ n \in Nat
      /\ (oldest + 1) * L = n + L /\ reader.i \in Nat /\ c \in Nat /\ c = n + reader.i
      /\ active \subseteq 0..maxSN - 1 /\ chan \in Seq(Seq(Cell)) /\ Len(chan) \in Nat
  BY ReaderFacts, Zenon
<1>2. ReaderOK /\ ChanOK
  BY DEF Inv
<1>3. Head(chan) = chan[1] /\ 1 \in 1..Len(chan)
  BY <1>1, EmptySeq
<1>4. sn \in active /\ sn < c /\ IsRaw(chan[1], e)
  BY <1>2, <1>3, Zenon DEF ChanOK
<1>5. /\ reader.i \in 0..L
      /\ maxSN + Cardinality(InTwig) + (IF deactivedSNList = <<>> THEN 0 ELSE 1) <= MaxSN
  BY <1>2, Zenon DEF ReaderOK
<1>. HIDE DEF sn, n, c
<1>6. c <= n + L /\ sn < n + L /\ sn \in Nat /\ sn + 1 \in 1..maxSN
  BY <1>1, <1>4, <1>5
<1>7. sn \in InTwig
  BY <1>1, <1>4, <1>6, Zenon DEF InTwig
<1>8. IsFiniteSet(InTwig) /\ Cardinality(InTwig) \in Nat
  <2>1. InTwig \subseteq Data.active
    BY DataFields, Zenon DEF InTwig
  <2>. QED
    BY <1>1, <2>1, ActiveFinite, Zenon
<1>9. Cardinality(InTwig) # 0
  BY <1>7, <1>8, FS_EmptySet, Zenon
<1> DEFINE card == Cardinality(InTwig)
<1>10. card >= 1 /\ maxSN < MaxSN
  <2>1. card \in Nat /\ card # 0 /\ maxSN + card + (IF deactivedSNList = <<>> THEN 0 ELSE 1) <= MaxSN
    BY <1>5, <1>8, <1>9, Zenon
  <2>. HIDE DEF card
  <2>. QED
    BY ONLY <1>1, <2>1
<1>11. Good(e, r.list) /\ BodyOf(e) \in Bodies \cup {DummyBody}
  <2>1. EntryOK(Data, sn + 1)
    BY <1>1, <1>6, DataFields, Zenon DEF DataOK
  <2>. QED
    BY <2>1, DataFields, Zenon DEF EntryOK
<1>12. e \in Entry /\ Fits(e)
  BY <1>11, Zenon DEF Good
<1>13. c <= (oldest + 1) * L
  BY <1>1, <1>6, Zenon
<1>. QED
  BY <1>3, <1>4, <1>7, <1>8, <1>10, <1>11, <1>12, <1>13, Zenon DEF sn, c

\* The data after the entry with the number sn was moved to the end: the oldest twig holds one
\* active entry less, and the counts are as before.
LEMMA MovedData ==
    ASSUME Inv, MoveEntry
    PROVE  LET sn == ExtractSerialNum(chan[1])
           IN  /\ DataOK(Data') /\ Continues(Data, Data') /\ LiveFor(Data', live)
               /\ deactivedSNList' = <<>> /\ maxSN <= maxSN'
               /\ \E m \in Nat : maxSN <= m /\ active' = (active \ {sn}) \cup {m}
               /\ \A k \in Nat : maxSN + k + (IF deactivedSNList = <<>> THEN 0 ELSE 1) <= MaxSN
                                    => maxSN' + (k - 1) <= MaxSN
<1> DEFINE raw == chan[1]
           sn == ExtractSerialNum(raw)
           e == log[sn + 1].entry
           b == BodyOf(e)
           x == DeactiviateEntry(Data, sn)
           y == AppendEntryRawBytes(x, UpdateSerialNum(raw, x.maxSN), b)
           v == [live EXCEPT ![b] = @ - 1]
           w == IF deactivedSNList = <<>> THEN 0 ELSE 1
           card == Cardinality(InTwig)
<1>1. reader.running /\ chan # <<>>
  BY Zenon DEF MoveEntry
<1>2. /\ Head(chan) = raw /\ sn \in active /\ e \in Entry /\ Fits(e)
      /\ b \in Bodies \cup {DummyBody} /\ IsRaw(raw, e) /\ maxSN < MaxSN
      /\ card \in Nat /\ card >= 1
  BY <1>1, HeadFacts, Zenon
<1>3. Becomes(y)
  BY <1>2, Zenon DEF MoveEntry
<1>4. maxSN \in Nat /\ MaxSN \in Nat /\ LiveFor(Data, live) /\ DataOK(Data)
  BY ReaderFacts, Zenon
<1>5. maxSN + card + w <= MaxSN
  BY <1>1, Zenon DEF Inv, ReaderOK
<1>a. x = DeactiviateEntry(Data, sn)
  OBVIOUS
<1>. HIDE DEF x
<1>6. /\ DataOK(x) /\ Continues(Data, x) /\ x.active = active \ {sn}
      /\ x.maxSN = maxSN \/ (x.maxSN = maxSN + 1 /\ deactivedSNList # <<>>)
      /\ b \in Bodies /\ LiveFor(x, v)
  BY <1>2, <1>a, DeactivateVars, Zenon
<1>7. x.maxSN \in Nat /\ maxSN <= x.maxSN /\ x.maxSN <= maxSN + w /\ x.maxSN < MaxSN
  <2>1. x.maxSN = maxSN \/ (x.maxSN = maxSN + 1 /\ w = 1)
    BY <1>6
  <2>2. w = 0 \/ w = 1
    OBVIOUS
  <2>. HIDE DEF w, card
  <2>. QED
    BY ONLY <1>2, <1>4, <1>5, <2>1, <2>2
<1>8. Grown(x, y, WithSN(b, x.maxSN))
  <2>. HIDE DEF raw, e
  <2>. QED
    BY <1>2, <1>6, <1>7, MoveData, Zenon DEF y, b
<1>. HIDE DEF y
<1>9. /\ DataOK(y) /\ Continues(x, y) /\ y.maxSN = x.maxSN + 1
      /\ y.active = x.active \cup {x.maxSN} /\ y.list = <<>>
      /\ y.log[x.maxSN + 1].entry = WithSN(b, x.maxSN)
  BY <1>8, Zenon DEF Grown
<1>10. Data' = y /\ maxSN' = y.maxSN /\ active' = y.active /\ deactivedSNList' = <<>>
  <2>1. IsData(y)
    BY <1>9, Zenon DEF DataOK
  <2>. QED
    BY <1>3, <1>9, <2>1, NewData, Zenon
<1>11. maxSN <= maxSN' /\ maxSN' = x.maxSN + 1 /\ maxSN' \in Nat
  BY <1>4, <1>7, <1>9, <1>10
<1>12. Continues(Data, y)
  <2>1. Data.maxSN \in Nat /\ y.maxSN \in Nat
    BY <1>4, <1>10, <1>11, DataFields, Zenon
  <2>. QED
    BY <1>6, <1>7, <1>9, <2>1, ContinuesTrans, Zenon
<1>13. LiveFor(y, [v EXCEPT ![b] = @ + 1])
  <2>1. BodyOf(WithSN(b, x.maxSN)) = b
    BY Zenon DEF BodyOf, WithSN, b
  <2>2. BodyOf(y.log[x.maxSN + 1].entry) = b
    BY <1>9, <2>1, Zenon
  <2>. HIDE DEF v, b
  <2>. QED
    BY <1>6, <1>9, <2>2, LiveAdded, Zenon
<1>14. [v EXCEPT ![b] = @ + 1] = live
  <2>1. live \in [Bodies -> Nat] /\ b \in Bodies
    BY <1>4, <1>6, Zenon DEF LiveFor
  <2> DEFINE u == [v EXCEPT ![b] = @ + 1]
  <2>. HIDE DEF b
  <2>2. v = [k \in Bodies |-> IF k = b THEN live[k] - 1 ELSE live[k]]
    BY ONLY <2>1
  <2>. HIDE DEF v
  <2>3. u = [k \in Bodies |-> IF k = b THEN v[k] + 1 ELSE v[k]]
    BY ONLY <2>1, <2>2
  <2>. HIDE DEF u
  <2>4. \A k \in Bodies : u[k] = live[k]
    BY ONLY <2>1, <2>2, <2>3
  <2>5. live = [k \in Bodies |-> live[k]] /\ u = [k \in Bodies |-> u[k]]
    BY ONLY <2>1, <2>3
  <2>6. u = live
    BY ONLY <2>4, <2>5
  <2>. QED
    BY <2>6 DEF u
<1>15. \A k \in Nat : maxSN + k + w <= MaxSN => maxSN' + (k - 1) <= MaxSN
  <2>1. w \in Nat
    OBVIOUS
  <2>. HIDE DEF w
  <2>. QED
    BY ONLY <1>4, <1>7, <1>11, <2>1
<1>16. active' = (active \ {sn}) \cup {x.maxSN}
  BY <1>6, <1>9, <1>10, Zenon
<1>17. LiveFor(y, live)
  BY <1>13, <1>14
<1>. QED
  <2>. HIDE DEF w, sn
  <2>1. \E m \in Nat : maxSN <= m /\ active' = (active \ {sn}) \cup {m}
    BY <1>7, <1>16, Zenon
  <2>. QED
    BY <1>9, <1>10, <1>11, <1>12, <1>15, <1>17, <2>1, Zenon DEF w, sn

LEMMA MoveStep ==
    ASSUME Inv, MoveEntry
    PROVE  Inv'
<1> DEFINE sn == ExtractSerialNum(chan[1])
           w == IF deactivedSNList = <<>> THEN 0 ELSE 1
           L == LeafCountInTwig
           n == oldest * L
           c == CurrentSN
           N == Len(chan)
<1>1. reader.running /\ chan # <<>> /\ chan' = Tail(chan) /\ oldest' = oldest /\ reader' = reader
      /\ live' = live
  BY Zenon DEF MoveEntry
<1>2. /\ DataOK(Data') /\ Continues(Data, Data') /\ LiveFor(Data', live)
      /\ deactivedSNList' = <<>> /\ maxSN <= maxSN'
      /\ \E m \in Nat : maxSN <= m /\ active' = (active \ {sn}) \cup {m}
      /\ \A k \in Nat : maxSN + k + w <= MaxSN => maxSN' + (k - 1) <= MaxSN
  BY MovedData, Zenon
<1>3. PICK m \in Nat : maxSN <= m /\ active' = (active \ {sn}) \cup {m}
  BY <1>2, Zenon
<1>4. /\ 1 \in 1..N /\ sn \in active /\ sn \in InTwig /\ sn < c
      /\ IsFiniteSet(InTwig) /\ Cardinality(InTwig) \in Nat /\ c <= (oldest + 1) * L
  BY <1>1, HeadFacts, Zenon
<1>5. /\ Types /\ DataOK(Data) /\ maxSN \in Nat /\ MaxSN \in Nat /\ L \in Nat /\ n \in Nat
      /\ (oldest + 1) * L = n + L /\ c \in Nat
      /\ active \subseteq 0..maxSN - 1 /\ chan \in Seq(Seq(Cell)) /\ N \in Nat
  BY ReaderFacts, Zenon
<1>6. ReaderOK /\ ChanOK
  BY DEF Inv
<1>7. /\ ~reader.panicked /\ n <= maxSN /\ \A k \in active : n <= k
      /\ reader.i \in 0..L /\ (~reader.open => reader.i = L)
      /\ n + L <= maxSN /\ reader.start = PosOf(Data, c + 1)
      /\ maxSN + Cardinality(InTwig) + w <= MaxSN
  BY <1>1, <1>5, <1>6, Zenon DEF ReaderOK
<1>8. CurrentSN' = c
  BY <1>1, Zenon DEF CurrentSN
<1>9. maxSN' \in Nat
  <2>1. Data'.maxSN = maxSN'
    BY DEF Data
  <2>. QED
    BY <1>2, <2>1, ConstantFacts DEF DataOK
<1>. HIDE DEF sn, w, n, c, N
<1>10. chan' \in Seq(Seq(Cell)) /\ Len(chan') = N - 1 /\ \A j \in 1..N - 1 : chan'[j] = chan[j + 1]
  <2>1. chan' = Tail(chan) /\ chan # <<>> /\ chan \in Seq(Seq(Cell))
    BY <1>1, <1>5
  <2>. QED
    BY ONLY <2>1, HeadTailProperties DEF N
<1>11. Types'
  <2>1. Len(deactivedSNList') <= DeactivedSNListMaxLen
    BY <1>2, ConstantFacts
  <2>. QED
    BY <1>1, <1>5, <1>10, <2>1, Zenon DEF Types
<1>12. InTwig' = InTwig \ {sn}
  <2>1. ~(m < n + L)
    BY <1>3, <1>5, <1>7
  <2>2. InTwig' = {k \in active' : k < n + L}
    BY <1>1, <1>5, Zenon DEF InTwig
  <2>3. InTwig = {k \in active : k < n + L}
    BY <1>5, Zenon DEF InTwig
  <2>. QED
    BY <1>3, <2>1, <2>2, <2>3, Zenon
<1>13. Cardinality(InTwig') = Cardinality(InTwig) - 1
  BY <1>4, <1>12, FS_RemoveElement
<1>14. maxSN' + Cardinality(InTwig') + (IF deactivedSNList' = <<>> THEN 0 ELSE 1) <= MaxSN
  <2> DEFINE card == Cardinality(InTwig)
  <2>1. maxSN' + (card - 1) <= MaxSN /\ card \in Nat /\ Cardinality(InTwig') = card - 1
    BY <1>2, <1>4, <1>7, <1>13, Zenon
  <2>2. (IF deactivedSNList' = <<>> THEN 0 ELSE 1) = 0
    BY <1>2
  <2>3. /\ maxSN' + (card - 1) <= MaxSN /\ card \in Nat /\ maxSN' \in Nat /\ MaxSN \in Nat
    BY <1>5, <1>9, <2>1, Zenon
  <2>4. maxSN' + (card - 1) + 0 <= MaxSN
    <3>1. \A i, j, k \in Nat : i + (j - 1) <= k => i + (j - 1) + 0 <= k
      OBVIOUS
    <3>. QED
      BY <2>3, <3>1, Zenon
  <2>. QED
    BY <2>1, <2>2, <2>4, Zenon
<1>15. PosOf(Data', c + 1) = PosOf(Data, c + 1)
  <2>1. c + 1 \in 1..(maxSN + 1)
    BY <1>4, <1>5, <1>7
  <2>. QED
    BY <1>2, <2>1, DataFields, Zenon DEF Continues
<1>16. ReaderOK'
  <2>1. n <= maxSN' /\ n + L <= maxSN'
    BY ONLY <1>2, <1>5, <1>7, <1>9
  <2>2. n <= m
    BY ONLY <1>3, <1>5, <1>7
  <2>3. \A k \in active' : n <= k
    BY <1>3, <1>7, <2>2, Zenon
  <2>4. oldest' * L = n /\ (oldest' + 1) * L = n + L
    BY <1>1, <1>5, Zenon DEF n
  <2>. QED
    BY <1>1, <1>7, <1>8, <1>14, <1>15, <2>1, <2>3, <2>4, Zenon DEF ReaderOK
<1>17. ChanOK'
  <2> DEFINE SN(j) == ExtractSerialNum(chan[j])
             SNx(j) == ExtractSerialNum(chan'[j])
  <2>1. /\ \A j \in 1..N : SN(j) \in active /\ SN(j) < c /\ IsRaw(chan[j], log[SN(j) + 1].entry)
        /\ \A j, k \in 1..N : j # k => SN(j) # SN(k)
        /\ \A k \in active : k < c => \E j \in 1..N : SN(j) = k
        /\ N <= ChanCap
    BY <1>1, <1>6, Zenon DEF ChanOK, N, c
  <2>2. SN(1) = sn
    BY DEF sn
  <2>3. \A j \in 1..N - 1 : SNx(j) = SN(j + 1) /\ chan'[j] = chan[j + 1]
    BY <1>10, Zenon
  <2>. HIDE DEF SN, SNx
  <2>4. \A j \in 1..N - 1 : j + 1 \in 1..N /\ j + 1 # 1
    BY ONLY <1>5
  <2>5. \A j \in 1..N : j # 1 => j - 1 \in 1..N - 1 /\ (j - 1) + 1 = j
    BY ONLY <1>5
  <2>6. \A k \in active : k + 1 \in 1..maxSN
    BY <1>5
  <2>7. \A k \in active : log'[k + 1] = log[k + 1]
    <3>1. Data'.log = log'
      BY DEF Data
    <3>. QED
      BY <1>2, <2>6, <3>1, DataFields, Zenon DEF Continues
  <2>8. \A j \in 1..N - 1 : SNx(j) \in active' /\ SNx(j) < c /\ IsRaw(chan'[j], log'[SNx(j) + 1].entry)
    <3>. SUFFICES ASSUME NEW j \in 1..N - 1
                  PROVE  SNx(j) \in active' /\ SNx(j) < c /\ IsRaw(chan'[j], log'[SNx(j) + 1].entry)
      OBVIOUS
    <3> DEFINE k == SN(j + 1)
    <3>1. SNx(j) = k /\ chan'[j] = chan[j + 1] /\ j + 1 \in 1..N /\ j + 1 # 1
      BY <2>3, <2>4, Zenon
    <3>2. k \in active /\ k < c /\ IsRaw(chan[j + 1], log[k + 1].entry) /\ k # sn
      BY <1>4, <2>1, <2>2, <3>1, Zenon
    <3>. QED
      BY <1>3, <2>7, <3>1, <3>2, Zenon
  <2>9. \A j, k \in 1..N - 1 : j # k => SNx(j) # SNx(k)
    <3>. SUFFICES ASSUME NEW j \in 1..N - 1, NEW k \in 1..N - 1, j # k PROVE SNx(j) # SNx(k)
      BY Zenon
    <3>1. j + 1 # k + 1
      BY <1>5
    <3>2. j + 1 \in 1..N /\ k + 1 \in 1..N /\ SNx(j) = SN(j + 1) /\ SNx(k) = SN(k + 1)
      BY <2>3, <2>4, Zenon
    <3>. QED
      BY <2>1, <3>1, <3>2, Zenon
  <2>10. ASSUME NEW k \in active', k < c PROVE \E j \in 1..N - 1 : SNx(j) = k
    <3>1. ~(m < c)
      BY <1>3, <1>4, <1>5, <1>7
    <3>2. k \in active /\ k # sn
      BY <1>3, <2>10, <3>1, Zenon
    <3>3. PICK j \in 1..N : SN(j) = k
      BY <2>1, <2>10, <3>2, Zenon
    <3>4. j - 1 \in 1..N - 1 /\ (j - 1) + 1 = j
      BY <2>2, <2>5, <3>2, <3>3, Zenon
    <3>5. SNx(j - 1) = k
      BY <2>3, <3>3, <3>4, Zenon
    <3>. QED
      BY <3>4, <3>5, Zenon
  <2>11. Len(chan') <= ChanCap
    BY <1>5, <1>10, <2>1, ConstantFacts
  <2>. QED
    BY <1>8, <1>10, <2>8, <2>9, <2>10, <2>11, Zenon DEF ChanOK, SNx
<1>. QED
  BY <1>1, <1>2, <1>11, <1>16, <1>17, Zenon DEF Inv

LEMMA NextStep ==
    ASSUME Inv, [Next]_vars
    PROVE  Inv'
<1>1. ASSUME NEW body \in Bodies, Insert(body) PROVE Inv'
  BY <1>1, InsertStep
<1>2. ASSUME NEW sn \in active, Delete(sn) PROVE Inv'
  BY <1>2, DeleteStep
<1>3. ASSUME NEW sn \in active, NEW body \in Bodies, Change(sn, body) PROVE Inv'
  BY <1>3, ChangeStep
<1>4. CASE GetActiveEntriesInTwig
  BY <1>4, StartStep
<1>5. CASE ReaderStep
  BY <1>5, ReaderStepStep
<1>6. CASE CloseChan
  BY <1>6, CloseChanStep
<1>7. CASE MoveEntry
  BY <1>7, MoveStep
<1>8. CASE EvictTwig
  BY <1>8, EvictStep
<1>9. CASE UNCHANGED vars
  BY <1>9, StutterStep
<1>. QED
  BY <1>1, <1>2, <1>3, <1>4, <1>5, <1>6, <1>7, <1>8, <1>9, Zenon DEF Next

\* Inv holds in every state the entry file and the data tree above it can be in, whatever the
\* clients write and however the goroutine and the loop of compaction take turns.
THEOREM Invariance == Spec => []Inv
<1>1. Init => Inv
  BY InitStep
<1>2. Inv /\ [Next]_vars => Inv'
  BY NextStep
<1>. QED
  BY <1>1, <1>2, PTL DEF Spec

-----------------------------------------------------------------------------
(* The properties *)

LEMMA EntryFacts ==
    ASSUME Inv, NEW i \in 1..Len(log)
    PROVE  LET r == log[i]
           IN  /\ Len(log) = maxSN /\ i \in 1..maxSN /\ file \in Seq(Cell) /\ Good(r.entry, r.list)
               /\ r.pos \in Nat /\ EncodedAt(file, r.pos, r.entry, r.list)
               /\ r.entry.serialNum = i - 1
               /\ After(r.pos, r.entry, r.list) = PosOf(Data, i + 1)
               /\ ReadEntryAndSNList(r.pos) = [entry |-> r.entry, list |-> r.list]
               /\ ReadEntry(r.pos) = r.entry
<1> DEFINE r == log[i]
<1>1. DataOK(Data)
  BY ReaderFacts, Zenon
<1>2. /\ Len(log) = maxSN /\ file \in Seq(Cell) /\ \A n \in 1..maxSN : EntryOK(Data, n)
  BY <1>1, DataFields, Zenon DEF DataOK
<1>3. i \in 1..maxSN
  BY <1>2
<1>4. /\ Good(r.entry, r.list) /\ r.pos \in Nat /\ EncodedAt(file, r.pos, r.entry, r.list)
      /\ r.entry.serialNum = i - 1 /\ After(r.pos, r.entry, r.list) = PosOf(Data, i + 1)
  BY <1>2, <1>3, DataFields, Zenon DEF EntryOK
<1>. HIDE DEF r
<1>5. ReadEntryAndSNList(r.pos) = [entry |-> r.entry, list |-> r.list] /\ ReadEntry(r.pos) = r.entry
  BY <1>2, <1>4, ReadProp, Zenon
<1>. QED
  BY <1>2, <1>3, <1>4, <1>5, Zenon DEF r

LEMMA InvReadsBack == Inv => ReadsBack
<1>. SUFFICES ASSUME Inv, NEW i \in 1..Len(log)
              PROVE  LET r == log[i]
                         raw == ReadEntryRawBytes(r.pos)
                     IN  /\ ReadEntryAndSNList(r.pos) = [entry |-> r.entry, list |-> r.list]
                         /\ ReadEntry(r.pos) = r.entry
                         /\ ExtractKeyFromRawBytes(raw) = r.entry.key
                         /\ ExtractSerialNum(raw) = i - 1
  BY Zenon DEF ReadsBack
<1> DEFINE r == log[i]
           raw == ReadEntryRawBytes(r.pos)
<1>1. /\ file \in Seq(Cell) /\ Good(r.entry, r.list) /\ r.pos \in Nat
      /\ EncodedAt(file, r.pos, r.entry, r.list) /\ r.entry.serialNum = i - 1
      /\ ReadEntryAndSNList(r.pos) = [entry |-> r.entry, list |-> r.list]
      /\ ReadEntry(r.pos) = r.entry
  BY EntryFacts, Zenon
<1>. HIDE DEF r
<1>2. IsRaw(raw, r.entry)
  BY <1>1, ReadRaw, Zenon
<1>3. r.entry \in Entry /\ Fits(r.entry)
  BY <1>1, Zenon DEF Good
<1>. HIDE DEF raw
<1>4. ExtractKeyFromRawBytes(raw) = r.entry.key /\ ExtractSerialNum(raw) = r.entry.serialNum
  BY <1>2, <1>3, ExtractProp, Zenon
<1>. QED
  BY <1>1, <1>4, Zenon DEF r, raw

LEMMA InvLeaves == Inv => LeavesAreRecovered
<1>. SUFFICES ASSUME Inv PROVE LeavesAreRecovered
  OBVIOUS
<1> DEFINE pos(i) == IF i > Len(log) THEN Len(file) ELSE log[i].pos
           L == LeafCountInTwig
<1>1. DataOK(Data) /\ maxSN \in Nat /\ L \in Nat /\ L > 0
  BY ReaderFacts, Zenon
<1>2. /\ Len(log) = maxSN /\ PosOf(Data, 1) = 0
      /\ DOMAIN firstEntryPos \subseteq Nat /\ FirstOK(Data)
  BY <1>1, DataFields, Zenon DEF DataOK
<1>3. ASSUME NEW i \in Int PROVE pos(i) = PosOf(Data, i)
  <2>1. i > maxSN <=> ~(i <= maxSN)
    BY <1>1
  <2>. QED
    BY <1>2, <2>1, DataFields, Zenon DEF PosOf
<1>. HIDE DEF pos
<1>4. pos(1) = 0
  BY <1>2, <1>3
<1>5. ASSUME NEW i \in 1..Len(log)
      PROVE  /\ ValidAt(pos(i)) /\ NextPos(pos(i)) = pos(i + 1)
             /\ EntryToBytes(log[i].entry, log[i].list)
                  = ReadAt(pos(i) + 4, 2 + LengthAt(pos(i)) + 4 * NumberOfSN(pos(i)))
  <2> DEFINE r == log[i]
  <2>1. /\ i \in 1..maxSN /\ file \in Seq(Cell) /\ Good(r.entry, r.list) /\ r.pos \in Nat
        /\ EncodedAt(file, r.pos, r.entry, r.list) /\ After(r.pos, r.entry, r.list) = PosOf(Data, i + 1)
    BY EntryFacts, Zenon
  <2>2. i \in Int /\ i + 1 \in Int /\ i <= maxSN /\ ~(i > maxSN)
    BY <1>1, <2>1
  <2>3. pos(i) = r.pos
    BY <1>2, <2>2, Zenon DEF pos
  <2>. HIDE DEF r
  <2>4. /\ ValidAt(r.pos) /\ NumberOfSN(r.pos) = Len(r.list) /\ LengthAt(r.pos) = EntryLength(r.entry)
        /\ ReadAt(r.pos + 4, 2 + EntryLength(r.entry) + 4 * Len(r.list)) = EntryToBytes(r.entry, r.list)
    BY <2>1, HeaderProp, Zenon
  <2>5. NextPos(r.pos) = pos(i + 1)
    BY <1>3, <2>1, <2>2, <2>4, Zenon DEF NextPos, After
  <2>. QED
    BY <2>3, <2>4, <2>5, Zenon DEF r
<1>6. ASSUME NEW t \in DOMAIN firstEntryPos PROVE firstEntryPos[t] = log[t * L + 1].pos
  <2>1. t \in Nat /\ t * L < maxSN /\ firstEntryPos[t] = PosOf(Data, t * L + 1)
    BY <1>2, DataFields, Zenon DEF FirstOK
  <2> DEFINE n == t * L
  <2>2. n \in Int /\ n < maxSN
    BY <1>1, <2>1
  <2>3. n + 1 <= maxSN
    <3>. HIDE DEF n
    <3>. QED
      BY <1>1, <2>2
  <2>4. PosOf(Data, n + 1) = Data.log[n + 1].pos
    <3>. HIDE DEF n
    <3>. QED
      BY <2>3, DataFields, Zenon DEF PosOf
  <2>. QED
    BY <2>1, <2>4, DataFields, Zenon
<1>. QED
  BY <1>4, <1>5, <1>6, Zenon DEF LeavesAreRecovered, pos

LEMMA InvTypeOK == Inv => TypeOK
<1>. SUFFICES ASSUME Inv PROVE TypeOK
  OBVIOUS
<1>1. DataOK(Data) /\ LiveFor(Data, live) /\ Types /\ ReaderOK /\ ChanOK
  BY DEF Inv
<1>2. /\ file \in Seq(Cell) /\ Len(file) % 4 = 0 /\ maxSN \in 0..MaxSN
      /\ active \subseteq 0..maxSN - 1 /\ deactivedSNList \in Seq(0..maxSN - 1)
  BY <1>1, DataFields, Zenon DEF DataOK
<1>3. /\ live \in [Bodies -> Nat] /\ oldest \in Nat /\ Len(chan) <= ChanCap /\ ~reader.panicked
      /\ Len(deactivedSNList) <= DeactivedSNListMaxLen
  BY <1>1, Zenon DEF LiveFor, Types, ReaderOK, ChanOK
<1>. QED
  BY <1>2, <1>3, Zenon DEF TypeOK

LEMMA InvKeeps == Inv => CompactionKeepsEntries
<1>. SUFFICES ASSUME Inv PROVE CompactionKeepsEntries
  OBVIOUS
<1>1. TypeOK
  BY InvTypeOK, Zenon
<1>2. /\ DataOK(Data) /\ LiveFor(Data, live) /\ maxSN \in Nat /\ active \subseteq 0..maxSN - 1
  BY ReaderFacts, Zenon
<1>3. Len(log) = maxSN
  BY <1>2, DataFields, Zenon DEF DataOK
<1>4. ASSUME NEW sn \in active PROVE ReadEntry(log[sn + 1].pos) = log[sn + 1].entry
  <2>1. sn + 1 \in 1..Len(log)
    BY <1>2, <1>3
  <2>. QED
    BY <2>1, EntryFacts, Zenon
<1>5. /\ \A sn \in active : BodyOf(log[sn + 1].entry) \in Bodies
      /\ \A b \in Bodies : Cardinality(With(Data, b)) = live[b]
  BY <1>2, DataFields, Zenon DEF LiveFor
<1>6. ASSUME NEW b \in Bodies
      PROVE  Cardinality({sn \in active : BodyOf(ReadEntry(log[sn + 1].pos)) = b}) = live[b]
  <2>1. {sn \in active : BodyOf(ReadEntry(log[sn + 1].pos)) = b} = With(Data, b)
    BY <1>4, DataFields, Zenon DEF With
  <2>. QED
    BY <1>5, <2>1, Zenon
<1>. QED
  BY <1>1, <1>4, <1>5, <1>6, Zenon DEF CompactionKeepsEntries

\* Every entry is read back as it was written, by all the ways the code reads it, whatever its
\* strings hold, after any number of moves, and with the list that was appended behind it.
THEOREM EntriesReadBack == Spec => []ReadsBack
BY Invariance, InvReadsBack, PTL

\* ScanEntries meets every entry where it is and RecoverEntry hashes the bytes that were hashed
\* when the entry was appended, so that a recovered twig has the leaves it had.
THEOREM LeavesSurvive == Spec => []LeavesAreRecovered
BY Invariance, InvLeaves, PTL

\* GetActiveEntriesInTwig and the loop of EndWrite, in any order of their steps, keep every
\* entry that is not deleted exactly once, and the goroutine never meets a place that is no
\* entry.
THEOREM CompactionIsSafe == Spec => []CompactionKeepsEntries
BY Invariance, InvKeeps, PTL

-----------------------------------------------------------------------------
(* MagicBytes in the file *)

\* Heights and serial numbers leave the upper cell of their 64-bit field zero (and serial
\* numbers do not fill the one below it): the fields of the code with less than 48 bits.
SmallNumbers ==
    /\ MaxSN <= Base * (Base * FF)
    /\ \A b \in Bodies : /\ b.height \in Nat /\ b.height < Base * (Base * Base)
                         /\ b.lastHeight \in Nat /\ b.lastHeight < Base * (Base * Base)

LEMMA NatQuotient ==
    ASSUME NEW v \in Nat, NEW x \in Nat, v < Base * x
    PROVE  v \div Base \in Nat /\ v \div Base < x
<1> DEFINE q == v \div Base
           r == v % Base
<1>1. Base \in Nat /\ Base > 0
  BY BaseFacts
<1>2. q \in Int /\ r \in Cell /\ r = v - Base * q
  <2>. v \in Int
    OBVIOUS
  <2>. QED
    BY DivMod, Zenon
<1>. HIDE DEF q, r
<1>3. r \in Nat /\ r < Base
  BY <1>1, <1>2 DEF Cell
<1>4. v = Base * q + r
  BY ONLY <1>1, <1>2, <1>3, v \in Nat
<1>5. q < x
  BY ONLY <1>1, <1>2, <1>3, <1>4, x \in Nat, v < Base * x, QuotientBelow
<1>6. q >= 0
  <2>1. Base * q + r >= Base * 0
    BY ONLY <1>1, <1>4, v \in Nat
  <2>. QED
    BY ONLY <1>1, <1>2, <1>3, <2>1, QuotientBelow
<1>. QED
  BY <1>2, <1>5, <1>6 DEF q

LEMMA TopCells ==
    ASSUME NEW v \in Nat, NEW x \in Nat, x <= Base, v < Base * (Base * x)
    PROVE  PutUint64(v)[4] = 0 /\ PutUint64(v)[3] < x
<1> DEFINE q1 == v \div Base
           q2 == q1 \div Base
           q3 == q2 \div Base
           r1 == v % Base
           r2 == q1 % Base
           r3 == q2 % Base
           r4 == q3 % Base
<1>1. Base \in Nat /\ Base > 0 /\ Base * x \in Nat /\ Base * 1 = Base /\ 1 \in Nat
  BY BaseFacts
<1>2. PutUint64(v) = <<r1, r2, r3, r4>>
  BY DEF PutUint64
<1>3. q1 \in Nat /\ q1 < Base * x
  BY <1>1, NatQuotient, Zenon
<1>4. q2 \in Nat /\ q2 < x
  <2>. HIDE DEF q1
  <2>. QED
    BY <1>3, NatQuotient, Zenon
<1>5. q2 \in Cell /\ Base * 0 + q2 = q2 /\ q2 < Base * 1
  <2>. HIDE DEF q2
  <2>. QED
    BY <1>1, <1>4 DEF Cell
<1>6. q3 = 0 /\ r3 = q2
  <2>. HIDE DEF q2
  <2>1. (Base * 0 + q2) \div Base = 0 /\ (Base * 0 + q2) % Base = q2
    BY <1>5, DivModUnique
  <2>. QED
    BY <1>5, <2>1, Zenon
<1>7. r4 = 0
  <2>1. 0 \in Cell /\ Base * 0 + 0 = 0
    BY <1>1, CellFacts
  <2>2. (Base * 0 + 0) % Base = 0
    BY <2>1, DivModUnique
  <2>. HIDE DEF q3
  <2>. QED
    BY <1>6, <2>1, <2>2, Zenon
<1>. HIDE DEF q2, r1, r2, r3, r4
<1>8. <<r1, r2, r3, r4>>[4] = r4 /\ <<r1, r2, r3, r4>>[3] = r3
  OBVIOUS
<1>. QED
  BY <1>2, <1>4, <1>6, <1>7, <1>8, Zenon

\* The heights of a dummy entry.
LEMMA DummyNumber == PutUint64(-2) = <<FF - 1, FF, FF, FF>>
<1>1. FF - 1 \in Cell /\ FF \in Cell /\ -1 \in Int
  BY CellFacts
<1>2. Base * (-1) + (FF - 1) = -2 /\ Base * (-1) + FF = -1
  BY CellFacts, BaseFacts
<1>3. (Base * (-1) + (FF - 1)) \div Base = -1 /\ (Base * (-1) + (FF - 1)) % Base = FF - 1
  BY ONLY <1>1, DivModUnique
<1>4. (Base * (-1) + FF) \div Base = -1 /\ (Base * (-1) + FF) % Base = FF
  BY ONLY <1>1, DivModUnique
<1>5. (-2) \div Base = -1 /\ (-2) % Base = FF - 1 /\ (-1) \div Base = -1 /\ (-1) % Base = FF
  BY <1>2, <1>3, <1>4, Zenon
<1>. QED
  BY <1>5, Zenon DEF PutUint64

\* No cell of MagicBytes is small, and only the inner ones are not FF.
LEMMA MagicCells ==
    ASSUME NEW b, NEW p, HasMagicAt(b, p)
    PROVE  /\ b[p + 1] = FF /\ b[p + 2] = FF - 1 /\ b[p + 3] = FF - 1 /\ b[p + 4] = FF
           /\ \A i \in 1..4 : b[p + i] >= FF - 1
           /\ p + 4 <= Len(b)
<1>1. p + 4 <= Len(b) /\ \A i \in 1..4 : b[p + i] = MagicBytes[i]
  BY Zenon DEF HasMagicAt
<1>2. 1 \in 1..4 /\ 2 \in 1..4 /\ 3 \in 1..4 /\ 4 \in 1..4 /\ \A i \in 1..4 : i = 1 \/ i = 2 \/ i = 3 \/ i = 4
  OBVIOUS
<1>3. /\ b[p + 1] = FF /\ b[p + 2] = FF - 1 /\ b[p + 3] = FF - 1 /\ b[p + 4] = FF
  BY <1>1, <1>2, MagicFacts, Zenon
<1>4. FF \in Nat /\ FF >= FF - 1 /\ FF - 1 >= FF - 1
  BY CellFacts
<1>5. \A i \in 1..4 : b[p + i] >= FF - 1
  <2>. TAKE i \in 1..4
  <2>1. i = 1 \/ i = 2 \/ i = 3 \/ i = 4
    OBVIOUS
  <2>. QED
    BY <1>3, <1>4, <2>1, Zenon
<1>. QED
  BY <1>1, <1>3, <1>5, Zenon

\* A place with a small cell is not MagicBytes.
LEMMA SmallCell ==
    ASSUME NEW b, NEW p, HasMagicAt(b, p), NEW i \in 1..4, b[p + i] \in Nat, b[p + i] < FF - 1
    PROVE  FALSE
<1>1. b[p + i] >= FF - 1 /\ FF \in Nat
  BY MagicCells, CellFacts
<1>. QED
  BY ONLY <1>1, b[p + i] \in Nat, b[p + i] < FF - 1

\* The numbers of an entry do not look like MagicBytes, and end with a zero.
LEMMA NumbersClean ==
    ASSUME SmallNumbers, NEW e \in Entry, BodyOf(e) \in Bodies \cup {DummyBody},
           e.serialNum \in 0..MaxSN - 1
    PROVE  /\ Numbers(e) \in Seq(Cell) /\ Len(Numbers(e)) = 12 /\ Numbers(e)[12] = 0
           /\ \A j \in 0..8 : ~HasMagicAt(Numbers(e), j)
<1> DEFINE u == Numbers(e)
           h == PutUint64(e.height)
           o == PutUint64(e.lastHeight)
           s == PutUint64(e.serialNum)
           X == Base * (Base * FF)
           Y == Base * (Base * Base)
<1>1. FF \in Nat /\ FF >= 63 /\ FF = Base - 1 /\ Base \in Nat /\ X \in Nat /\ MaxSN \in Nat
  BY CellFacts, BaseFacts, ConstantFacts
<1>2. /\ u \in Seq(Cell) /\ Len(u) = 12 /\ Holds(u, 0, h) /\ Holds(u, 4, o) /\ Holds(u, 8, s)
  BY EntryFields, NumbersLayout, Zenon
<1>3. Len(h) = 4 /\ Len(o) = 4 /\ Len(s) = 4
  BY EntryFields, Int64RoundTrip, Zenon DEF HasNumbers
<1>4. e.height = BodyOf(e).height /\ e.lastHeight = BodyOf(e).lastHeight
  BY DEF BodyOf
<1>5. s[4] = 0 /\ s[3] < FF
  <2>. HIDE DEF X
  <2>1. e.serialNum \in Nat /\ e.serialNum < X
    BY <1>1 DEF SmallNumbers, X
  <2>2. FF <= Base /\ FF \in Nat
    BY <1>1
  <2>. QED
    BY <2>1, <2>2, TopCells, Zenon DEF X
<1>. HIDE DEF u, h, o, s, X
<1>6. /\ 0 + 4 = 4 /\ 0 + 1 = 1 /\ 0 + 2 = 2 /\ 0 + 3 = 3 /\ 4 + 1 = 5 /\ 4 + 2 = 6 /\ 4 + 3 = 7
      /\ 4 + 4 = 8 /\ 8 + 1 = 9 /\ 8 + 2 = 10 /\ 8 + 3 = 11 /\ 8 + 4 = 12
      /\ 1 \in 1..4 /\ 2 \in 1..4 /\ 3 \in 1..4 /\ 4 \in 1..4
  OBVIOUS
<1>7. /\ u[1] = h[1] /\ u[2] = h[2] /\ u[3] = h[3] /\ u[4] = h[4]
      /\ u[5] = o[1] /\ u[6] = o[2] /\ u[7] = o[3] /\ u[8] = o[4]
      /\ u[11] = s[3] /\ u[12] = s[4]
  <2>1. \A i \in 1..4 : u[0 + i] = h[i] /\ u[4 + i] = o[i] /\ u[8 + i] = s[i]
    BY <1>2, <1>3, Zenon DEF Holds
  <2>. QED
    BY ONLY <2>1
<1>8. u[12] = 0 /\ u[11] < FF
  BY <1>5, <1>7, Zenon
<1>9. ASSUME NEW j \in 0..8, HasMagicAt(u, j) PROVE FALSE
  <2>1. u[j + 1] = FF /\ u[j + 2] = FF - 1 /\ u[j + 3] = FF - 1 /\ u[j + 4] = FF
    BY <1>9, MagicCells, Zenon
  <2>2. CASE BodyOf(e) \in Bodies
    <3>1. /\ e.height \in Nat /\ e.height < Base * (Base * Base)
          /\ e.lastHeight \in Nat /\ e.lastHeight < Base * (Base * Base)
      BY <1>4, <2>2, Zenon DEF SmallNumbers
    <3>2. Base <= Base /\ Base \in Nat
      BY <1>1
    <3>3. h[4] = 0 /\ o[4] = 0
      BY <3>1, <3>2, TopCells, Zenon DEF h, o
    <3>4. u[4] = 0 /\ u[8] = 0
      BY <1>7, <3>3, Zenon
    <3>. QED
      BY ONLY <1>1, <1>8, <2>1, <3>4, j \in 0..8
  <2>3. CASE BodyOf(e) = DummyBody
    <3>1. e.height = -2 /\ e.lastHeight = -2
      BY <1>4, <2>3 DEF DummyBody
    <3>2. h = <<FF - 1, FF, FF, FF>> /\ o = <<FF - 1, FF, FF, FF>>
      BY <3>1, DummyNumber, Zenon DEF h, o
    <3>3. /\ h[1] = FF - 1 /\ h[2] = FF /\ h[3] = FF /\ h[4] = FF
          /\ o[1] = FF - 1 /\ o[2] = FF /\ o[3] = FF /\ o[4] = FF
      BY ONLY <3>2
    <3>4. /\ u[2] = FF /\ u[3] = FF /\ u[4] = FF /\ u[5] = FF - 1
          /\ u[6] = FF /\ u[7] = FF /\ u[8] = FF /\ u[1] = FF - 1
      BY <1>7, <3>3, Zenon
    <3>. QED
      BY ONLY <1>1, <1>8, <2>1, <3>4, j \in 0..8
  <2>. QED
    BY <2>2, <2>3
<1>. QED
  BY <1>2, <1>8, <1>9, Zenon DEF u

\* In the escaped strings MagicBytes are left only where getAllPos does not look for them.
LEMMA EscapedClean ==
    ASSUME NEW e, HasStrings(e), NEW q \in Nat, q + 4 < Len(Strings(e)), HasMagicAt(Escaped(e), q)
    PROVE  FALSE
<1> DEFINE s == Strings(e)
           n == Len(s)
           x == Escaped(e)
           P == Places(e)
           pos == Positions(e)
<1>1. /\ x \in Seq(Cell) /\ Len(x) = n
      /\ \A p \in P, j \in 1..4 : p + j <= n => x[p + j] = 0
      /\ \A i \in 1..n : (\A p \in P : i \notin p + 1..p + 4) => x[i] = s[i]
  BY EscapedProp, Zenon
<1>2. s \in Seq(Cell) /\ n \in Nat /\ P \in SUBSET Nat /\ pos \in Seq(Nat)
  BY PositionsProp, Zenon
<1>3. Found(s, pos, n)
  BY <1>2, getAllPosProp, Zenon DEF pos, Positions
<1>4. P = {pos[i] : i \in 1..Len(pos)}
  BY DEF Places
<1>5. \A i \in 1..Len(pos) : pos[i] \in Nat
  BY <1>2, ElementOfSeq
<1>6. q + 4 < n /\ HasMagicAt(x, q) /\ FF \in Nat /\ FF >= 63
  BY CellFacts
<1>. HIDE DEF s, n, x, P, pos
<1>7. ASSUME NEW i \in 1..4 PROVE x[q + i] = s[q + i] /\ \A p \in P : q + i \notin p + 1..p + 4
  <2>1. q + i \in 1..n
    BY ONLY <1>2, <1>6, q \in Nat, i \in 1..4
  <2>2. ASSUME NEW p \in P, q + i \in p + 1..p + 4 PROVE FALSE
    <3>1. p \in Nat
      BY <1>2
    <3>2. (q + i) - p \in 1..4 /\ p + ((q + i) - p) = q + i /\ p + ((q + i) - p) <= n
      BY ONLY <2>1, <2>2, <3>1, <1>2, q \in Nat
    <3>3. x[q + i] = 0
      BY <1>1, <3>2, Zenon
    <3>4. x[q + i] \in Nat /\ x[q + i] < FF - 1
      BY ONLY <1>6, <3>3
    <3>. QED
      BY <1>6, <3>4, SmallCell, Zenon
  <2>. QED
    BY <1>1, <2>1, <2>2, Zenon
<1>8. HasMagicAt(s, q)
  <2>1. \A i \in 1..4 : s[q + i] = MagicBytes[i]
    BY <1>6, <1>7, Zenon DEF HasMagicAt
  <2>2. q + 4 <= Len(s)
    BY ONLY <1>2, <1>6, q \in Nat DEF n
  <2>. QED
    BY <2>1, <2>2, Zenon DEF HasMagicAt
<1>9. q \in 0..n - 1 /\ ~(q + 4 >= n)
  BY ONLY <1>2, <1>6, q \in Nat
<1>10. PICK a \in 1..Len(pos) : pos[a] <= q /\ q < pos[a] + 4
  BY <1>3, <1>8, <1>9, Zenon DEF Found, n
<1>11. pos[a] \in P /\ pos[a] \in Nat
  BY <1>4, <1>5
<1>12. q + 1 \in pos[a] + 1..pos[a] + 4 /\ 1 \in 1..4
  BY ONLY <1>10, <1>11, q \in Nat
<1>. QED
  BY <1>7, <1>11, <1>12, Zenon

\* The listed positions do not contain the first cell of MagicBytes.
LEMMA WordCells ==
    ASSUME NEW e, Fits(e), NEW i \in 1..2 * Len(Positions(e))
    PROVE  PosWords(e)[i] \in Nat /\ PosWords(e)[i] < FF
<1> DEFINE pos == Positions(e)
           k == Len(pos)
           w == PosWords(e)
<1>1. k \in Nat
  BY PositionsProp, Zenon DEF Fits
<1>2. /\ Len(w) = 2 * k
      /\ \A j \in 1..k : /\ pos[j] + 2 * k \in Nat /\ pos[j] + 2 * k < FF
                         /\ Holds(w, 2 * (j - 1), PutUint32(pos[j] + 2 * k))
  BY PosWordsLayout, Zenon
<1>3. FF \in Nat /\ FF = Base - 1 /\ FF >= 63 /\ Base \in Nat
  BY CellFacts, BaseFacts
<1>. HIDE DEF k, w, pos
<1>4. i \in 1..2 * k
  BY DEF k, pos
<1>5. PICK j \in 1..k : i = 2 * (j - 1) + 1 \/ i = 2 * (j - 1) + 2
  <2>1. (i + 1) \div 2 \in 1..k /\ (i = 2 * ((i + 1) \div 2 - 1) + 1 \/ i = 2 * ((i + 1) \div 2 - 1) + 2)
    BY ONLY <1>1, <1>4
  <2>. QED
    BY <2>1
<1> DEFINE v == pos[j] + 2 * k
<1>6. v \in Nat /\ v < FF /\ Holds(w, 2 * (j - 1), PutUint32(v))
  BY <1>2, Zenon
<1>. HIDE DEF v
<1>7. PutUint32(v) = <<v, 0>>
  <2>1. v < Base
    BY ONLY <1>3, <1>6
  <2>. QED
    BY <1>6, <2>1, PutUint32Type, Zenon
<1>8. Len(<<v, 0>>) = 2 /\ <<v, 0>>[1] = v /\ <<v, 0>>[2] = 0 /\ 1 \in 1..2 /\ 2 \in 1..2
  BY ONLY <1>6
<1>9. w[2 * (j - 1) + 1] = v /\ w[2 * (j - 1) + 2] = 0
  BY <1>6, <1>7, <1>8, Zenon DEF Holds
<1>10. w[i] = v \/ w[i] = 0
  BY <1>5, <1>9, Zenon
<1>11. w[i] \in Nat /\ w[i] < FF
  BY ONLY <1>3, <1>6, <1>10
<1>. QED
  BY <1>11 DEF w

\* The upper cells of the serial numbers of a list are zero.
LEMMA ListCells ==
    ASSUME SmallNumbers, NEW l \in Seq(Int64s), ListOK(l), NEW i \in Nat, i < 4 * Len(l)
    PROVE  \E c \in 1..4 : i + c <= 4 * Len(l) /\ SNListToBytes(l)[i + c] = 0
<1> DEFINE m == Len(l)
           j == i \div 4 + 1
           s == SNListToBytes(l)
           t == PutUint64(l[j])
           X == Base * (Base * FF)
<1>1. m \in Nat /\ X \in Nat /\ MaxSN \in Nat /\ FF <= Base /\ FF \in Nat
  BY CellFacts, BaseFacts, ConstantFacts, LenProperties
<1>2. j \in 1..m /\ 4 * (j - 1) + 4 - i \in 1..4 /\ i + (4 * (j - 1) + 4 - i) = 4 * (j - 1) + 4
      /\ 4 * (j - 1) + 4 <= 4 * m
  <2>. HIDE DEF m
  <2>1. i < 4 * m
    BY DEF m
  <2>. QED
    BY ONLY <1>1, <2>1, i \in Nat
<1>3. Holds(s, 4 * (j - 1), t)
  <2>. HIDE DEF j
  <2>. QED
    BY <1>2, ListLayout, Zenon DEF m
<1>4. t[4] = 0 /\ Len(t) = 4
  <2>1. l[j] \in 0..MaxSN - 1
    <3>. HIDE DEF j
    <3>. QED
      BY <1>2, Zenon DEF ListOK, m
  <2>2. l[j] \in Int64s
    <3>. HIDE DEF j
    <3>. QED
      BY <1>2, ElementOfSeq, Zenon DEF m
  <2>. HIDE DEF j, X
  <2>3. l[j] \in Nat /\ l[j] < X
    BY <1>1, <2>1 DEF SmallNumbers, X
  <2>4. t[4] = 0
    BY <1>1, <2>3, TopCells, Zenon DEF X
  <2>. QED
    BY <2>2, <2>4, Int64RoundTrip, Zenon
<1>. HIDE DEF t
<1>5. s[4 * (j - 1) + 4] = 0
  <2>. HIDE DEF j, s
  <2>1. 4 \in 1..4
    OBVIOUS
  <2>. QED
    BY <1>3, <1>4, <2>1, Zenon DEF Holds
<1>. HIDE DEF j, s, m
<1>6. \E c \in 1..4 : i + c <= 4 * m /\ s[i + c] = 0
  BY <1>2, <1>5, Zenon
<1>. QED
  BY <1>6 DEF m, s

\* The parts of an entry in the file, from MagicBytes to the padding.
HasRegion(f, P, e, l) ==
    LET k == Len(Positions(e))
        n == Len(Strings(e))
        m == Len(l)
        A == P + 6
        B == A + 2 * k
        S == B + 2
        U == S + n
        T == U + 12
        Z == T + 4 * m
        pad == getPaddingSize(2 + EntryLength(e) + 4 * m)
    IN  /\ k \in Nat /\ n \in Nat /\ m \in Nat /\ pad \in Nat
        /\ EntryLength(e) = 2 * k + n + 14 /\ EntryLength(e) < FF
        /\ Holds(f, P, MagicBytes) /\ f[P + 5] = m /\ f[P + 6] = EntryLength(e)
        /\ Holds(f, A, PosWords(e)) /\ Holds(f, B, EndMark) /\ Holds(f, S, Escaped(e))
        /\ Holds(f, U, Numbers(e)) /\ Holds(f, T, SNListToBytes(l)) /\ Holds(f, Z, Zeros(pad))
        /\ After(P, e, l) = Z + pad

LEMMA RegionLayout ==
    ASSUME NEW f \in Seq(Cell), NEW P \in Nat, NEW e, NEW l, Good(e, l), EncodedAt(f, P, e, l)
    PROVE  HasRegion(f, P, e, l)
<1> DEFINE k == Len(Positions(e))
           n == Len(Strings(e))
           m == Len(l)
           L == EntryLength(e)
           b == EntryToBytes(e, l)
           w == PosWords(e)
           x == Escaped(e)
           u == Numbers(e)
           s == SNListToBytes(l)
           pad == getPaddingSize(2 + L + 4 * m)
<1>1. /\ HasLayout(b, e, l) /\ b \in Seq(Cell) /\ Len(b) = 2 + L + 4 * m
      /\ k \in Nat /\ n \in Nat /\ m \in Nat /\ L \in Nat /\ L < MaxEntryBytes
      /\ L = 2 * k + 2 + n + 12
  BY GoodLayout, Zenon
<1>2. Holds(f, P, MagicBytes) /\ Holds(f, P + 4, b) /\ Holds(f, P + 4 + Len(b), Zeros(getPaddingSize(Len(b))))
  BY Zenon DEF EncodedAt
<1>3. /\ b[1] = m /\ b[2] = L /\ Holds(b, 2, w) /\ Holds(b, 2 + 2 * k, EndMark)
      /\ Holds(b, 4 + 2 * k, x) /\ Holds(b, 4 + 2 * k + n, u) /\ Holds(b, 16 + 2 * k + n, s)
  BY <1>1, Zenon DEF HasLayout
<1>4. w \in Seq(Cell) /\ x \in Seq(Cell) /\ u \in Seq(Cell) /\ s \in Seq(Cell) /\ EndMark \in Seq(Cell)
  BY PosWordsLayout, EscapedProp, EntryFields, NumbersLayout, ListLayout, MagicFacts, Zenon DEF Good, Fits
<1>5. pad \in Nat
  <2>. HIDE DEF L, m
  <2>1. 2 + L + 4 * m \in Nat
    BY ONLY <1>1
  <2>. QED
    BY ONLY <2>1 DEF getPaddingSize
<1>6. Holds(f, P + 4 + (2 + L + 4 * m), Zeros(pad))
  BY <1>1, <1>2, Zenon
<1>7. After(P, e, l) = P + (L + 4 * m) + 6 + getPaddingSize(L + 4 * m + 6)
  BY DEF After, getNextPos
<1>. HIDE DEF k, n, m, L, b, w, x, u, s, pad
<1>8. f[P + 5] = m /\ f[P + 6] = L
  <2>1. 1 \in 1..Len(b) /\ 2 \in 1..Len(b) /\ P + 4 + 1 = P + 5 /\ P + 4 + 2 = P + 6
    BY ONLY <1>1, P \in Nat
  <2>2. \A i \in 1..Len(b) : f[P + 4 + i] = b[i]
    BY <1>2, Zenon DEF Holds
  <2>3. f[P + 4 + 1] = b[1] /\ f[P + 4 + 2] = b[2]
    BY <2>1, <2>2, Zenon
  <2>. QED
    BY <1>3, <2>1, <2>3, Zenon
<1>9. /\ P + 4 \in Nat /\ 2 \in Nat /\ 2 + 2 * k \in Nat /\ 4 + 2 * k \in Nat /\ 4 + 2 * k + n \in Nat
      /\ 16 + 2 * k + n \in Nat
  BY ONLY <1>1, P \in Nat
<1>10. /\ Holds(f, (P + 4) + 2, w) /\ Holds(f, (P + 4) + (2 + 2 * k), EndMark)
       /\ Holds(f, (P + 4) + (4 + 2 * k), x) /\ Holds(f, (P + 4) + (4 + 2 * k + n), u)
       /\ Holds(f, (P + 4) + (16 + 2 * k + n), s)
  <2>1. ASSUME NEW q \in Nat, NEW t \in Seq(Cell), Holds(b, q, t) PROVE Holds(f, (P + 4) + q, t)
    BY <1>1, <1>2, <1>9, <2>1, HoldsTrans, Zenon
  <2>. QED
    BY <1>3, <1>4, <1>9, <2>1, Zenon
<1>11. /\ (P + 4) + 2 = P + 6 /\ (P + 4) + (2 + 2 * k) = P + 6 + 2 * k
       /\ (P + 4) + (4 + 2 * k) = P + 6 + 2 * k + 2
       /\ (P + 4) + (4 + 2 * k + n) = P + 6 + 2 * k + 2 + n
       /\ (P + 4) + (16 + 2 * k + n) = P + 6 + 2 * k + 2 + n + 12
       /\ P + 4 + (2 + L + 4 * m) = P + 6 + 2 * k + 2 + n + 12 + 4 * m
       /\ L = 2 * k + n + 14
  BY ONLY <1>1, P \in Nat
<1>12. After(P, e, l) = P + 6 + 2 * k + 2 + n + 12 + 4 * m + pad
  <2> DEFINE t == 2 + L + 4 * m
  <2>1. t \in Nat /\ L + 4 * m + 6 = t + 4 /\ P + (L + 4 * m) + 6 = P + 6 + 2 * k + 2 + n + 12 + 4 * m
    BY ONLY <1>1, P \in Nat
  <2>2. pad = getPaddingSize(t)
    BY DEF pad
  <2>. HIDE DEF t
  <2>3. getPaddingSize(t + 4) = getPaddingSize(t)
    <3>1. (t + 4) % 4 = t % 4
      BY ONLY <2>1
    <3>. QED
      BY <3>1, Zenon DEF getPaddingSize
  <2>. QED
    BY <1>7, <2>1, <2>2, <2>3, Zenon
<1>13. L < FF
  BY <1>1, Zenon DEF MaxEntryBytes, FF
<1>. QED
  BY <1>1, <1>2, <1>5, <1>6, <1>8, <1>10, <1>11, <1>12, <1>13, Zenon
     DEF HasRegion, k, n, m, L, w, x, u, s, pad

\* The strings begin with the length of the key.
LEMMA FirstCell ==
    ASSUME NEW e, Fits(e)
    PROVE  Len(Strings(e)) >= 6 /\ Escaped(e)[1] \in Nat /\ Escaped(e)[1] < FF - 1
<1> DEFINE s == Strings(e)
           n == Len(s)
           x == Escaped(e)
           k == Len(e.key)
           v == Len(e.value)
           w == Len(e.nextKey)
<1>1. /\ n = 6 + k + v + w /\ k \in Nat /\ v \in Nat /\ w \in Nat /\ Holds(s, 0, PutUint32(k))
  BY StringsLayout, Zenon DEF Fits
<1>2. EntryLength(e) = 2 * Len(Positions(e)) + 2 + n + 12 /\ Len(Positions(e)) \in Nat /\ n \in Nat
  BY PositionsProp, Zenon DEF Fits
<1>3. EntryLength(e) < FF /\ FF \in Nat /\ FF = Base - 1 /\ FF >= 63 /\ Base \in Nat
  BY CellFacts, BaseFacts DEF Fits, MaxEntryBytes, FF
<1>4. /\ \A p \in Places(e), j \in 1..4 : p + j <= n => x[p + j] = 0
      /\ \A i \in 1..n : (\A p \in Places(e) : i \notin p + 1..p + 4) => x[i] = s[i]
      /\ Places(e) \in SUBSET Nat
  BY EscapedProp, PositionsProp, Zenon DEF Fits
<1>. HIDE DEF s, n, x, k, v, w
<1>5. k < FF - 1 /\ k < Base /\ 1 \in 1..n /\ n >= 6
  BY ONLY <1>1, <1>2, <1>3
<1>6. s[1] = k
  <2>1. PutUint32(k) = <<k, 0>>
    BY <1>1, <1>5, PutUint32Type, Zenon
  <2>2. Len(<<k, 0>>) = 2 /\ <<k, 0>>[1] = k /\ 1 \in 1..2 /\ 0 + 1 = 1
    BY ONLY <1>1
  <2>. QED
    BY <1>1, <2>1, <2>2, Zenon DEF Holds
<1>7. x[1] = 0 \/ x[1] = k
  <2>1. CASE \A p \in Places(e) : 1 \notin p + 1..p + 4
    BY <1>4, <1>5, <1>6, <2>1, Zenon
  <2>2. CASE \E p \in Places(e) : 1 \in p + 1..p + 4
    <3>1. PICK p \in Places(e) : 1 \in p + 1..p + 4
      BY <2>2
    <3>2. p \in Nat
      BY <1>4
    <3>3. p = 0 /\ 0 + 1 = 1 /\ 1 \in 1..4 /\ 1 <= n
      BY ONLY <1>5, <3>1, <3>2
    <3>. QED
      BY <1>4, <3>3, Zenon
  <2>. QED
    BY <2>1, <2>2
<1>8. x[1] \in Nat /\ x[1] < FF - 1
  BY ONLY <1>1, <1>3, <1>5, <1>7
<1>. QED
  BY <1>5, <1>8, Zenon DEF n, s, x

\* What begins inside a sequence that the file holds.
LEMMA MagicInside ==
    ASSUME NEW f \in Seq(Cell), NEW P \in Nat, NEW s \in Seq(Cell), Holds(f, P, s),
           NEW p \in Nat, P <= p, HasMagicAt(f, p)
    PROVE  /\ \A i \in 1..4 : (p - P) + i <= Len(s) => s[(p - P) + i] = MagicBytes[i]
           /\ p + 4 <= P + Len(s) => HasMagicAt(s, p - P)
<1>1. Len(s) \in Nat
  BY LenNat
<1>2. \A i \in 1..Len(s) : f[P + i] = s[i]
  BY Zenon DEF Holds
<1>3. \A i \in 1..4 : f[p + i] = MagicBytes[i]
  BY Zenon DEF HasMagicAt
<1>4. ASSUME NEW i \in 1..4, (p - P) + i <= Len(s) PROVE s[(p - P) + i] = MagicBytes[i]
  <2>1. (p - P) + i \in 1..Len(s) /\ P + ((p - P) + i) = p + i
    BY ONLY <1>1, <1>4, P <= p, P \in Nat, p \in Nat
  <2>. QED
    BY <1>2, <1>3, <2>1, Zenon
<1>5. ASSUME p + 4 <= P + Len(s) PROVE HasMagicAt(s, p - P)
  <2>1. (p - P) + 4 <= Len(s) /\ \A i \in 1..4 : (p - P) + i <= Len(s)
    BY ONLY <1>1, <1>5, P \in Nat, p \in Nat
  <2>. QED
    BY <1>4, <2>1, Zenon DEF HasMagicAt
<1>. QED
  BY <1>4, <1>5, Zenon

\* Behind its own MagicBytes, an entry reads as MagicBytes at most at the end of NextKey.
LEMMA RegionClean ==
    ASSUME SmallNumbers, NEW f \in Seq(Cell), NEW P \in Nat, NEW e, NEW l, Good(e, l), ListOK(l),
           BodyOf(e) \in Bodies \cup {DummyBody}, e.serialNum \in 0..MaxSN - 1, EncodedAt(f, P, e, l),
           NEW p \in Nat, P < p, p < After(P, e, l), HasMagicAt(f, p)
    PROVE  LET U == P + 8 + 2 * Len(Positions(e)) + Len(Strings(e))
           IN  p \in U - 4..U - 1
<1> DEFINE k == Len(Positions(e))
           n == Len(Strings(e))
           m == Len(l)
           L == EntryLength(e)
           A == P + 6
           B == A + 2 * k
           S == B + 2
           U == S + n
           T == U + 12
           Z == T + 4 * m
           pad == getPaddingSize(2 + L + 4 * m)
           w == PosWords(e)
           x == Escaped(e)
           u == Numbers(e)
           s == SNListToBytes(l)
<1>1. /\ k \in Nat /\ n \in Nat /\ m \in Nat /\ pad \in Nat
      /\ L = 2 * k + n + 14 /\ L < FF
      /\ Holds(f, P, MagicBytes) /\ f[P + 5] = m /\ f[P + 6] = L
      /\ Holds(f, A, w) /\ Holds(f, B, EndMark) /\ Holds(f, S, x)
      /\ Holds(f, U, u) /\ Holds(f, T, s) /\ Holds(f, Z, Zeros(pad))
      /\ After(P, e, l) = Z + pad
  <2>1. HasRegion(f, P, e, l)
    BY RegionLayout, Zenon
  <2>. QED
    BY ONLY <2>1, Zenon DEF HasRegion
<1>2. e \in Entry /\ Fits(e) /\ l \in Seq(Int64s) /\ HasStrings(e)
  BY Zenon DEF Good, Fits
<1>3. /\ w \in Seq(Cell) /\ Len(w) = 2 * k /\ \A i \in 1..2 * k : w[i] \in Nat /\ w[i] < FF
      /\ x \in Seq(Cell) /\ Len(x) = n /\ x[1] \in Nat /\ x[1] < FF - 1 /\ n >= 6
      /\ u \in Seq(Cell) /\ Len(u) = 12 /\ u[12] = 0 /\ \A j \in 0..8 : ~HasMagicAt(u, j)
      /\ s \in Seq(Cell) /\ Len(s) = 4 * m
      /\ Zeros(pad) \in Seq(Cell) /\ Len(Zeros(pad)) = pad /\ \A i \in 1..pad : Zeros(pad)[i] = 0
  <2>1. w \in Seq(Cell) /\ Len(w) = 2 * k /\ \A i \in 1..2 * k : w[i] \in Nat /\ w[i] < FF
    BY <1>2, PosWordsLayout, WordCells, Zenon
  <2>2. x \in Seq(Cell) /\ Len(x) = n /\ x[1] \in Nat /\ x[1] < FF - 1 /\ n >= 6
    BY <1>2, EscapedProp, FirstCell, Zenon
  <2>3. u \in Seq(Cell) /\ Len(u) = 12 /\ u[12] = 0 /\ \A j \in 0..8 : ~HasMagicAt(u, j)
    BY <1>2, NumbersClean, Zenon
  <2>4. s \in Seq(Cell) /\ Len(s) = 4 * m
    BY <1>2, ListLayout, Zenon
  <2>5. Zeros(pad) \in Seq(Cell) /\ Len(Zeros(pad)) = pad /\ \A i \in 1..pad : Zeros(pad)[i] = 0
    BY <1>1, ZerosProp, Zenon
  <2>. QED
    BY <2>1, <2>2, <2>3, <2>4, <2>5
<1>4. \A q \in Nat : q + 4 < n => ~HasMagicAt(x, q)
  BY <1>2, EscapedClean, Zenon
<1>5. \A i \in Nat : i < 4 * m => \E c \in 1..4 : i + c <= 4 * m /\ s[i + c] = 0
  BY <1>2, ListCells, Zenon
<1>6. m < FF - 1 /\ FF \in Nat /\ FF >= 63
  <2>1. m <= DeactivedSNListMaxLen + 1
    BY Zenon DEF ListOK
  <2>. HIDE DEF m
  <2>. QED
    BY ONLY <1>1, <2>1, ConstantFacts, CellFacts, BaseFacts
<1>7. \A i \in 1..4 : (MagicBytes[i] = FF \/ MagicBytes[i] = FF - 1) /\ MagicBytes[i] # 0
  <2>. TAKE i \in 1..4
  <2>1. i = 1 \/ i = 2 \/ i = 3 \/ i = 4
    OBVIOUS
  <2>2. MagicBytes[i] = FF \/ MagicBytes[i] = FF - 1
    BY <2>1, MagicFacts, Zenon
  <2>. QED
    BY ONLY <1>6, <2>2
<1>8. p < Z + pad
  BY <1>1, Zenon
<1>a. A = P + 6 /\ B = A + 2 * k /\ S = B + 2 /\ U = S + n /\ T = U + 12 /\ Z = T + 4 * m
  BY Zenon
<1>. HIDE DEF w, x, u, s, k, n, m, L, pad, A, B, S, U, T, Z
<1>c. /\ k \in Nat /\ n \in Nat /\ m \in Nat /\ pad \in Nat /\ n >= 6 /\ Len(w) = 2 * k
      /\ Len(x) = n /\ Len(u) = 12 /\ Len(s) = 4 * m /\ Len(Zeros(pad)) = pad
  BY <1>1, <1>3, Zenon
<1>9. A \in Nat /\ B \in Nat /\ S \in Nat /\ U \in Nat /\ T \in Nat /\ Z \in Nat
  BY ONLY <1>c, <1>a, P \in Nat
<1>10. /\ f[P + 1] = FF /\ f[P + 2] = FF - 1 /\ f[P + 3] = FF - 1 /\ f[P + 4] = FF
       /\ f[B + 1] = FF /\ f[B + 2] = FF
  <2>1. 1 \in 1..4 /\ 2 \in 1..4 /\ 3 \in 1..4 /\ 4 \in 1..4 /\ 1 \in 1..2 /\ 2 \in 1..2
    OBVIOUS
  <2>2. (\A i \in 1..4 : f[P + i] = MagicBytes[i]) /\ \A i \in 1..2 : f[B + i] = EndMark[i]
    BY <1>1, MagicFacts, Zenon DEF Holds
  <2>. QED
    BY <2>1, <2>2, MagicFacts, Zenon
<1>11. f[p + 1] = FF /\ f[p + 2] = FF - 1
  BY MagicCells, Zenon
<1>b. ASSUME NEW q \in Nat, NEW t \in Seq(Cell), Holds(f, q, t), q <= p, NEW i \in 1..4,
             (p - q) + i <= Len(t)
      PROVE  t[(p - q) + i] = MagicBytes[i]
  BY <1>b, MagicInside, Zenon
<1>12. ASSUME p < A PROVE FALSE
  <2>1. p = P + 1 \/ p = P + 2 \/ p = P + 3 \/ p = P + 4 \/ p = P + 5
    BY ONLY <1>c, <1>12, <1>a, P < p, P \in Nat, p \in Nat
  <2>2. CASE p = P + 1
    <3>1. p + 1 = P + 2
      BY ONLY <2>2, P \in Nat
    <3>2. FF = FF - 1
      BY <1>10, <1>11, <3>1, Zenon
    <3>. QED
      BY ONLY <1>6, <3>2
  <2>3. CASE p = P + 2
    <3>1. p + 1 = P + 3
      BY ONLY <2>3, P \in Nat
    <3>2. FF = FF - 1
      BY <1>10, <1>11, <3>1, Zenon
    <3>. QED
      BY ONLY <1>6, <3>2
  <2>4. CASE p = P + 3
    <3>1. p + 2 = P + 5
      BY ONLY <2>4, P \in Nat
    <3>2. m = FF - 1
      BY <1>1, <1>11, <3>1, Zenon
    <3>. QED
      BY ONLY <1>1, <1>6, <3>2
  <2>5. CASE p = P + 4
    <3>1. p + 1 = P + 5
      BY ONLY <2>5, P \in Nat
    <3>2. m = FF
      BY <1>1, <1>11, <3>1, Zenon
    <3>. QED
      BY ONLY <1>1, <1>6, <3>2
  <2>6. CASE p = P + 5
    <3>1. p + 1 = P + 6
      BY ONLY <2>6, P \in Nat
    <3>2. L = FF
      BY <1>1, <1>11, <3>1, Zenon
    <3>. QED
      BY ONLY <1>1, <1>6, <3>2
  <2>. QED
    BY ONLY <2>1, <2>2, <2>3, <2>4, <2>5, <2>6
<1>13. ASSUME A <= p, p < B PROVE FALSE
  <2>1. 1 \in 1..4 /\ (p - A) + 1 <= Len(w) /\ (p - A) + 1 \in 1..2 * k
    BY ONLY <1>c, <1>9, <1>13, <1>a, p \in Nat
  <2>2. w[(p - A) + 1] = MagicBytes[1]
    BY <1>1, <1>3, <1>9, <1>13, <1>b, <2>1, Zenon
  <2>3. w[(p - A) + 1] \in Nat /\ w[(p - A) + 1] < FF
    BY <1>3, <2>1, Zenon
  <2>4. w[(p - A) + 1] = FF
    BY <2>2, MagicFacts, Zenon
  <2>. QED
    BY ONLY <1>6, <2>3, <2>4
<1>14. ASSUME p = B PROVE FALSE
  <2>1. p + 2 = B + 2
    BY ONLY <1>14, <1>9
  <2>2. FF = FF - 1
    BY <1>10, <1>11, <2>1, Zenon
  <2>. QED
    BY ONLY <1>6, <2>2
<1>15. ASSUME p = B + 1 PROVE FALSE
  <2>1. p + 2 = S + 1 /\ 1 \in 1..Len(x)
    BY ONLY <1>c, <1>9, <1>15, <1>a
  <2>2. f[S + 1] = x[1]
    BY <1>1, <2>1, Zenon DEF Holds
  <2>3. x[1] = FF - 1
    BY <1>11, <2>1, <2>2, Zenon
  <2>. QED
    BY ONLY <1>3, <1>6, <2>3
<1>16. ASSUME S <= p, p + 4 < U PROVE FALSE
  <2>1. p - S \in Nat /\ (p - S) + 4 < n /\ p + 4 <= S + Len(x)
    BY ONLY <1>c, <1>9, <1>16, <1>a, p \in Nat
  <2>2. HasMagicAt(x, p - S)
    BY <1>1, <1>3, <1>9, <1>16, <2>1, MagicInside, Zenon
  <2>. QED
    BY <1>4, <2>1, <2>2, Zenon
<1>17. ASSUME U <= p, p < T PROVE FALSE
  <2>1. p - U \in 0..11
    BY ONLY <1>c, <1>9, <1>17, <1>a, p \in Nat
  <2>2. CASE p - U \in 0..8
    <3>1. p + 4 <= U + Len(u)
      BY ONLY <1>c, <1>9, <2>2, p \in Nat
    <3>2. HasMagicAt(u, p - U)
      BY <1>1, <1>3, <1>9, <1>17, <3>1, MagicInside, Zenon
    <3>. QED
      BY <1>3, <2>2, <3>2, Zenon
  <2>3. CASE p - U \in 9..11
    <3> DEFINE i == 12 - (p - U)
    <3>1. i \in 1..4 /\ (p - U) + i = 12 /\ (p - U) + i <= Len(u)
      BY ONLY <1>c, <1>9, <2>3, p \in Nat
    <3>. HIDE DEF i
    <3>2. u[(p - U) + i] = MagicBytes[i]
      BY <1>1, <1>3, <1>9, <1>17, <1>b, <3>1, Zenon
    <3>3. MagicBytes[i] = 0
      BY <1>3, <3>1, <3>2, Zenon
    <3>. QED
      BY <1>7, <3>1, <3>3, Zenon
  <2>. QED
    BY ONLY <2>1, <2>2, <2>3
<1>18. ASSUME T <= p, p < Z PROVE FALSE
  <2>1. p - T \in Nat /\ p - T < 4 * m
    BY ONLY <1>c, <1>9, <1>18, <1>a, p \in Nat
  <2>2. PICK c \in 1..4 : (p - T) + c <= 4 * m /\ s[(p - T) + c] = 0
    BY <1>5, <2>1, Zenon
  <2>a. (p - T) + c <= Len(s)
    BY <1>c, <2>2, Zenon
  <2>b. Holds(f, T, s) /\ s \in Seq(Cell) /\ T \in Nat /\ T <= p
    BY <1>1, <1>3, <1>9, <1>18, Zenon
  <2>3. s[(p - T) + c] = MagicBytes[c]
    BY ONLY <1>b, <2>a, <2>b, c \in 1..4, Zenon
  <2>. QED
    BY <1>7, <2>2, <2>3, Zenon
<1>19. ASSUME Z <= p PROVE FALSE
  <2>1. 1 \in 1..4 /\ (p - Z) + 1 <= Len(Zeros(pad)) /\ (p - Z) + 1 \in 1..pad
    BY ONLY <1>c, <1>8, <1>9, <1>19, p \in Nat
  <2>2. Zeros(pad)[(p - Z) + 1] = MagicBytes[1]
    BY <1>1, <1>3, <1>9, <1>19, <1>b, <2>1, Zenon
  <2>3. Zeros(pad)[(p - Z) + 1] = 0
    BY <1>3, <2>1, Zenon
  <2>4. MagicBytes[1] = 0
    BY <2>2, <2>3, Zenon
  <2>. QED
    BY <1>7, <2>1, <2>4, Zenon
<1>20. p \in U - 4..U - 1
  <2>1. ~(p < A) /\ ~(A <= p /\ p < B) /\ p # B /\ p # B + 1
    BY <1>12, <1>13, <1>14, <1>15, Zenon
  <2>2. ~(S <= p /\ p + 4 < U) /\ ~(U <= p /\ p < T) /\ ~(T <= p /\ p < Z) /\ ~(Z <= p)
    BY <1>16, <1>17, <1>18, <1>19, Zenon
  <2>. QED
    BY ONLY <1>c, <1>9, <1>a, <2>1, <2>2, p \in Nat
<1>21. U = P + 8 + 2 * k + n
  BY ONLY <1>c, <1>a, P \in Nat
<1>22. p \in (P + 8 + 2 * k + n) - 4..(P + 8 + 2 * k + n) - 1
  BY <1>20, <1>21, Zenon
<1>. QED
  BY <1>22, Zenon DEF k, n

\* Every cell of the file belongs to an entry.
LEMMA EntryCovers ==
    ASSUME Inv, NEW p \in Nat, p < Len(file)
    PROVE  \E i \in 1..Len(log) : PosOf(Data, i) <= p /\ p < PosOf(Data, i + 1)
<1> DEFINE Q(i) == PosOf(Data, i)
           S == {i \in 0..maxSN : p < Q(i + 1) => \E j \in 1..i : Q(j) <= p /\ p < Q(j + 1)}
<1>1. DataOK(Data) /\ maxSN \in Nat
  BY ReaderFacts, Zenon
<1>2. /\ Len(log) = maxSN /\ PosOf(Data, 1) = 0 /\ file \in Seq(Cell)
      /\ \A i \in 1..maxSN : EntryOK(Data, i)
  BY <1>1, DataFields, Zenon DEF DataOK
<1>3. ASSUME NEW i \in 1..maxSN PROVE Q(i) \in Nat
  <2>1. i <= maxSN
    BY <1>1
  <2>2. PosOf(Data, i) = log[i].pos
    BY <2>1, DataFields, Zenon DEF PosOf
  <2>. QED
    BY <1>2, <2>2, DataFields, Zenon DEF EntryOK
<1>4. Q(1) = 0 /\ Q(maxSN + 1) = Len(file)
  <2>1. ~(maxSN + 1 <= maxSN)
    BY <1>1
  <2>. QED
    BY <1>2, <2>1, DataFields, Zenon DEF PosOf
<1>. HIDE DEF Q
<1>5. 0 \in S
  <2>1. Q(0 + 1) = 0 /\ 0 \in 0..maxSN
    BY <1>1, <1>4
  <2>2. ~(p < 0)
    OBVIOUS
  <2>. QED
    BY <2>1, <2>2, Zenon
<1>6. ASSUME NEW i \in 1..maxSN, i - 1 \in S PROVE i \in S
  <2>1. (i - 1) + 1 = i /\ i \in 0..maxSN /\ \A j \in 1..i - 1 : j \in 1..i
    BY <1>1
  <2>2. p < Q(i) => \E j \in 1..i - 1 : Q(j) <= p /\ p < Q(j + 1)
    BY <1>6, <2>1, Zenon
  <2>3. p < Q(i) \/ Q(i) <= p
    BY <1>3
  <2>4. i \in 1..i
    BY ONLY i \in 1..maxSN, <1>1
  <2>5. p < Q(i + 1) => \E j \in 1..i : Q(j) <= p /\ p < Q(j + 1)
    BY <2>1, <2>2, <2>3, <2>4, Zenon
  <2>. QED
    BY <2>1, <2>5, Zenon
<1>. HIDE DEF S
<1>7. \A i \in 0..maxSN : i \in S
  BY ONLY <1>1, <1>5, <1>6, SetInduction
<1>8. maxSN \in S
  BY <1>1, <1>7
<1>9. \E j \in 1..maxSN : Q(j) <= p /\ p < Q(j + 1)
  BY <1>4, <1>8, Zenon DEF S
<1>. QED
  BY <1>2, <1>9, Zenon DEF Q

LEMMA InvMagic ==
    ASSUME SmallNumbers, Inv
    PROVE  MagicOnlyAtEntries
<1>1. DataOK(Data) /\ maxSN \in Nat
  BY ReaderFacts, Zenon
<1>2. /\ Len(log) = maxSN /\ file \in Seq(Cell) /\ maxSN \in 0..MaxSN
      /\ \A i \in 1..maxSN : EntryOK(Data, i)
  BY <1>1, DataFields, Zenon DEF DataOK
<1>3. ASSUME NEW p \in 0..Len(file) - 4, HasMagicAt(file, p)
      PROVE  \E i \in 1..Len(log) :
                LET r == log[i]
                    endOfNextKey == NextPos(r.pos) - 12 - 4 * Len(r.list)
                                    - getPaddingSize(LengthAt(r.pos) + 6 + 4 * Len(r.list))
                IN  p = r.pos \/ p \in endOfNextKey - 4..endOfNextKey - 1
  <2>1. p \in Nat /\ p < Len(file) /\ Len(file) \in Nat
    <3>1. Len(file) \in Nat
      BY <1>2, LenNat, Zenon
    <3>. QED
      BY <3>1
  <2>2. PICK i \in 1..Len(log) : PosOf(Data, i) <= p /\ p < PosOf(Data, i + 1)
    BY <2>1, EntryCovers, Zenon
  <2> DEFINE r == log[i]
             e == r.entry
             l == r.list
             P == r.pos
  <2>3. /\ i \in 1..maxSN /\ Good(e, l) /\ P \in Nat /\ EncodedAt(file, P, e, l)
        /\ e.serialNum = i - 1 /\ After(P, e, l) = PosOf(Data, i + 1)
    BY EntryFacts, Zenon
  <2>4. BodyOf(e) \in Bodies \cup {DummyBody} /\ ListOK(l)
    BY <1>2, <2>3, DataFields, Zenon DEF EntryOK
  <2>5. PosOf(Data, i) = P
    <3>1. i <= maxSN
      BY <1>1, <2>3
    <3>. QED
      BY <3>1, DataFields, Zenon DEF PosOf
  <2>6. e.serialNum \in 0..MaxSN - 1
    BY <1>2, <2>3, ConstantFacts
  <2>. HIDE DEF r, e, l, P
  <2>7. P <= p /\ p < After(P, e, l)
    BY <2>2, <2>3, <2>5, Zenon
  <2> DEFINE k == Len(Positions(e))
             n == Len(Strings(e))
             m == Len(l)
             L == EntryLength(e)
             U == P + 8 + 2 * k + n
             end == NextPos(P) - 12 - 4 * m - getPaddingSize(LengthAt(P) + 6 + 4 * m)
  <2>8. /\ k \in Nat /\ n \in Nat /\ m \in Nat /\ L \in Nat /\ L = 2 * k + 2 + n + 12
    BY <2>3, GoodLayout, Zenon
  <2>9. LengthAt(P) = L /\ NumberOfSN(P) = m
    BY <1>2, <2>3, HeaderProp, Zenon
  <2>10. NextPos(P) = P + (L + 4 * m) + 6 + getPaddingSize(L + 4 * m + 6)
    BY <2>9, Zenon DEF NextPos, getNextPos
  <2>11. ASSUME p # P PROVE p \in U - 4..U - 1
    <3>1. P < p
      BY ONLY <2>1, <2>3, <2>7, <2>11
    <3>. QED
      BY <1>2, <2>1, <2>3, <2>4, <2>6, <2>7, <1>3, <3>1, RegionClean, Zenon
  <2>12. end = U
    <3> DEFINE pad == getPaddingSize(L + 4 * m + 6)
    <3>. HIDE DEF k, n, m, L
    <3>1. LengthAt(P) + 6 + 4 * m = L + 4 * m + 6 /\ L + 4 * m + 6 \in Nat
      BY ONLY <2>8, <2>9
    <3>2. pad \in Int
      BY ONLY <3>1 DEF getPaddingSize
    <3>3. P \in Nat
      BY <2>3, Zenon
    <3>4. NextPos(P) = P + (L + 4 * m) + 6 + pad
      BY <2>10, Zenon
    <3>5. NextPos(P) \in Int
      <4>. HIDE DEF pad
      <4>. QED
        BY ONLY <2>8, <3>2, <3>3, <3>4
    <3>6. end = NextPos(P) - 12 - 4 * m - pad
      BY <3>1, Zenon
    <3>. HIDE DEF end, pad
    <3>. QED
      BY ONLY <2>8, <3>2, <3>3, <3>4, <3>5, <3>6
  <2>13. p = P \/ p \in end - 4..end - 1
    <3>. HIDE DEF end, U
    <3>. QED
      BY <2>11, <2>12, Zenon
  <2>. QED
    BY <2>13, Zenon DEF end, m, P, l, r
<1>. QED
  BY <1>3, Zenon DEF MagicOnlyAtEntries

\* As long as heights and serial numbers have less than 48 bits, MagicBytes in the file are
\* the start of an entry, or overlap the end of a NextKey where getAllPos does not look.
THEOREM MagicMarksEntries ==
    ASSUME SmallNumbers
    PROVE  Spec => []MagicOnlyAtEntries
<1>1. Inv => MagicOnlyAtEntries
  BY InvMagic
<1>. QED
  BY <1>1, Invariance, PTL
=============================================================================
