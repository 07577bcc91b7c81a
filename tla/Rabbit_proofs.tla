---------------------------- MODULE Rabbit_proofs ----------------------------
(***************************************************************************)
(* RabbitStore is a map, for every set of keys and every choice of their   *)
(* probe paths.  H[k] is the depth at which a stored key is placed; what   *)
(* the slots hold is related to the map and to H twice, for the open       *)
(* transaction (the slots as the cache shows them, and view) and for the   *)
(* trunk (the slots in it, and committed).                                 *)
(***************************************************************************)
EXTENDS Rabbit, FiniteSetTheorems, NaturalsInduction, WellFoundedInduction, TLAPS

\* Every set of naturals has the minimum that Min takes.
LEMMA MinProp ==
    ASSUME NEW S \in SUBSET Nat, S # {}
    PROVE  Min(S) \in S /\ \A i \in S : Min(S) <= i
<1> DEFINE R == OpToRel(<, Nat)
<1>0. IsWellFoundedOn(R, Nat)
  BY NatLessThanWellFounded
<1>. HIDE DEF R
<1>1. PICK x \in S : \A y \in S : ~ (<<y, x>> \in R)
  BY <1>0, WFMin
<1>2. \A y \in S : ~ (y < x)
  BY <1>1, Zenon DEF OpToRel, R
<1>3. \A y \in S : x <= y
  BY <1>2
<1>. QED
  BY <1>3 DEF Min

-----------------------------------------------------------------------------
(* Slots and maps *)

\* Key k is at depth d of its path, behind slots that hold other keys.
AtHome(g, m, k, d) ==
    /\ g[Path[k][d]] # NoKV
    /\ g[Path[k][d]].key = k /\ ~g[Path[k][d]].isEmpty /\ g[Path[k][d]].obj = m[k]
    /\ \A j \in 1..(d - 1) : g[Path[k][j]] # NoKV /\ g[Path[k][j]].key # k

\* The probes that pass by a slot.
Passing(H, m, s) ==
    {p \in Keys \X (1..MaxFindDepth) : m[p[1]] # NoKV /\ p[2] < H[p[1]] /\ Path[p[1]][p[2]] = s}

\* The slots g hold the map m, with the keys at the depths H: every stored key is at home,
\* every slot that is not empty is some key's home, and the counters are right.
MapOK(g, m, H) ==
    /\ H \in [Keys -> 1..MaxFindDepth]
    /\ \A k \in Keys : m[k] # NoKV => AtHome(g, m, k, H[k])
    /\ \A s \in Slots : g[s] # NoKV =>
          /\ ~g[s].isEmpty => m[g[s].key] # NoKV /\ Path[g[s].key][H[g[s].key]] = s
          /\ g[s].passbyNum = Cardinality(Passing(H, m, s))
          /\ g[s].isEmpty => g[s].passbyNum > 0

IsSlots(g) == g \in [Slots -> CachedValue \cup {NoKV}]

LEMMA PathType ==
    ASSUME NEW k \in Keys, NEW i \in 1..MaxFindDepth
    PROVE  Path[k][i] \in Slots /\ MaxFindDepth \in Nat /\ i \in Nat
BY PathAssumption

LEMMA PassingFinite ==
    ASSUME NEW H, NEW m, NEW s
    PROVE  IsFiniteSet(Passing(H, m, s)) /\ Cardinality(Passing(H, m, s)) \in Nat
<1>1. MaxFindDepth \in Nat /\ IsFiniteSet(Keys)
  BY PathAssumption
<1>2. IsFiniteSet(1..MaxFindDepth)
  BY <1>1, FS_Interval
<1>3. IsFiniteSet(Keys \X (1..MaxFindDepth))
  BY <1>1, <1>2, FS_Product
<1>4. Passing(H, m, s) \in SUBSET (Keys \X (1..MaxFindDepth))
  BY DEF Passing
<1>. QED
  BY <1>3, <1>4, FS_Subset, FS_CardinalityType

LEMMA PassedType ==
    ASSUME NEW k \in Keys, NEW n \in Nat, NEW s
    PROVE  /\ Passed(k, n, s) \in Nat
           /\ (Passed(k, n, s) = 0) <=> (\A i \in 1..(n - 1) : Path[k][i] # s)
<1> DEFINE P == {i \in 1..(n - 1) : Path[k][i] = s}
<1>1. IsFiniteSet(1..(n - 1))
  BY FS_Interval
<1>2. IsFiniteSet(P)
  BY <1>1, FS_Subset
<1>3. Cardinality(P) \in Nat /\ (Cardinality(P) = 0 <=> P = {})
  BY <1>2, FS_CardinalityType, FS_EmptySet
<1>. QED
  BY <1>2, <1>3 DEF Passed

\* A key that is added at depth n passes by a slot as often as the slot is on its way.
LEMMA CountAdd ==
    ASSUME NEW H, NEW m, NEW H2, NEW m2, NEW k \in Keys, NEW n \in 1..MaxFindDepth, NEW s,
           m[k] = NoKV, m2[k] # NoKV, H2[k] = n,
           \A j \in Keys \ {k} : m2[j] = m[j] /\ H2[j] = H[j]
    PROVE  Cardinality(Passing(H2, m2, s)) = Cardinality(Passing(H, m, s)) + Passed(k, n, s)
<1> DEFINE
           P == {i \in 1..(n - 1) : Path[k][i] = s}
           Q == Passing(H, m, s)
           Q2 == Passing(H2, m2, s)
<1>0. MaxFindDepth \in Nat /\ n \in Nat /\ n <= MaxFindDepth
  BY PathAssumption
<1>1. IsFiniteSet(P) /\ IsFiniteSet({k}) /\ Cardinality({k}) = 1 /\ Cardinality(P) \in Nat
  <2>0. IsFiniteSet(1..(n - 1))
    BY <1>0, FS_Interval
  <2>1. IsFiniteSet(P)
    BY <2>0, FS_Subset
  <2>2. IsFiniteSet({k}) /\ Cardinality({k}) = 1
    BY FS_Singleton, Zenon
  <2>. HIDE DEF P
  <2>. QED
    BY <2>1, <2>2, FS_CardinalityType
<1>2. IsFiniteSet({k} \X P) /\ Cardinality({k} \X P) = 1 * Cardinality(P)
  BY <1>1, FS_Product
<1>3. IsFiniteSet(Q) /\ Cardinality(Q) \in Nat
  BY PassingFinite
<1>4. Q \cap ({k} \X P) = {}
  BY DEF Passing
<1>5. Q2 = Q \cup ({k} \X P)
  <2>1. ASSUME NEW p \in Q2 PROVE p \in Q \cup ({k} \X P)
    <3>1. p \in Keys \X (1..MaxFindDepth) /\ m2[p[1]] # NoKV /\ p[2] < H2[p[1]] /\ Path[p[1]][p[2]] = s
      BY DEF Passing
    <3>2. CASE p[1] = k
      <4>1. p[2] \in 1..(n - 1)
        BY <1>0, <3>1, <3>2
      <4>. QED
        BY <3>1, <3>2, <4>1
    <3>3. CASE p[1] # k
      BY <3>1, <3>3 DEF Passing
    <3>. QED
      BY <3>2, <3>3
  <2>2. ASSUME NEW p \in Q PROVE p \in Q2
    BY DEF Passing
  <2>3. ASSUME NEW i \in P PROVE <<k, i>> \in Q2
    BY <1>0 DEF Passing
  <2>. HIDE DEF P, Q, Q2
  <2>4. \A p \in {k} \X P : \E i \in P : p = <<k, i>>
    OBVIOUS
  <2>. QED
    BY <2>1, <2>2, <2>3, <2>4
<1>. HIDE DEF P, Q, Q2
<1>6. Cardinality(Q2) = Cardinality(Q) + Cardinality({k} \X P) - Cardinality(Q \cap ({k} \X P))
  BY <1>2, <1>3, <1>5, FS_Union
<1>7. Cardinality(Q2) = Cardinality(Q) + Cardinality(P)
  <2>1. Cardinality(Q \cap ({k} \X P)) = 0
    BY <1>4, FS_EmptySet, Zenon
  <2>. QED
    BY <1>1, <1>2, <1>3, <1>6, <2>1
<1>. QED
  BY <1>7 DEF P, Q, Q2, Passed

\* A stored key is found at its home, and nowhere before.
LEMMA HomeIsUnique ==
    ASSUME NEW g, NEW m, NEW k \in Keys, NEW d \in 1..MaxFindDepth, NEW n \in 1..MaxFindDepth,
           AtHome(g, m, k, d),
           g[Path[k][n]] = NoKV \/ g[Path[k][n]].key = k,
           \A i \in 1..(n - 1) : g[Path[k][i]] # NoKV /\ g[Path[k][i]].key # k
    PROVE  n = d
<1>1. MaxFindDepth \in Nat /\ d \in Nat /\ n \in Nat
  BY PathAssumption
<1>2. ~(n < d)
  BY <1>1 DEF AtHome
<1>3. ~(d < n)
  BY <1>1 DEF AtHome
<1>. QED
  BY <1>1, <1>2, <1>3

\* The flags of the cache, and the object of an empty slot, do not matter.
LEMMA SameMap ==
    ASSUME NEW g, NEW h, NEW m, NEW H, IsSlots(g), MapOK(g, m, H),
           \A s \in Slots :
              /\ h[s] = NoKV <=> g[s] = NoKV
              /\ g[s] # NoKV => /\ h[s].key = g[s].key /\ h[s].passbyNum = g[s].passbyNum
                                /\ h[s].isEmpty = g[s].isEmpty
                                /\ ~g[s].isEmpty => h[s].obj = g[s].obj
    PROVE  MapOK(h, m, H)
<1>1. H \in [Keys -> 1..MaxFindDepth]
  BY DEF MapOK
<1>2. ASSUME NEW k \in Keys, m[k] # NoKV PROVE AtHome(h, m, k, H[k])
  <2>1. AtHome(g, m, k, H[k])
    BY <1>2 DEF MapOK
  <2>2. \A i \in 1..H[k] : Path[k][i] \in Slots
    BY <1>1, PathAssumption
  <2>3. H[k] \in 1..H[k] /\ \A j \in 1..(H[k] - 1) : j \in 1..H[k]
    BY <1>1, PathAssumption
  <2>. QED
    BY <2>1, <2>2, <2>3 DEF AtHome
<1>3. ASSUME NEW s \in Slots, h[s] # NoKV
      PROVE  /\ ~h[s].isEmpty => m[h[s].key] # NoKV /\ Path[h[s].key][H[h[s].key]] = s
             /\ h[s].passbyNum = Cardinality(Passing(H, m, s))
             /\ h[s].isEmpty => h[s].passbyNum > 0
  BY <1>3 DEF MapOK
<1>. QED
  BY <1>1, <1>2, <1>3 DEF MapOK

\* Changing the object of a stored key.
Changes(g, h, slot, v) ==
    \A s \in Slots :
        /\ h[s] = NoKV <=> g[s] = NoKV
        /\ g[s] # NoKV =>
              /\ h[s].key = g[s].key /\ h[s].passbyNum = g[s].passbyNum
              /\ h[s].isEmpty = g[s].isEmpty
              /\ h[s].obj = IF s = slot THEN v ELSE g[s].obj

LEMMA ChangeMap ==
    ASSUME NEW g, NEW h, NEW m \in [Keys -> Vals \cup {NoKV, Nil}], NEW H, IsSlots(g), MapOK(g, m, H),
           NEW k \in Keys, NEW v, v # NoKV, m[k] # NoKV, Changes(g, h, Path[k][H[k]], v)
    PROVE  MapOK(h, [m EXCEPT ![k] = v], H)
<1> DEFINE m2 == [m EXCEPT ![k] = v]
<1>1. H \in [Keys -> 1..MaxFindDepth]
  BY DEF MapOK
<1>2. \A j \in Keys : (m2[j] # NoKV <=> m[j] # NoKV) /\ m2[j] = IF j = k THEN v ELSE m[j]
  OBVIOUS
<1>. HIDE DEF m2
<1>3. ASSUME NEW j \in Keys, m2[j] # NoKV PROVE AtHome(h, m2, j, H[j])
  <2>1. AtHome(g, m, j, H[j])
    BY <1>2, <1>3 DEF MapOK
  <2>2. \A i \in 1..H[j] : Path[j][i] \in Slots
    BY <1>1, PathAssumption
  <2>3. H[j] \in 1..H[j] /\ \A i \in 1..(H[j] - 1) : i \in 1..H[j]
    BY <1>1, PathAssumption
  <2>4. CASE j = k
    BY <1>2, <2>1, <2>2, <2>3, <2>4 DEF AtHome, Changes
  <2>5. CASE j # k
    <3>1. Path[j][H[j]] # Path[k][H[k]]
      BY <2>1, <2>5 DEF MapOK, AtHome
    <3>. QED
      BY <1>2, <2>1, <2>2, <2>3, <2>5, <3>1 DEF AtHome, Changes
  <2>. QED
    BY <2>4, <2>5
<1>4. \A s : Passing(H, m2, s) = Passing(H, m, s)
  BY <1>2 DEF Passing
<1>5. ASSUME NEW s \in Slots, h[s] # NoKV
      PROVE  /\ ~h[s].isEmpty => m2[h[s].key] # NoKV /\ Path[h[s].key][H[h[s].key]] = s
             /\ h[s].passbyNum = Cardinality(Passing(H, m2, s))
             /\ h[s].isEmpty => h[s].passbyNum > 0
  <2>1. g[s] # NoKV /\ g[s] \in CachedValue /\ g[s].key \in Keys
    BY <1>5 DEF IsSlots, CachedValue, Changes
  <2>. QED
    BY <1>2, <1>4, <1>5, <2>1 DEF MapOK, Changes
<1>. QED
  BY <1>1, <1>3, <1>5 DEF MapOK, m2

\* Storing a key that is not stored, at the end of a search that does not exit early.
SearchEnds(g, k, n) ==
    /\ g[Path[k][n]] = NoKV \/ g[Path[k][n]].key = k
    /\ \A i \in 1..(n - 1) : g[Path[k][i]] # NoKV /\ g[Path[k][i]].key # k
Inserts(g, h, k, n, v) ==
    /\ h[Path[k][n]] # NoKV
    /\ h[Path[k][n]].key = k /\ ~h[Path[k][n]].isEmpty /\ h[Path[k][n]].obj = v
    /\ g[Path[k][n]] = NoKV => h[Path[k][n]].passbyNum = 0
    /\ g[Path[k][n]] # NoKV => h[Path[k][n]].passbyNum = g[Path[k][n]].passbyNum
    /\ \A s \in Slots : s # Path[k][n] =>
          /\ h[s] = NoKV <=> g[s] = NoKV
          /\ g[s] # NoKV =>
                /\ h[s].key = g[s].key /\ h[s].passbyNum = g[s].passbyNum + Passed(k, n, s)
                /\ h[s].isEmpty = g[s].isEmpty /\ h[s].obj = g[s].obj

LEMMA InsertMap ==
    ASSUME NEW g, NEW h, NEW m \in [Keys -> Vals \cup {NoKV, Nil}], NEW H, IsSlots(g), MapOK(g, m, H),
           NEW k \in Keys, NEW v, v # NoKV, m[k] = NoKV, NEW n \in 1..MaxFindDepth,
           SearchEnds(g, k, n), Inserts(g, h, k, n, v)
    PROVE  MapOK(h, [m EXCEPT ![k] = v], [H EXCEPT ![k] = n])
<1> DEFINE m2 == [m EXCEPT ![k] = v]
           H2 == [H EXCEPT ![k] = n]
           slot == Path[k][n]
<1>0. n \in Nat /\ slot \in Slots
  BY PathType
<1>1. H \in [Keys -> 1..MaxFindDepth]
  BY DEF MapOK
<1>2. /\ H2 \in [Keys -> 1..MaxFindDepth] /\ m2[k] = v /\ H2[k] = n
      /\ \A j \in Keys \ {k} : m2[j] = m[j] /\ H2[j] = H[j]
  BY <1>1
<1>. HIDE DEF m2, H2
<1>3. ASSUME NEW s
      PROVE  Cardinality(Passing(H2, m2, s)) = Cardinality(Passing(H, m, s)) + Passed(k, n, s)
  BY <1>2, CountAdd
<1>4. ASSUME NEW j \in Keys, m2[j] # NoKV PROVE AtHome(h, m2, j, H2[j])
  <2>1. CASE j = k
    <3>1. \A i \in 1..(n - 1) : Path[k][i] \in Slots /\ Path[k][i] # slot
      BY <1>0, PathAssumption DEF SearchEnds
    <3>. QED
      BY <1>2, <2>1, <3>1 DEF AtHome, SearchEnds, Inserts
  <2>2. CASE j # k
    <3>1. m[j] # NoKV /\ AtHome(g, m, j, H[j]) /\ m2[j] = m[j] /\ H2[j] = H[j]
      BY <1>2, <1>4, <2>2 DEF MapOK
    <3>2. \A i \in 1..H[j] : Path[j][i] \in Slots
      BY <1>1, PathAssumption
    <3>3. H[j] \in 1..H[j] /\ \A i \in 1..(H[j] - 1) : i \in 1..H[j]
      BY <1>1, PathAssumption
    <3>4. Path[j][H[j]] # slot
      BY <2>2, <3>1 DEF AtHome, SearchEnds
    <3>5. ASSUME NEW i \in 1..(H[j] - 1) PROVE h[Path[j][i]] # NoKV /\ h[Path[j][i]].key # j
      <4>1. g[Path[j][i]] # NoKV /\ g[Path[j][i]].key # j /\ Path[j][i] \in Slots
        BY <3>1, <3>2, <3>3 DEF AtHome
      <4>. QED
        BY <2>2, <4>1 DEF Inserts
    <3>. QED
      BY <3>1, <3>2, <3>3, <3>4, <3>5 DEF AtHome, Inserts
  <2>. QED
    BY <2>1, <2>2
<1>5. ASSUME NEW s \in Slots, h[s] # NoKV
      PROVE  /\ ~h[s].isEmpty => m2[h[s].key] # NoKV /\ Path[h[s].key][H2[h[s].key]] = s
             /\ h[s].passbyNum = Cardinality(Passing(H2, m2, s))
             /\ h[s].isEmpty => h[s].passbyNum > 0
  <2>1. Passed(k, n, s) \in Nat /\ Cardinality(Passing(H, m, s)) \in Nat
    BY <1>0, PassedType, PassingFinite
  <2>2. CASE s = slot
    <3>1. Passed(k, n, s) = 0
      <4>1. \A i \in 1..(n - 1) : Path[k][i] # s
        BY <2>2 DEF SearchEnds
      <4>2. (Passed(k, n, s) = 0) <=> (\A i \in 1..(n - 1) : Path[k][i] # s)
        BY <1>0, PassedType
      <4>. QED
        BY <4>1, <4>2
    <3>2. h[s].passbyNum = Cardinality(Passing(H, m, s))
      <4>1. CASE g[s] # NoKV
        BY <2>2, <4>1 DEF MapOK, Inserts
      <4>2. CASE g[s] = NoKV
        <5>1. ASSUME NEW p \in Passing(H, m, s) PROVE FALSE
          <6>1. p[1] \in Keys /\ m[p[1]] # NoKV /\ p[2] \in 1..(H[p[1]] - 1) /\ Path[p[1]][p[2]] = s
            BY <1>1, PathAssumption DEF Passing
          <6>. QED
            BY <4>2, <6>1 DEF MapOK, AtHome
        <5>2. Passing(H, m, s) = {}
          BY <5>1
        <5>3. Cardinality(Passing(H, m, s)) = 0
          BY <5>2, FS_EmptySet, Zenon
        <5>. QED
          BY <2>2, <4>2, <5>3 DEF Inserts
      <4>. QED
        BY <4>1, <4>2
    <3>3. h[s].passbyNum = Cardinality(Passing(H2, m2, s))
      BY <1>3, <2>1, <3>1, <3>2
    <3>. QED
      BY <1>2, <2>2, <3>3 DEF Inserts
  <2>3. CASE s # slot
    <3>1. g[s] # NoKV /\ g[s] \in CachedValue /\ g[s].key \in Keys
      BY <1>5, <2>3 DEF IsSlots, CachedValue, Inserts
    <3>2. /\ h[s].key = g[s].key /\ h[s].passbyNum = g[s].passbyNum + Passed(k, n, s)
          /\ h[s].isEmpty = g[s].isEmpty
      BY <2>3, <3>1 DEF Inserts
    <3>3. /\ ~g[s].isEmpty => m[g[s].key] # NoKV /\ Path[g[s].key][H[g[s].key]] = s
          /\ g[s].passbyNum = Cardinality(Passing(H, m, s))
          /\ g[s].isEmpty => g[s].passbyNum > 0
      BY <3>1 DEF MapOK
    <3>4. h[s].passbyNum = Cardinality(Passing(H2, m2, s))
      BY <1>3, <3>2, <3>3
    <3>5. h[s].isEmpty => h[s].passbyNum > 0
      BY <2>1, <3>2, <3>3
    <3>6. ~h[s].isEmpty => m2[h[s].key] # NoKV /\ Path[h[s].key][H2[h[s].key]] = s
      BY <1>2, <3>1, <3>2, <3>3
    <3>. QED
      BY <3>4, <3>5, <3>6
  <2>. QED
    BY <2>2, <2>3
<1>. QED
  BY <1>2, <1>4, <1>5 DEF MapOK, m2, H2

\* Deleting a stored key: its slot stays behind if it is passed by, and an empty slot on
\* the way goes if nothing passes by it any more.
Removes(g, h, k, n) ==
    /\ h[Path[k][n]] = NoKV <=> g[Path[k][n]].passbyNum = 0
    /\ h[Path[k][n]] # NoKV =>
          /\ h[Path[k][n]].key = k /\ h[Path[k][n]].isEmpty
          /\ h[Path[k][n]].passbyNum = g[Path[k][n]].passbyNum
    /\ \A s \in Slots : s # Path[k][n] =>
          /\ h[s] = NoKV <=> \/ g[s] = NoKV
                             \/ /\ Passed(k, n, s) > 0
                                /\ g[s].passbyNum = Passed(k, n, s) /\ g[s].isEmpty
          /\ h[s] # NoKV =>
                /\ h[s].key = g[s].key /\ h[s].passbyNum = g[s].passbyNum - Passed(k, n, s)
                /\ h[s].isEmpty = g[s].isEmpty /\ h[s].obj = g[s].obj

LEMMA DeleteMap ==
    ASSUME NEW g, NEW h, NEW m \in [Keys -> Vals \cup {NoKV, Nil}], NEW H, IsSlots(g), MapOK(g, m, H),
           NEW k \in Keys, m[k] # NoKV, NEW n, n = H[k], Removes(g, h, k, n)
    PROVE  MapOK(h, [m EXCEPT ![k] = NoKV], H)
<1> DEFINE m2 == [m EXCEPT ![k] = NoKV]
           slot == Path[k][n]
<1>1. H \in [Keys -> 1..MaxFindDepth] /\ n \in 1..MaxFindDepth
  BY DEF MapOK
<1>0. n \in Nat /\ slot \in Slots
  BY <1>1, PathType
<1>2. m2 \in [Keys -> Vals \cup {NoKV, Nil}] /\ m2[k] = NoKV /\ \A j \in Keys \ {k} : m2[j] = m[j]
  OBVIOUS
<1>3. ASSUME NEW s
      PROVE  Cardinality(Passing(H, m, s)) = Cardinality(Passing(H, m2, s)) + Passed(k, n, s)
  <2>1. \A j \in Keys \ {k} : m[j] = m2[j] /\ H[j] = H[j]
    BY <1>2
  <2>. HIDE DEF m2
  <2>. QED
    BY <1>1, <1>2, <2>1, CountAdd
<1>. HIDE DEF m2
<1>4. ASSUME NEW s \in Slots, g[s] # NoKV
      PROVE  /\ g[s] \in CachedValue /\ g[s].key \in Keys /\ g[s].isEmpty \in BOOLEAN
             /\ g[s].passbyNum = Cardinality(Passing(H, m2, s)) + Passed(k, n, s)
             /\ Passed(k, n, s) \in Nat /\ Cardinality(Passing(H, m2, s)) \in Nat
             /\ ~g[s].isEmpty => m[g[s].key] # NoKV /\ Path[g[s].key][H[g[s].key]] = s
             /\ g[s].isEmpty => g[s].passbyNum > 0
  <2>1. g[s] \in CachedValue /\ g[s].key \in Keys /\ g[s].isEmpty \in BOOLEAN
    BY <1>4 DEF IsSlots, CachedValue
  <2>2. Passed(k, n, s) \in Nat /\ Cardinality(Passing(H, m2, s)) \in Nat
    BY <1>0, PassedType, PassingFinite
  <2>. QED
    BY <1>3, <1>4, <2>1, <2>2 DEF MapOK
<1>5. AtHome(g, m, k, n)
  BY DEF MapOK
<1>6. ASSUME NEW j \in Keys, m2[j] # NoKV PROVE AtHome(h, m2, j, H[j])
  <2>1. j # k /\ m[j] # NoKV /\ AtHome(g, m, j, H[j]) /\ m2[j] = m[j]
    BY <1>2, <1>6 DEF MapOK
  <2>2. \A i \in 1..H[j] : Path[j][i] \in Slots
    BY <1>1, PathAssumption
  <2>3. H[j] \in 1..H[j] /\ \A i \in 1..(H[j] - 1) : i \in 1..H[j]
    BY <1>1, PathAssumption
  <2>4. Path[j][H[j]] # slot
    BY <1>5, <2>1 DEF AtHome
  <2>5. /\ h[Path[j][H[j]]] # NoKV /\ h[Path[j][H[j]]].key = j
        /\ ~h[Path[j][H[j]]].isEmpty /\ h[Path[j][H[j]]].obj = m2[j]
    BY <2>1, <2>2, <2>3, <2>4 DEF AtHome, Removes
  <2>6. ASSUME NEW i \in 1..(H[j] - 1) PROVE h[Path[j][i]] # NoKV /\ h[Path[j][i]].key # j
    <3> DEFINE s == Path[j][i]
    <3>1. s \in Slots /\ g[s] # NoKV /\ g[s].key # j
      BY <2>1, <2>2, <2>3 DEF AtHome
    <3>2. <<j, i>> \in Passing(H, m2, s)
      BY <1>1, <1>6, PathAssumption DEF Passing
    <3>. HIDE DEF s
    <3>3. Cardinality(Passing(H, m2, s)) # 0
      <4>1. Passing(H, m2, s) # {} /\ IsFiniteSet(Passing(H, m2, s))
        BY <3>2, PassingFinite
      <4>. QED
        BY <4>1, FS_EmptySet
    <3>4. g[s].passbyNum # Passed(k, n, s) /\ g[s].passbyNum # 0
      BY <1>4, <3>1, <3>3
    <3>5. ASSUME s = slot PROVE h[s] # NoKV /\ h[s].key # j
      BY <2>1, <3>4, <3>5 DEF Removes
    <3>6. ASSUME s # slot PROVE h[s] # NoKV /\ h[s].key # j
      BY <3>1, <3>4, <3>6 DEF Removes
    <3>. QED
      BY <3>5, <3>6 DEF s
  <2>. QED
    BY <2>5, <2>6 DEF AtHome
<1>7. ASSUME NEW s \in Slots, h[s] # NoKV
      PROVE  /\ ~h[s].isEmpty => m2[h[s].key] # NoKV /\ Path[h[s].key][H[h[s].key]] = s
             /\ h[s].passbyNum = Cardinality(Passing(H, m2, s))
             /\ h[s].isEmpty => h[s].passbyNum > 0
  <2>1. CASE s = slot
    <3>1. Passed(k, n, s) = 0
      <4>1. \A i \in 1..(n - 1) : Path[k][i] # s
        BY <1>5, <2>1 DEF AtHome
      <4>. QED
        BY <1>0, <4>1, PassedType
    <3>2. g[s] # NoKV /\ h[s].isEmpty /\ h[s].passbyNum = g[s].passbyNum /\ g[s].passbyNum # 0
      BY <1>5, <1>7, <2>1 DEF AtHome, Removes
    <3>. QED
      BY <1>4, <3>1, <3>2
  <2>2. CASE s # slot
    <3>1. /\ g[s] # NoKV /\ h[s].key = g[s].key /\ h[s].passbyNum = g[s].passbyNum - Passed(k, n, s)
          /\ h[s].isEmpty = g[s].isEmpty
          /\ ~(Passed(k, n, s) > 0 /\ g[s].passbyNum = Passed(k, n, s) /\ g[s].isEmpty)
      BY <1>7, <2>2 DEF Removes
    <3>2. h[s].passbyNum = Cardinality(Passing(H, m2, s))
      BY <1>4, <3>1
    <3>3. ASSUME h[s].isEmpty PROVE h[s].passbyNum > 0
      <4>1. g[s].isEmpty /\ g[s].passbyNum > 0
        BY <1>4, <3>1, <3>3
      <4>. QED
        BY <1>4, <3>1, <3>2, <4>1
    <3>4. ASSUME ~h[s].isEmpty PROVE m2[h[s].key] # NoKV /\ Path[h[s].key][H[h[s].key]] = s
      <4>1. g[s].key # k
        BY <1>4, <2>2, <3>1, <3>4
      <4>. QED
        BY <1>2, <1>4, <3>1, <3>4, <4>1
    <3>. QED
      BY <3>2, <3>3, <3>4
  <2>. QED
    BY <2>1, <2>2
<1>. QED
  BY <1>1, <1>6, <1>7 DEF MapOK, m2

\* A stored key is counted wherever it passes by.
LEMMA CountBound ==
    ASSUME NEW g, NEW m \in [Keys -> Vals \cup {NoKV, Nil}], NEW H, MapOK(g, m, H),
           NEW k \in Keys, m[k] # NoKV, NEW n, n = H[k], NEW s \in Slots, g[s] # NoKV
    PROVE  g[s].passbyNum >= Passed(k, n, s)
<1> DEFINE m2 == [m EXCEPT ![k] = NoKV]
<1>1. H \in [Keys -> 1..MaxFindDepth] /\ n \in 1..MaxFindDepth
  BY DEF MapOK
<1>2. m2 \in [Keys -> Vals \cup {NoKV, Nil}] /\ m2[k] = NoKV /\ \A j \in Keys \ {k} : m2[j] = m[j]
  OBVIOUS
<1>3. Cardinality(Passing(H, m, s)) = Cardinality(Passing(H, m2, s)) + Passed(k, n, s)
  <2>1. \A j \in Keys \ {k} : m[j] = m2[j] /\ H[j] = H[j]
    BY <1>2
  <2>. HIDE DEF m2
  <2>. QED
    BY <1>1, <1>2, <2>1, CountAdd
<1>. HIDE DEF m2
<1>4. Passed(k, n, s) \in Nat /\ Cardinality(Passing(H, m2, s)) \in Nat
  BY <1>1, PathType, PassedType, PassingFinite
<1>5. g[s].passbyNum = Cardinality(Passing(H, m, s))
  BY DEF MapOK
<1>. QED
  BY <1>3, <1>4, <1>5

-----------------------------------------------------------------------------
(* The inductive invariant *)

\* The slots in the trunk, and the slots as the cache c shows them on top of it.
TrunkSlots == [s \in Slots |-> IF trunk[s] = NoKV THEN NoKV ELSE BytesToCachedValue(trunk[s])]
Shown(c) == [s \in Slots |-> IF c[s] = NoKV THEN TrunkSlots[s]
                             ELSE IF c[s].isDeleted THEN NoKV ELSE c[s]]

TrunkOK == \A s \in Slots : trunk[s] # NoKV /\ ~trunk[s].isEmpty => trunk[s].value \in Vals

\* A cached slot that is not dirty is the one in the trunk, but for an object moved out.
CacheOK(c) ==
    \A s \in Slots : c[s] # NoKV /\ ~c[s].isDirty =>
        /\ ~c[s].isDeleted /\ TrunkSlots[s] # NoKV
        /\ c[s].key = TrunkSlots[s].key /\ c[s].passbyNum = TrunkSlots[s].passbyNum
        /\ c[s].isEmpty = TrunkSlots[s].isEmpty
        /\ c[s].obj \in {Nil, TrunkSlots[s].obj}

Prepared(c, u, d) ==
    \A s \in Slots : c[s] # NoKV /\ c[s].isDirty => IF c[s].isDeleted THEN s \in d ELSE s \in u

RabbitInv ==
    /\ TypeOK /\ TrunkOK
    /\ CacheOK(cache)
    /\ Prepared(cache, prepU, prepD)
    /\ \E H : MapOK(Shown(cache), view, H)
    /\ \E H : MapOK(TrunkSlots, committed, H)

LEMMA TrunkSlotsType ==
    ASSUME TypeOK, TrunkOK
    PROVE  /\ IsSlots(TrunkSlots)
           /\ \A s \in Slots : TrunkSlots[s] # NoKV =>
                 /\ ~TrunkSlots[s].isDeleted /\ ~TrunkSlots[s].isDirty
                 /\ ~TrunkSlots[s].isEmpty => TrunkSlots[s].obj \in Vals
<1>. SUFFICES ASSUME NEW s \in Slots
              PROVE  /\ TrunkSlots[s] \in CachedValue \cup {NoKV}
                     /\ TrunkSlots[s] # NoKV =>
                           /\ ~TrunkSlots[s].isDeleted /\ ~TrunkSlots[s].isDirty
                           /\ ~TrunkSlots[s].isEmpty => TrunkSlots[s].obj \in Vals
  BY DEF IsSlots, TrunkSlots
<1>1. CASE trunk[s] = NoKV
  BY <1>1 DEF TrunkSlots
<1>2. CASE trunk[s] # NoKV
  <2>1. TrunkSlots[s] = BytesToCachedValue(trunk[s])
    BY <1>2 DEF TrunkSlots
  <2>2. trunk[s] \in Bytes /\ (~trunk[s].isEmpty => trunk[s].value \in Vals)
    BY <1>2 DEF TypeOK, TrunkOK
  <2>. QED
    BY <2>1, <2>2 DEF BytesToCachedValue, Bytes, CachedValue
<1>. QED
  BY <1>1, <1>2

LEMMA ShownType ==
    ASSUME TypeOK, TrunkOK, NEW c \in [Slots -> CachedValue \cup {NoKV}]
    PROVE  /\ IsSlots(Shown(c))
           /\ \A s \in Slots :
                 /\ c[s] = NoKV => Shown(c)[s] = TrunkSlots[s]
                 /\ c[s] # NoKV /\ c[s].isDeleted => Shown(c)[s] = NoKV
                 /\ c[s] # NoKV /\ ~c[s].isDeleted => Shown(c)[s] = c[s]
                 /\ Shown(c)[s] # NoKV => ~Shown(c)[s].isDeleted
<1>1. IsSlots(TrunkSlots) /\ \A s \in Slots : TrunkSlots[s] # NoKV => ~TrunkSlots[s].isDeleted
  BY TrunkSlotsType
<1>2. \A s \in Slots : Shown(c)[s] = IF c[s] = NoKV THEN TrunkSlots[s]
                                     ELSE IF c[s].isDeleted THEN NoKV ELSE c[s]
  BY DEF Shown
<1>3. \A s \in Slots : Shown(c)[s] \in CachedValue \cup {NoKV}
  BY <1>1, <1>2 DEF IsSlots
<1>4. IsSlots(Shown(c))
  BY <1>3 DEF IsSlots, Shown
<1>. QED
  BY <1>1, <1>2, <1>4

\* GetCachedValue reads the slots as the cache shows them.
LEMMA GetsShown ==
    ASSUME NEW s \in Slots
    PROVE  GetCachedValue(s) = Shown(cache)[s]
<1>1. CASE cache[s] # NoKV
  BY <1>1 DEF GetCachedValue, Shown
<1>2. CASE cache[s] = NoKV /\ trunk[s] # NoKV
  BY <1>2 DEF GetCachedValue, Shown, TrunkSlots
<1>3. CASE cache[s] = NoKV /\ trunk[s] = NoKV
  BY <1>3 DEF GetCachedValue, Shown, TrunkSlots
<1>. QED
  BY <1>1, <1>2, <1>3

-----------------------------------------------------------------------------
(* Searching *)

LEMMA StopsIs ==
    ASSUME NEW k \in Keys, NEW i \in 1..MaxFindDepth, NEW e
    PROVE  FindStops(k, i, e) <=> LET cv == Shown(cache)[Path[k][i]]
                                  IN  cv = NoKV \/ cv.key = k \/ (e /\ cv.passbyNum = 0)
<1>1. GetCachedValue(Path[k][i]) = Shown(cache)[Path[k][i]]
  BY PathType, GetsShown
<1>. QED
  BY <1>1 DEF FindStops

\* The search ends at the first slot that stops it.
LEMMA FindFacts ==
    ASSUME NEW k \in Keys, NEW e, ~FindPanics(k, e)
    PROVE  /\ FindDepth(k, e) \in 1..MaxFindDepth
           /\ FindStops(k, FindDepth(k, e), e)
           /\ \A i \in 1..(FindDepth(k, e) - 1) : ~FindStops(k, i, e)
<1> DEFINE S == {i \in 1..MaxFindDepth : FindStops(k, i, e)}
<1>1. S # {} /\ S \in SUBSET Nat /\ MaxFindDepth \in Nat
  BY PathAssumption DEF FindPanics
<1>2. Min(S) \in S /\ \A i \in S : Min(S) <= i
  BY <1>1, MinProp
<1>3. FindDepth(k, e) = Min(S)
  BY DEF FindDepth
<1> DEFINE n == Min(S)
<1>4. n \in 1..MaxFindDepth /\ FindStops(k, n, e)
  BY <1>2
<1>5. ASSUME NEW i \in 1..(n - 1) PROVE ~FindStops(k, i, e)
  <2>1. i \in 1..MaxFindDepth /\ ~(n <= i)
    BY <1>1, <1>4
  <2>. QED
    BY <1>2, <2>1
<1>. QED
  BY <1>3, <1>4, <1>5

\* A stored key is found at its home, with or without early exit.
LEMMA FindsStored ==
    ASSUME NEW H, MapOK(Shown(cache), view, H), NEW k \in Keys, view[k] # NoKV, NEW e \in BOOLEAN
    PROVE  ~FindPanics(k, e) /\ FindDepth(k, e) = H[k] /\ FindStatus(k, e) = "Exists"
<1> DEFINE g == Shown(cache)
           d == H[k]
<1>1. d \in 1..MaxFindDepth /\ AtHome(g, view, k, d) /\ MaxFindDepth \in Nat /\ H \in [Keys -> 1..MaxFindDepth]
  BY PathAssumption DEF MapOK
<1>. HIDE DEF g
<1>2. FindStops(k, d, e)
  BY <1>1, StopsIs DEF AtHome, g
<1>3. ASSUME NEW i \in 1..(d - 1) PROVE ~FindStops(k, i, e)
  <2> DEFINE s == Path[k][i]
  <2>1. i \in 1..MaxFindDepth /\ s \in Slots /\ g[s] # NoKV /\ g[s].key # k
    BY <1>1, PathType DEF AtHome
  <2>2. <<k, i>> \in Passing(H, view, s)
    BY <1>1, <2>1 DEF Passing
  <2>. HIDE DEF s
  <2>3. g[s].passbyNum = Cardinality(Passing(H, view, s))
    BY <2>1 DEF MapOK, g
  <2>4. IsFiniteSet(Passing(H, view, s)) /\ Passing(H, view, s) # {}
    BY <2>2, PassingFinite
  <2>5. g[s].passbyNum # 0
    BY <2>3, <2>4, FS_EmptySet
  <2>. QED
    BY <2>1, <2>5, StopsIs DEF g, s
<1>4. ~FindPanics(k, e)
  BY <1>1, <1>2 DEF FindPanics
<1> DEFINE n == FindDepth(k, e)
<1>5. n \in 1..MaxFindDepth /\ FindStops(k, n, e) /\ \A i \in 1..(n - 1) : ~FindStops(k, i, e)
  BY <1>4, FindFacts
<1>. HIDE DEF n, d
<1>6. ~(n < d) /\ ~(d < n)
  BY <1>1, <1>2, <1>3, <1>5
<1>7. n = d
  BY <1>1, <1>5, <1>6
<1>8. FindStatus(k, e) = "Exists"
  <2>1. FindSlot(k, e) = Path[k][d] /\ Path[k][d] \in Slots
    BY <1>1, <1>7, PathType DEF FindSlot, n
  <2>2. GetCachedValue(FindSlot(k, e)) = g[Path[k][d]]
    BY <2>1, GetsShown DEF g
  <2>. QED
    BY <1>1, <2>2 DEF FindStatus, AtHome
<1>. QED
  BY <1>4, <1>7, <1>8 DEF n, d

\* Only a stored key is found.
LEMMA FindsOnlyStored ==
    ASSUME NEW H, MapOK(Shown(cache), view, H), NEW k \in Keys, NEW e, ~FindPanics(k, e),
           FindStatus(k, e) = "Exists"
    PROVE  view[k] # NoKV
<1> DEFINE s == FindSlot(k, e)
<1>1. s \in Slots
  BY FindFacts, PathType DEF FindSlot
<1>2. GetCachedValue(s) = Shown(cache)[s]
  BY <1>1, GetsShown
<1>3. Shown(cache)[s] # NoKV /\ Shown(cache)[s].key = k /\ ~Shown(cache)[s].isEmpty
  BY <1>2 DEF FindStatus
<1>. QED
  BY <1>1, <1>3 DEF MapOK

\* Probing finds exactly the stored keys: FindsTheMap follows from the invariant.
LEMMA InvFinds == RabbitInv => FindsTheMap
<1>. SUFFICES ASSUME RabbitInv, NEW k \in Keys
              PROVE  IF ~FindPanics(k, TRUE) /\ FindStatus(k, TRUE) = "Exists"
                     THEN view[k] = GetCachedValue(FindSlot(k, TRUE)).obj
                     ELSE view[k] = NoKV
  BY DEF FindsTheMap
<1>1. PICK H : MapOK(Shown(cache), view, H)
  BY DEF RabbitInv
<1>2. CASE view[k] = NoKV
  BY <1>1, <1>2, FindsOnlyStored
<1>3. CASE view[k] # NoKV
  <2>1. ~FindPanics(k, TRUE) /\ FindDepth(k, TRUE) = H[k] /\ FindStatus(k, TRUE) = "Exists"
    BY <1>1, <1>3, FindsStored
  <2>2. AtHome(Shown(cache), view, k, H[k]) /\ H[k] \in 1..MaxFindDepth
    BY <1>1, <1>3 DEF MapOK
  <2>3. FindSlot(k, TRUE) = Path[k][H[k]] /\ Path[k][H[k]] \in Slots
    BY <2>1, <2>2, PathType DEF FindSlot
  <2>4. GetCachedValue(FindSlot(k, TRUE)) = Shown(cache)[Path[k][H[k]]]
    BY <2>3, GetsShown
  <2>. QED
    BY <2>1, <2>2, <2>4 DEF AtHome
<1>. QED
  BY <1>2, <1>3

\* The counters are those of the searches: PassbyCounts follows from the invariant.
LEMMA InvCounts == RabbitInv => PassbyCounts
<1>. SUFFICES ASSUME RabbitInv PROVE PassbyCounts
  OBVIOUS
<1>1. PICK H : MapOK(Shown(cache), view, H)
  BY DEF RabbitInv
<1>2. ASSUME NEW s \in Slots, GetCachedValue(s) # NoKV
      PROVE  /\ GetCachedValue(s).passbyNum =
                   Cardinality({p \in Keys \X (1..MaxFindDepth) : PassesBy(p[1], p[2], s)})
             /\ GetCachedValue(s).isEmpty => GetCachedValue(s).passbyNum > 0
  <2>1. GetCachedValue(s) = Shown(cache)[s]
    BY GetsShown
  <2>2. ASSUME NEW p \in Keys \X (1..MaxFindDepth)
        PROVE  PassesBy(p[1], p[2], s) <=>
                  (view[p[1]] # NoKV /\ p[2] < H[p[1]] /\ Path[p[1]][p[2]] = s)
    <3>1. p[1] \in Keys
      OBVIOUS
    <3>2. CASE view[p[1]] = NoKV
      BY <3>2 DEF PassesBy
    <3>3. CASE view[p[1]] # NoKV
      <4>1. ~FindPanics(p[1], TRUE) /\ FindDepth(p[1], TRUE) = H[p[1]]
        BY <1>1, <3>1, <3>3, FindsStored
      <4>. QED
        BY <3>3, <4>1 DEF PassesBy
    <3>. QED
      BY <3>2, <3>3
  <2>3. {p \in Keys \X (1..MaxFindDepth) : PassesBy(p[1], p[2], s)} = Passing(H, view, s)
    BY <2>2 DEF Passing
  <2>. QED
    BY <1>1, <1>2, <2>1, <2>3 DEF MapOK
<1>. QED
  BY <1>2 DEF RabbitInv, PassbyCounts

-----------------------------------------------------------------------------
(* The cache *)

\* What a slot shows depends on its own cache entry only.
LEMMA ShownPointwise ==
    ASSUME NEW c, NEW d, NEW s \in Slots, c[s] = d[s]
    PROVE  Shown(c)[s] = Shown(d)[s]
BY DEF Shown

\* A search only brings slots of the trunk into the cache, and afterwards the slots on
\* its way are there.
IsFilled(f, k, n) ==
    /\ f \in [Slots -> CachedValue \cup {NoKV}] /\ CacheOK(f) /\ Shown(f) = Shown(cache)
    /\ \A s \in Slots : f[s] # NoKV /\ f[s].isDirty => f[s] = cache[s]
    /\ \A i \in 1..n : Shown(cache)[Path[k][i]] # NoKV => f[Path[k][i]] = Shown(cache)[Path[k][i]]

LEMMA FilledOK ==
    ASSUME TypeOK, TrunkOK, CacheOK(cache), NEW k \in Keys, NEW e, ~FindPanics(k, e)
    PROVE  IsFilled(Filled(k, e), k, FindDepth(k, e))
<1> DEFINE c == Filled(k, e)
           n == FindDepth(k, e)
<1>0. cache \in [Slots -> CachedValue \cup {NoKV}]
  BY DEF TypeOK
<1>1. /\ IsSlots(TrunkSlots)
      /\ \A s \in Slots : TrunkSlots[s] # NoKV => ~TrunkSlots[s].isDeleted /\ ~TrunkSlots[s].isDirty
  BY TrunkSlotsType
<1>2. /\ \A s \in Slots :
            /\ cache[s] = NoKV => Shown(cache)[s] = TrunkSlots[s]
            /\ cache[s] # NoKV /\ cache[s].isDeleted => Shown(cache)[s] = NoKV
            /\ cache[s] # NoKV /\ ~cache[s].isDeleted => Shown(cache)[s] = cache[s]
  BY <1>0, ShownType
<1>3. \A s \in Slots : c[s] = IF cache[s] = NoKV /\ \E i \in 1..n : Path[k][i] = s
                             THEN TrunkSlots[s] ELSE cache[s]
  BY <1>2, GetsShown DEF Filled
<1>4. c = [s \in Slots |-> c[s]]
  BY DEF Filled
<1>5. n \in 1..MaxFindDepth /\ MaxFindDepth \in Nat
  BY FindFacts, PathAssumption
<1>6. \A i \in 1..n : Path[k][i] \in Slots
  BY <1>5, PathAssumption
<1>. HIDE DEF c, n
<1>7. \A s \in Slots : c[s] \in CachedValue \cup {NoKV}
  BY <1>0, <1>1, <1>3 DEF IsSlots
<1>8. c \in [Slots -> CachedValue \cup {NoKV}]
  BY <1>4, <1>7
<1>9. CacheOK(c)
  <2>1. ASSUME NEW s \in Slots, c[s] # NoKV, ~c[s].isDirty
        PROVE  /\ ~c[s].isDeleted /\ TrunkSlots[s] # NoKV
               /\ c[s].key = TrunkSlots[s].key /\ c[s].passbyNum = TrunkSlots[s].passbyNum
               /\ c[s].isEmpty = TrunkSlots[s].isEmpty
               /\ c[s].obj \in {Nil, TrunkSlots[s].obj}
    <3>1. CASE c[s] = cache[s]
      BY <2>1, <3>1 DEF CacheOK
    <3>2. CASE c[s] = TrunkSlots[s]
      BY <1>1, <2>1, <3>2
    <3>. QED
      BY <1>3, <3>1, <3>2
  <2>. QED
    BY <2>1 DEF CacheOK
<1>10. Shown(c) = Shown(cache)
  <2>1. ASSUME NEW s \in Slots PROVE Shown(c)[s] = Shown(cache)[s]
    <3>1. CASE c[s] = cache[s]
      BY <3>1, ShownPointwise
    <3>2. CASE c[s] = TrunkSlots[s] /\ cache[s] = NoKV
      <4>1. Shown(c)[s] = IF c[s] = NoKV THEN TrunkSlots[s] ELSE IF c[s].isDeleted THEN NoKV ELSE c[s]
        BY DEF Shown
      <4>. QED
        BY <1>1, <1>2, <3>2, <4>1
    <3>. QED
      BY <1>3, <3>1, <3>2
  <2>. QED
    BY <2>1 DEF Shown
<1>11. \A s \in Slots : c[s] # NoKV /\ c[s].isDirty => c[s] = cache[s]
  BY <1>1, <1>3
<1>12. \A i \in 1..n : Shown(cache)[Path[k][i]] # NoKV => c[Path[k][i]] = Shown(cache)[Path[k][i]]
  BY <1>2, <1>3, <1>6
<1>. QED
  BY <1>8, <1>9, <1>10, <1>11, <1>12 DEF c, n, IsFilled

\* A step of a transaction leaves the trunk alone.
LEMMA KeepsInv ==
    ASSUME RabbitInv, UNCHANGED <<trunk, committed>>, NEW c \in [Slots -> CachedValue \cup {NoKV}],
           cache' = c, CacheOK(c), Prepared(c, prepU', prepD'),
           prepU' \subseteq Slots, prepD' \subseteq Slots,
           view' \in [Keys -> Vals \cup {NoKV, Nil}], NEW H, MapOK(Shown(c), view', H)
    PROVE  RabbitInv'
<1>1. TypeOK' /\ TrunkOK'
  BY DEF RabbitInv, TypeOK, TrunkOK
<1>2. TrunkSlots' = TrunkSlots
  BY DEF TrunkSlots
<1>3. CacheOK(cache)' /\ Prepared(cache, prepU, prepD)'
  BY <1>2 DEF CacheOK, Prepared
<1>4. Shown(cache)' = Shown(c)
  BY <1>2 DEF Shown
<1>5. MapOK(Shown(cache), view, H)'
  BY <1>4 DEF MapOK, AtHome, Passing
<1>6. (\E F : MapOK(TrunkSlots, committed, F))'
  <2>1. PICK F : MapOK(TrunkSlots, committed, F)
    BY DEF RabbitInv
  <2>2. MapOK(TrunkSlots, committed, F)'
    BY <1>2, <2>1 DEF MapOK, AtHome, Passing
  <2>. QED
    BY <2>2
<1>. QED
  BY <1>1, <1>3, <1>5, <1>6 DEF RabbitInv

\* SetCachedValue prepares what it makes dirty.
LEMMA Prepares ==
    ASSUME TypeOK, Prepared(cache, prepU, prepD), NEW c \in [Slots -> CachedValue \cup {NoKV}],
           NEW T \in SUBSET Slots, SetCachedValues(c, T), \A s \in T : c[s] # NoKV,
           \A s \in Slots \ T : c[s] # NoKV /\ c[s].isDirty => c[s] = cache[s]
    PROVE  /\ cache' \in [Slots -> CachedValue \cup {NoKV}]
           /\ Prepared(cache', prepU', prepD')
           /\ prepU' \subseteq Slots /\ prepD' \subseteq Slots
           /\ \A s \in T : /\ cache'[s] # NoKV /\ cache'[s].isDirty
                           /\ cache'[s].passbyNum = c[s].passbyNum /\ cache'[s].key = c[s].key
                           /\ cache'[s].obj = c[s].obj /\ cache'[s].isEmpty = c[s].isEmpty
                           /\ cache'[s].isDeleted = c[s].isDeleted
           /\ \A s \in Slots \ T : cache'[s] = c[s]
<1>1. /\ cache' = [s \in Slots |-> IF s \in T THEN [c[s] EXCEPT !.isDirty = TRUE] ELSE c[s]]
      /\ prepD' = prepD \cup {s \in T : c[s].isDeleted}
      /\ prepU' = prepU \cup {s \in T : ~c[s].isDeleted}
  BY DEF SetCachedValues
<1>2. ASSUME NEW s \in T
      PROVE  /\ cache'[s] \in CachedValue /\ cache'[s] # NoKV /\ cache'[s].isDirty
             /\ cache'[s].passbyNum = c[s].passbyNum /\ cache'[s].key = c[s].key
             /\ cache'[s].obj = c[s].obj /\ cache'[s].isEmpty = c[s].isEmpty
             /\ cache'[s].isDeleted = c[s].isDeleted
  <2>1. c[s] \in CachedValue /\ cache'[s] = [c[s] EXCEPT !.isDirty = TRUE]
    BY <1>1
  <2>. QED
    BY <2>1, AbsenceAssumption DEF CachedValue
<1>3. \A s \in Slots \ T : cache'[s] = c[s]
  BY <1>1
<1>4. cache' \in [Slots -> CachedValue \cup {NoKV}]
  <2>1. \A s \in Slots : cache'[s] \in CachedValue \cup {NoKV}
    BY <1>2, <1>3
  <2>2. cache' = [s \in Slots |-> cache'[s]]
    BY <1>1
  <2>. QED
    BY <2>1, <2>2
<1>5. Prepared(cache', prepU', prepD')
  <2>1. ASSUME NEW s \in Slots, cache'[s] # NoKV, cache'[s].isDirty
        PROVE  IF cache'[s].isDeleted THEN s \in prepD' ELSE s \in prepU'
    <3>1. CASE s \in T
      BY <1>1, <1>2, <3>1
    <3>2. CASE s \notin T
      <4>1. cache'[s] = cache[s]
        BY <1>3, <2>1, <3>2
      <4>. QED
        BY <1>1, <2>1, <4>1 DEF Prepared
    <3>. QED
      BY <3>1, <3>2
  <2>. QED
    BY <2>1 DEF Prepared
<1>6. prepU' \subseteq Slots /\ prepD' \subseteq Slots
  BY <1>1 DEF TypeOK
<1>. QED
  BY <1>2, <1>3, <1>4, <1>5, <1>6

-----------------------------------------------------------------------------
(* The steps *)

\* A cache whose dirty entries and flags are those of the present one needs no preparation.
LEMMA StillPrepared ==
    ASSUME Prepared(cache, prepU, prepD), NEW c, UNCHANGED <<prepU, prepD>>,
           \A s \in Slots : c[s] # NoKV /\ c[s].isDirty =>
              cache[s] # NoKV /\ cache[s].isDirty /\ c[s].isDeleted = cache[s].isDeleted
    PROVE  Prepared(c, prepU', prepD')
BY DEF Prepared

LEMMA SearchStep ==
    ASSUME RabbitInv, NEW k \in Keys, NEW e, ~FindPanics(k, e), cache' = Filled(k, e),
           UNCHANGED <<trunk, prepU, prepD, committed, view>>
    PROVE  RabbitInv'
<1> DEFINE c == Filled(k, e)
<1>1. /\ TypeOK /\ TrunkOK /\ CacheOK(cache) /\ Prepared(cache, prepU, prepD)
      /\ prepU \subseteq Slots /\ prepD \subseteq Slots
      /\ view \in [Keys -> Vals \cup {NoKV, Nil}]
  BY DEF RabbitInv, TypeOK
<1>2. PICK H : MapOK(Shown(cache), view, H)
  BY DEF RabbitInv
<1>3. /\ c \in [Slots -> CachedValue \cup {NoKV}] /\ CacheOK(c) /\ Shown(c) = Shown(cache)
      /\ \A s \in Slots : c[s] # NoKV /\ c[s].isDirty => c[s] = cache[s]
  BY <1>1, FilledOK DEF IsFilled
<1>. HIDE DEF c
<1>4. Prepared(c, prepU', prepD')
  BY <1>1, <1>3, StillPrepared
<1>5. MapOK(Shown(c), view', H)
  BY <1>2, <1>3
<1>6. cache' = c
  BY DEF c
<1>. QED
  BY <1>1, <1>3, <1>4, <1>5, <1>6, KeepsInv

LEMMA GetObjStep ==
    ASSUME RabbitInv, NEW k \in Keys, GetObj(k)
    PROVE  RabbitInv'
<1> DEFINE f == Filled(k, TRUE)
           g == Shown(cache)
           n == FindDepth(k, TRUE)
           slot == FindSlot(k, TRUE)
           c == [f EXCEPT ![slot].obj = Nil]
<1>0. /\ ~FindPanics(k, TRUE) /\ FindStatus(k, TRUE) = "Exists" /\ cache' = c
      /\ view' = [view EXCEPT ![k] = Nil] /\ UNCHANGED <<trunk, prepU, prepD, committed>>
  BY DEF GetObj
<1>1. /\ TypeOK /\ TrunkOK /\ CacheOK(cache) /\ Prepared(cache, prepU, prepD)
      /\ prepU \subseteq Slots /\ prepD \subseteq Slots
      /\ view \in [Keys -> Vals \cup {NoKV, Nil}]
      /\ cache \in [Slots -> CachedValue \cup {NoKV}]
  BY DEF RabbitInv, TypeOK
<1>2. PICK H : MapOK(g, view, H)
  BY DEF RabbitInv
<1>3. /\ f \in [Slots -> CachedValue \cup {NoKV}] /\ CacheOK(f) /\ Shown(f) = g
      /\ \A s \in Slots : f[s] # NoKV /\ f[s].isDirty => f[s] = cache[s]
      /\ \A i \in 1..n : g[Path[k][i]] # NoKV => f[Path[k][i]] = g[Path[k][i]]
  <2>1. ~FindPanics(k, TRUE) /\ TypeOK /\ TrunkOK /\ CacheOK(cache)
    BY <1>0, <1>1
  <2>2. IsFilled(Filled(k, TRUE), k, FindDepth(k, TRUE))
    BY <2>1, FilledOK
  <2>. QED
    BY <2>2 DEF IsFilled
<1>4. view[k] # NoKV
  BY <1>0, <1>2, FindsOnlyStored
<1>5. n = H[k] /\ n \in 1..MaxFindDepth /\ MaxFindDepth \in Nat
  BY <1>0, <1>2, <1>4, FindsStored, FindFacts, PathAssumption
<1>6. slot = Path[k][H[k]] /\ slot \in Slots /\ n \in 1..n
  <2>1. n \in 1..n
    <3>. HIDE DEF n
    <3>. QED
      BY <1>5
  <2>2. Path[k][n] \in Slots /\ slot = Path[k][n]
    BY <1>5, PathType DEF FindSlot
  <2>. QED
    BY <1>5, <2>1, <2>2
<1>7. g[slot] # NoKV /\ IsSlots(g) /\ ~g[slot].isDeleted
  <2>1. g[slot] # NoKV
    BY <1>2, <1>4, <1>6 DEF MapOK, AtHome
  <2>. QED
    BY <1>1, <1>6, <2>1, ShownType
<1>8. f[slot] = g[slot] /\ f[slot] \in CachedValue
  BY <1>3, <1>5, <1>6, <1>7
<1>. HIDE DEF f, g, n, slot
<1>9. /\ c = [s \in Slots |-> c[s]] /\ c[slot] = [f[slot] EXCEPT !.obj = Nil]
      /\ \A s \in Slots \ {slot} : c[s] = f[s]
  BY <1>3, <1>6
<1>. HIDE DEF c
<1>10. /\ c[slot] \in CachedValue /\ c[slot] # NoKV /\ c[slot].obj = Nil
       /\ c[slot].key = f[slot].key /\ c[slot].passbyNum = f[slot].passbyNum
       /\ c[slot].isEmpty = f[slot].isEmpty /\ c[slot].isDeleted = f[slot].isDeleted
       /\ c[slot].isDirty = f[slot].isDirty /\ f[slot] # NoKV
  BY <1>8, <1>9, AbsenceAssumption DEF CachedValue
<1>11. c \in [Slots -> CachedValue \cup {NoKV}]
  <2>1. \A s \in Slots : c[s] \in CachedValue \cup {NoKV}
    BY <1>3, <1>9, <1>10
  <2>. QED
    BY <1>9, <2>1
<1>12. CacheOK(c)
  <2>1. ASSUME NEW s \in Slots, c[s] # NoKV, ~c[s].isDirty
        PROVE  /\ ~c[s].isDeleted /\ TrunkSlots[s] # NoKV
               /\ c[s].key = TrunkSlots[s].key /\ c[s].passbyNum = TrunkSlots[s].passbyNum
               /\ c[s].isEmpty = TrunkSlots[s].isEmpty
               /\ c[s].obj \in {Nil, TrunkSlots[s].obj}
    <3>1. CASE s = slot
      BY <1>3, <1>10, <2>1, <3>1 DEF CacheOK
    <3>2. CASE s # slot
      BY <1>3, <1>9, <2>1, <3>2 DEF CacheOK
    <3>. QED
      BY <3>1, <3>2
  <2>. QED
    BY <2>1 DEF CacheOK
<1>13. Prepared(c, prepU', prepD')
  <2>1. \A s \in Slots : c[s] # NoKV /\ c[s].isDirty =>
           cache[s] # NoKV /\ cache[s].isDirty /\ c[s].isDeleted = cache[s].isDeleted
    BY <1>3, <1>6, <1>9, <1>10
  <2>. QED
    BY <1>0, <1>1, <2>1, StillPrepared
<1>14. MapOK(Shown(c), view', H)
  <2>1. Shown(c)[slot] = c[slot]
    BY <1>1, <1>6, <1>7, <1>8, <1>10, <1>11, ShownType
  <2>2. \A s \in Slots \ {slot} : Shown(c)[s] = g[s]
    BY <1>3, <1>9, ShownPointwise
  <2> DEFINE h == Shown(c)
  <2>. HIDE DEF h
  <2>3. Changes(g, h, Path[k][H[k]], Nil)
    BY <1>6, <1>7, <1>8, <1>10, <2>1, <2>2 DEF h, Changes
  <2>4. Nil # NoKV
    BY AbsenceAssumption
  <2>5. MapOK(h, [view EXCEPT ![k] = Nil], H)
    <3>1. view \in [Keys -> Vals \cup {NoKV, Nil}] /\ IsSlots(g)
      BY <1>1, <1>7
    <3>. QED
      BY <1>2, <1>4, <2>3, <2>4, <3>1, ChangeMap
  <2>. QED
    BY <1>0, <2>5 DEF h
<1>15. view' \in [Keys -> Vals \cup {NoKV, Nil}]
  BY <1>0, <1>1
<1>. QED
  BY <1>0, <1>1, <1>11, <1>12, <1>13, <1>14, <1>15, KeepsInv

\* The way of a search, and its end when it does not exit early.
Searched(g, k, n, slot) ==
    /\ n \in 1..MaxFindDepth /\ n \in 1..n /\ n \in Nat
    /\ slot = Path[k][n]
    /\ \A i \in 1..n : Path[k][i] \in Slots
    /\ \A i \in 1..(n - 1) : i \in 1..n /\ g[Path[k][i]] # NoKV /\ g[Path[k][i]].key # k

LEMMA SearchFacts ==
    ASSUME NEW k \in Keys, NEW e \in BOOLEAN, ~FindPanics(k, e), NEW n, n = FindDepth(k, e)
    PROVE  /\ Searched(Shown(cache), k, n, FindSlot(k, e))
           /\ ~e => SearchEnds(Shown(cache), k, n)
<1>1. n \in 1..MaxFindDepth /\ FindStops(k, n, e) /\ \A i \in 1..(n - 1) : ~FindStops(k, i, e)
  BY FindFacts
<1>2. MaxFindDepth \in Nat /\ n \in Nat /\ n \in 1..n /\ \A i \in 1..n : i \in 1..MaxFindDepth
  BY <1>1, PathAssumption
<1>3. \A i \in 1..(n - 1) : i \in 1..n
  BY <1>2
<1>4. \A i \in 1..n : Path[k][i] \in Slots
  BY <1>2, PathType
<1>5. \A i \in 1..(n - 1) : Shown(cache)[Path[k][i]] # NoKV /\ Shown(cache)[Path[k][i]].key # k
  BY <1>1, <1>2, <1>3, StopsIs
<1>6. ASSUME ~e PROVE SearchEnds(Shown(cache), k, n)
  <2>1. Shown(cache)[Path[k][n]] = NoKV \/ Shown(cache)[Path[k][n]].key = k
    BY <1>1, <1>6, StopsIs
  <2>. QED
    BY <1>5, <2>1 DEF SearchEnds
<1>. QED
  BY <1>1, <1>2, <1>3, <1>4, <1>5, <1>6 DEF FindSlot, Searched

\* The status of a search, by the slot at its end.
LEMMA StatusIs ==
    ASSUME NEW k \in Keys, NEW e \in BOOLEAN, FindSlot(k, e) \in Slots,
           NEW cv, cv = Shown(cache)[FindSlot(k, e)]
    PROVE  /\ FindStatus(k, e) = "NotFount" <=> (cv = NoKV \/ cv.key # k)
           /\ FindStatus(k, e) = "Exists" <=> (cv # NoKV /\ cv.key = k /\ ~cv.isEmpty)
<1>1. GetCachedValue(FindSlot(k, e)) = cv
  BY GetsShown
<1>. QED
  BY <1>1 DEF FindStatus

\* What setHelper makes of the slots f that its search has filled in: slot gets the object,
\* and the slots in passby are passed by once more for every time they are on the way.
Placed(f, g, c, k, v, n, slot, passby) ==
    /\ c = [s \in Slots |-> c[s]]
    /\ c[slot] \in CachedValue /\ c[slot].key = k /\ c[slot].obj = v
    /\ ~c[slot].isEmpty /\ ~c[slot].isDeleted
    /\ g[slot] = NoKV => c[slot].passbyNum = 0
    /\ g[slot] # NoKV => c[slot].passbyNum = g[slot].passbyNum
    /\ \A s \in passby : /\ c[s] \in CachedValue /\ c[s].key = g[s].key /\ c[s].obj = g[s].obj
                         /\ c[s].isEmpty = g[s].isEmpty /\ ~c[s].isDeleted
                         /\ c[s].passbyNum = g[s].passbyNum + Passed(k, n, s)
    /\ \A s \in Slots \ ({slot} \cup passby) : c[s] = f[s]

SetSlots(f, k, v, n, slot, status, passby) ==
    [s \in Slots |->
        CASE s = slot /\ status = "NotFount" ->
                 [passbyNum |-> 0, key |-> k, obj |-> v, isEmpty |-> FALSE,
                  isDeleted |-> FALSE, isDirty |-> TRUE]
          [] s = slot /\ status # "NotFount" -> [f[s] EXCEPT !.obj = v, !.isEmpty = FALSE]
          [] s \in passby \ {slot} -> [f[s] EXCEPT !.passbyNum = @ + Passed(k, n, s)]
          [] OTHER -> f[s]]

SetOutcome(f, g, c, k, v, n, slot, status, passby) ==
    /\ Placed(f, g, c, k, v, n, slot, passby)
    /\ slot = Path[k][n] /\ n \in 1..MaxFindDepth /\ slot \in Slots
    /\ passby \subseteq Slots \ {slot} /\ \A s \in passby : g[s] # NoKV
    /\ SearchEnds(g, k, n)
    /\ status = "Exists" => passby = {}
    /\ status # "Exists" => \A s \in Slots \ passby : Passed(k, n, s) = 0

LEMMA SetPlaces ==
    ASSUME RabbitInv, NEW k \in Keys, NEW v \in Vals, ~FindPanics(k, FALSE)
    PROVE  LET n == FindDepth(k, FALSE)
               slot == FindSlot(k, FALSE)
               status == FindStatus(k, FALSE)
               f == Filled(k, FALSE)
               passby == PassedBy(k, n, status)
               c == SetSlots(f, k, v, n, slot, status, passby)
           IN  SetOutcome(f, Shown(cache), c, k, v, n, slot, status, passby)
<1> DEFINE n == FindDepth(k, FALSE)
           slot == FindSlot(k, FALSE)
           status == FindStatus(k, FALSE)
           f == Filled(k, FALSE)
           passby == PassedBy(k, n, status)
           c == SetSlots(f, k, v, n, slot, status, passby)
<1>0. /\ n = FindDepth(k, FALSE) /\ slot = FindSlot(k, FALSE) /\ status = FindStatus(k, FALSE)
      /\ f = Filled(k, FALSE) /\ passby = PassedBy(k, n, status)
      /\ c = SetSlots(f, k, v, n, slot, status, passby)
  OBVIOUS
<1>. SUFFICES SetOutcome(f, Shown(cache), c, k, v, n, slot, status, passby)
  OBVIOUS
<1>. HIDE DEF n, slot, status, f, passby, c
<1>. USE <1>0
<1> DEFINE g == Shown(cache)
<1>1. /\ n \in 1..MaxFindDepth /\ n \in 1..n /\ n \in Nat /\ slot = Path[k][n]
      /\ \A i \in 1..n : Path[k][i] \in Slots
      /\ \A i \in 1..(n - 1) : i \in 1..n /\ g[Path[k][i]] # NoKV /\ g[Path[k][i]].key # k
      /\ SearchEnds(g, k, n)
  <2>1. Searched(Shown(cache), k, n, FindSlot(k, FALSE)) /\ SearchEnds(Shown(cache), k, n)
    BY SearchFacts
  <2>. QED
    BY <2>1 DEF Searched
<1>2. IsFilled(f, k, n)
  BY FilledOK DEF RabbitInv
<1>3. /\ f \in [Slots -> CachedValue \cup {NoKV}]
      /\ \A i \in 1..n : g[Path[k][i]] # NoKV => f[Path[k][i]] = g[Path[k][i]]
  BY <1>2 DEF IsFilled
<1>4. IsSlots(g) /\ \A s \in Slots : g[s] # NoKV => ~g[s].isDeleted
  <2>1. TypeOK /\ TrunkOK /\ cache \in [Slots -> CachedValue \cup {NoKV}]
    BY DEF RabbitInv, TypeOK
  <2>. QED
    BY <2>1, ShownType
<1>5. slot \in Slots /\ (g[slot] = NoKV \/ g[slot].key = k)
  BY <1>1 DEF SearchEnds
<1>6. status = "NotFount" <=> g[slot] = NoKV
  BY <1>5, StatusIs
<1>7. passby \subseteq {Path[k][i] : i \in 1..(n - 1)}
  BY DEF PassedBy
<1>. HIDE DEF g
<1>8. ASSUME NEW s \in passby
      PROVE  s \in Slots /\ s # slot /\ g[s] # NoKV /\ f[s] = g[s] /\ g[s] \in CachedValue
  <2>1. PICK i \in 1..(n - 1) : s = Path[k][i]
    BY <1>7
  <2>2. s \in Slots /\ g[s] # NoKV /\ g[s].key # k /\ f[s] = g[s]
    BY <1>1, <1>3, <2>1
  <2>. QED
    BY <1>4, <1>5, <2>2 DEF IsSlots
<1>9. ASSUME g[slot] = NoKV
      PROVE  c[slot] = [passbyNum |-> 0, key |-> k, obj |-> v, isEmpty |-> FALSE,
                        isDeleted |-> FALSE, isDirty |-> TRUE]
  BY <1>5, <1>6, <1>9 DEF SetSlots
<1>10. ASSUME g[slot] # NoKV
       PROVE  c[slot] = [g[slot] EXCEPT !.obj = v, !.isEmpty = FALSE] /\ g[slot] \in CachedValue
  <2>1. f[slot] = g[slot] /\ status # "NotFount"
    BY <1>1, <1>3, <1>6, <1>10
  <2>. QED
    BY <1>4, <1>5, <1>10, <2>1 DEF IsSlots, SetSlots
<1>11. \A s \in passby : c[s] = [g[s] EXCEPT !.passbyNum = @ + Passed(k, n, s)]
  BY <1>8 DEF SetSlots
<1>12. \A s \in Slots \ ({slot} \cup passby) : c[s] = f[s]
  BY DEF SetSlots
<1>13. c = [s \in Slots |-> c[s]]
  BY DEF SetSlots
<1>14. /\ c[slot] \in CachedValue /\ c[slot].key = k /\ c[slot].obj = v
       /\ ~c[slot].isEmpty /\ ~c[slot].isDeleted
       /\ g[slot] = NoKV => c[slot].passbyNum = 0
       /\ g[slot] # NoKV => c[slot].passbyNum = g[slot].passbyNum
  <2>1. CASE g[slot] = NoKV
    <3> DEFINE x == c[slot]
    <3>1. x = [passbyNum |-> 0, key |-> k, obj |-> v, isEmpty |-> FALSE,
               isDeleted |-> FALSE, isDirty |-> TRUE]
      BY <1>9, <2>1
    <3>. HIDE DEF x
    <3>2. x.key = k /\ x.obj = v /\ x.isEmpty = FALSE /\ x.isDeleted = FALSE /\ x.passbyNum = 0
      BY <3>1
    <3>3. x \in CachedValue
      BY <3>1 DEF CachedValue
    <3>. QED
      BY <2>1, <3>2, <3>3 DEF x
  <2>2. CASE g[slot] # NoKV
    <3>1. g[slot].key = k /\ ~g[slot].isDeleted
      BY <1>4, <1>5, <2>2
    <3>. QED
      BY <1>10, <2>2, <3>1 DEF CachedValue
  <2>. QED
    BY <2>1, <2>2
<1>15. ASSUME NEW s \in passby
       PROVE  /\ c[s] \in CachedValue /\ c[s].key = g[s].key /\ c[s].obj = g[s].obj
              /\ c[s].isEmpty = g[s].isEmpty /\ ~c[s].isDeleted
              /\ c[s].passbyNum = g[s].passbyNum + Passed(k, n, s)
  <2>1. Passed(k, n, s) \in Nat
    BY <1>1, PassedType
  <2>2. g[s] \in CachedValue /\ ~g[s].isDeleted /\ c[s] = [g[s] EXCEPT !.passbyNum = @ + Passed(k, n, s)]
    BY <1>4, <1>8, <1>11
  <2>. QED
    <3> DEFINE x == c[s]
               cv == g[s]
               d == Passed(k, n, s)
    <3>0. x = [cv EXCEPT !.passbyNum = @ + d] /\ cv \in CachedValue /\ d \in Nat /\ ~cv.isDeleted
      BY <2>1, <2>2
    <3>. HIDE DEF x, cv, d
    <3>1. cv.passbyNum \in Nat /\ cv.passbyNum + d \in Nat
      BY <3>0 DEF CachedValue
    <3>2. x.passbyNum = cv.passbyNum + d
      BY <3>0 DEF CachedValue
    <3>3. x \in CachedValue
      BY <3>0, <3>1 DEF CachedValue
    <3>4. x.key = cv.key /\ x.obj = cv.obj /\ x.isEmpty = cv.isEmpty /\ x.isDeleted = cv.isDeleted
      BY <3>0 DEF CachedValue
    <3>. QED
      BY <3>0, <3>2, <3>3, <3>4 DEF x, cv, d
<1>16. Placed(f, g, c, k, v, n, slot, passby)
  BY <1>12, <1>13, <1>14, <1>15 DEF Placed
<1>17. status = "Exists" => passby = {}
  BY DEF PassedBy
<1>18. ASSUME status # "Exists", NEW s \in Slots \ passby PROVE Passed(k, n, s) = 0
  <2>1. \A i \in 1..(n - 1) : Path[k][i] # s
    BY <1>18 DEF PassedBy
  <2>. QED
    BY <1>1, <2>1, PassedType
<1>. QED
  BY <1>1, <1>5, <1>8, <1>16, <1>17, <1>18 DEF g, SetOutcome

\* A cache that has slots set on top of a filled one.
LEMMA SetCacheOK ==
    ASSUME NEW f, NEW d, CacheOK(f), NEW T, \A s \in T : d[s].isDirty, \A s \in Slots \ T : d[s] = f[s]
    PROVE  CacheOK(d)
<1>1. ASSUME NEW s \in Slots, d[s] # NoKV, ~d[s].isDirty PROVE d[s] = f[s]
  BY <1>1
<1>. QED
  BY <1>1 DEF CacheOK

LEMMA SetStep ==
    ASSUME RabbitInv, NEW k \in Keys, NEW v \in Vals, setHelper(k, v)
    PROVE  RabbitInv'
<1> DEFINE g == Shown(cache)
           n == FindDepth(k, FALSE)
           slot == FindSlot(k, FALSE)
           status == FindStatus(k, FALSE)
           f == Filled(k, FALSE)
           passby == PassedBy(k, n, status)
           c == SetSlots(f, k, v, n, slot, status, passby)
           T == {slot} \cup passby
           d == cache'
<1>0. /\ ~FindPanics(k, FALSE) /\ SetCachedValues(c, T)
      /\ view' = [view EXCEPT ![k] = v] /\ UNCHANGED <<trunk, committed>>
  BY DEF setHelper, SetSlots
<1>1. /\ TypeOK /\ TrunkOK /\ CacheOK(cache) /\ Prepared(cache, prepU, prepD)
      /\ view \in [Keys -> Vals \cup {NoKV, Nil}]
      /\ cache \in [Slots -> CachedValue \cup {NoKV}]
  BY DEF RabbitInv, TypeOK
<1>2. PICK H : MapOK(g, view, H)
  BY DEF RabbitInv
<1>3. IsFilled(f, k, n)
  BY <1>0, <1>1, FilledOK
<1>4. /\ Placed(f, g, c, k, v, n, slot, passby)
      /\ slot = Path[k][n] /\ n \in 1..MaxFindDepth /\ slot \in Slots
      /\ passby \subseteq Slots \ {slot} /\ \A s \in passby : g[s] # NoKV
      /\ SearchEnds(g, k, n)
      /\ status = "Exists" => passby = {}
      /\ status # "Exists" =>
            \A s \in Slots \ passby : Passed(k, n, s) = 0
  <2>1. SetOutcome(f, g, c, k, v, n, slot, status, passby)
    BY <1>0, SetPlaces
  <2>. QED
    BY <2>1 DEF SetOutcome
<1>5. view[k] # NoKV => n = H[k] /\ status = "Exists"
  BY <1>2, FindsStored
<1>6. status = "Exists" => view[k] # NoKV
  BY <1>0, <1>2, FindsOnlyStored
<1>. HIDE DEF g, n, slot, status, f, passby, c
<1>7. /\ f \in [Slots -> CachedValue \cup {NoKV}] /\ CacheOK(f) /\ Shown(f) = g
      /\ \A s \in Slots : f[s] # NoKV /\ f[s].isDirty => f[s] = cache[s]
  BY <1>3 DEF IsFilled, g
<1>8. /\ c \in [Slots -> CachedValue \cup {NoKV}] /\ T \in SUBSET Slots
      /\ \A s \in T : c[s] \in CachedValue /\ c[s] # NoKV
      /\ \A s \in Slots \ T : c[s] = f[s]
  <2>1. T \in SUBSET Slots
    BY <1>4
  <2>2. \A s \in T : c[s] \in CachedValue
    BY <1>4 DEF Placed
  <2>3. \A s \in Slots \ T : c[s] = f[s]
    BY <1>4 DEF Placed
  <2>4. c = [s \in Slots |-> c[s]]
    BY <1>4 DEF Placed
  <2>. HIDE DEF T
  <2>5. \A s \in Slots : c[s] \in CachedValue \cup {NoKV}
    BY <1>7, <2>2, <2>3
  <2>6. c \in [Slots -> CachedValue \cup {NoKV}]
    BY <2>4, <2>5
  <2>. QED
    BY <2>1, <2>2, <2>3, <2>6, AbsenceAssumption
<1>. HIDE DEF T, d
<1>9. /\ d \in [Slots -> CachedValue \cup {NoKV}] /\ Prepared(d, prepU', prepD')
      /\ prepU' \subseteq Slots /\ prepD' \subseteq Slots
      /\ \A s \in T : /\ d[s] # NoKV /\ d[s].isDirty
                      /\ d[s].passbyNum = c[s].passbyNum /\ d[s].key = c[s].key
                      /\ d[s].obj = c[s].obj /\ d[s].isEmpty = c[s].isEmpty
                      /\ d[s].isDeleted = c[s].isDeleted
      /\ \A s \in Slots \ T : d[s] = c[s]
  <2>1. \A s \in Slots \ T : c[s] # NoKV /\ c[s].isDirty => c[s] = cache[s]
    BY <1>7, <1>8
  <2>2. \A s \in T : c[s] # NoKV
    BY <1>8
  <2>. QED
    BY <1>0, <1>1, <1>8, <2>1, <2>2, Prepares DEF d
<1>10. CacheOK(d)
  <2>1. \A s \in Slots \ T : d[s] = f[s]
    BY <1>8, <1>9
  <2>. QED
    <3>1. CacheOK(f) /\ \A s \in T : d[s].isDirty
      BY <1>7, <1>9
    <3>. QED
      BY <2>1, <3>1, SetCacheOK
<1> DEFINE h == Shown(d)
<1>11. \A s \in Slots \ T : h[s] = g[s]
  BY <1>7, <1>8, <1>9, ShownPointwise
<1>12. \A s \in T : h[s] = d[s] /\ h[s] # NoKV
  <2>1. \A s \in T : s \in Slots /\ ~d[s].isDeleted
    BY <1>4, <1>8, <1>9 DEF T, Placed
  <2>2. \A s \in Slots : d[s] # NoKV /\ ~d[s].isDeleted => h[s] = d[s]
    BY <1>1, <1>9, ShownType
  <2>. QED
    BY <1>9, <2>1, <2>2
<1>. HIDE DEF h
<1>13. v # NoKV /\ v \in Vals \cup {NoKV, Nil} /\ IsSlots(g)
  BY <1>1, ShownType, AbsenceAssumption DEF g
<1>14. /\ slot \in T /\ h[slot].key = k /\ h[slot].obj = v /\ ~h[slot].isEmpty
       /\ g[slot] = NoKV => h[slot].passbyNum = 0
       /\ g[slot] # NoKV => h[slot].passbyNum = g[slot].passbyNum
  BY <1>4, <1>9, <1>12 DEF T, Placed
<1>15. \E F : MapOK(h, view', F)
  <2>1. CASE view[k] # NoKV
    <3>1. T = {slot} /\ slot = Path[k][H[k]]
      BY <1>4, <1>5, <2>1 DEF T
    <3>2. g[slot] # NoKV /\ g[slot].key = k /\ ~g[slot].isEmpty
      BY <1>2, <2>1, <3>1 DEF MapOK, AtHome
    <3>3. Changes(g, h, slot, v)
      <4>1. h[slot] # NoKV /\ h[slot].passbyNum = g[slot].passbyNum
        BY <1>12, <1>14, <3>2
      <4>2. h[slot].isEmpty = g[slot].isEmpty
        <5>1. h[slot] \in CachedValue /\ g[slot] \in CachedValue
          BY <1>4, <1>9, <1>12, <1>13, <1>14, <3>2 DEF IsSlots
        <5>2. {h[slot].isEmpty, g[slot].isEmpty} \subseteq BOOLEAN
          BY <5>1 DEF CachedValue
        <5>. QED
          BY <1>14, <3>2, <5>2
      <4>3. \A s \in Slots : s # slot => h[s] = g[s]
        BY <1>11, <3>1
      <4>. QED
        BY <1>14, <3>2, <4>1, <4>2, <4>3 DEF Changes
    <3>4. MapOK(h, [view EXCEPT ![k] = v], H)
      BY <1>1, <1>2, <1>13, <2>1, <3>1, <3>3, ChangeMap
    <3>. QED
      BY <1>0, <3>4
  <2>2. CASE view[k] = NoKV
    <3>1. status # "Exists"
      BY <1>6, <2>2
    <3>2. ASSUME NEW s \in Slots, s # slot
          PROVE  /\ h[s] = NoKV <=> g[s] = NoKV
                 /\ g[s] # NoKV =>
                      /\ h[s].key = g[s].key /\ h[s].passbyNum = g[s].passbyNum + Passed(k, n, s)
                      /\ h[s].isEmpty = g[s].isEmpty /\ h[s].obj = g[s].obj
      <4>1. CASE s \in passby
        BY <1>4, <1>9, <1>12, <4>1 DEF T, Placed
      <4>2. CASE s \notin passby
        <5>1. h[s] = g[s] /\ Passed(k, n, s) = 0
          BY <1>4, <1>11, <3>1, <3>2, <4>2 DEF T
        <5>2. g[s] # NoKV => g[s].passbyNum \in Nat
          BY <1>13 DEF IsSlots, CachedValue
        <5>. QED
          BY <5>1, <5>2
      <4>. QED
        BY <4>1, <4>2
    <3>3. Inserts(g, h, k, n, v)
      BY <1>4, <1>12, <1>14, <3>2 DEF Inserts
    <3>4. MapOK(h, [view EXCEPT ![k] = v], [H EXCEPT ![k] = n])
      BY <1>1, <1>2, <1>4, <1>13, <2>2, <3>3, InsertMap
    <3>. QED
      BY <1>0, <3>4
  <2>. QED
    BY <2>1, <2>2
<1>16. view' \in [Keys -> Vals \cup {NoKV, Nil}]
  BY <1>0, <1>1, <1>13
<1>17. PICK F : MapOK(Shown(d), view', F)
  BY <1>15 DEF h
<1>. QED
  BY <1>0, <1>9, <1>10, <1>16, <1>17, KeepsInv DEF d


\* What Delete makes of the slots f that its search has filled in.
DelSlots(f, k, n, slot, passby) ==
    [s \in Slots |->
        CASE s = slot -> DeletedSlot(f[s])
          [] s \in passby \ {slot} -> PassedLess(f[s], Passed(k, n, s))
          [] OTHER -> f[s]]

Taken(f, g, c, k, n, slot, passby) ==
    /\ c = [s \in Slots |-> c[s]]
    /\ c[slot] \in CachedValue /\ c[slot].key = k /\ c[slot].passbyNum = g[slot].passbyNum
    /\ c[slot].isDeleted <=> g[slot].passbyNum = 0
    /\ ~c[slot].isDeleted => c[slot].isEmpty
    /\ \A s \in passby : /\ c[s] \in CachedValue /\ c[s].key = g[s].key /\ c[s].obj = g[s].obj
                         /\ c[s].isEmpty = g[s].isEmpty
                         /\ c[s].isDeleted <=> g[s].passbyNum = Passed(k, n, s) /\ g[s].isEmpty
                         /\ c[s].passbyNum = g[s].passbyNum - Passed(k, n, s)
    /\ \A s \in Slots \ ({slot} \cup passby) : c[s] = f[s]

DelOutcome(f, g, c, k, n, slot, passby) ==
    /\ Taken(f, g, c, k, n, slot, passby)
    /\ slot = Path[k][n] /\ slot \in Slots
    /\ passby \subseteq Slots \ {slot}
    /\ \A s \in passby : g[s] # NoKV /\ Passed(k, n, s) > 0
    /\ \A s \in Slots \ passby : Passed(k, n, s) = 0

LEMMA DeleteTakes ==
    ASSUME RabbitInv, NEW k \in Keys, NEW H, MapOK(Shown(cache), view, H), view[k] # NoKV
    PROVE  LET n == FindDepth(k, TRUE)
               slot == FindSlot(k, TRUE)
               f == Filled(k, TRUE)
               passby == {Path[k][i] : i \in 1..(n - 1)}
           IN  DelOutcome(f, Shown(cache), DelSlots(f, k, n, slot, passby), k, n, slot, passby)
<1> DEFINE n == FindDepth(k, TRUE)
           slot == FindSlot(k, TRUE)
           f == Filled(k, TRUE)
           passby == {Path[k][i] : i \in 1..(n - 1)}
           c == DelSlots(f, k, n, slot, passby)
           g == Shown(cache)
<1>. SUFFICES DelOutcome(f, g, c, k, n, slot, passby)
  OBVIOUS
<1>0. ~FindPanics(k, TRUE) /\ n = H[k]
  BY FindsStored
<1>1. /\ n \in 1..MaxFindDepth /\ n \in 1..n /\ n \in Nat /\ slot = Path[k][n]
      /\ \A i \in 1..n : Path[k][i] \in Slots
      /\ \A i \in 1..(n - 1) : i \in 1..n /\ g[Path[k][i]] # NoKV /\ g[Path[k][i]].key # k
  <2>1. Searched(Shown(cache), k, n, FindSlot(k, TRUE))
    BY <1>0, SearchFacts
  <2>. QED
    BY <2>1 DEF Searched
<1>2. IsFilled(f, k, n)
  BY <1>0, FilledOK DEF RabbitInv
<1>3. /\ f \in [Slots -> CachedValue \cup {NoKV}]
      /\ \A i \in 1..n : g[Path[k][i]] # NoKV => f[Path[k][i]] = g[Path[k][i]]
  BY <1>2 DEF IsFilled
<1>4. IsSlots(g) /\ \A s \in Slots : g[s] # NoKV => ~g[s].isDeleted
  <2>1. TypeOK /\ TrunkOK /\ cache \in [Slots -> CachedValue \cup {NoKV}]
    BY DEF RabbitInv, TypeOK
  <2>. QED
    BY <2>1, ShownType
<1>5. MapOK(g, view, H) /\ view \in [Keys -> Vals \cup {NoKV, Nil}]
  BY DEF RabbitInv, TypeOK
<1>6. passby = {Path[k][i] : i \in 1..(n - 1)} /\ c = DelSlots(f, k, n, slot, passby)
  OBVIOUS
<1>. HIDE DEF n, slot, f, passby, c, g
<1>7. slot \in Slots /\ g[slot] # NoKV /\ g[slot].key = k /\ ~g[slot].isEmpty
  BY <1>0, <1>1, <1>5 DEF MapOK, AtHome
<1>8. f[slot] = g[slot] /\ g[slot] \in CachedValue
  BY <1>1, <1>3, <1>4, <1>7 DEF IsSlots
<1>9. ASSUME NEW s \in passby
      PROVE  /\ s \in Slots /\ s # slot /\ g[s] # NoKV /\ f[s] = g[s] /\ g[s] \in CachedValue
             /\ Passed(k, n, s) \in Nat /\ Passed(k, n, s) > 0
             /\ g[s].passbyNum >= Passed(k, n, s)
  <2>1. PICK i \in 1..(n - 1) : s = Path[k][i]
    BY <1>6
  <2>2. s \in Slots /\ g[s] # NoKV /\ g[s].key # k /\ f[s] = g[s]
    BY <1>1, <1>3, <2>1
  <2>3. Passed(k, n, s) \in Nat /\ Passed(k, n, s) # 0
    BY <1>1, <2>1, PassedType
  <2>4. g[s].passbyNum >= Passed(k, n, s)
    BY <1>0, <1>5, <2>2, CountBound
  <2>. QED
    BY <1>4, <1>7, <2>2, <2>3, <2>4 DEF IsSlots
<1>10. ASSUME NEW s \in Slots \ passby PROVE Passed(k, n, s) = 0
  <2>1. \A i \in 1..(n - 1) : Path[k][i] # s
    BY <1>6, <1>10
  <2>. QED
    BY <1>1, <2>1, PassedType
<1>11. /\ c[slot] = DeletedSlot(g[slot])
       /\ \A s \in passby : c[s] = PassedLess(g[s], Passed(k, n, s))
       /\ \A s \in Slots \ ({slot} \cup passby) : c[s] = f[s]
       /\ c = [s \in Slots |-> c[s]]
  <2>1. c[slot] = DeletedSlot(g[slot])
    BY <1>6, <1>7, <1>8 DEF DelSlots
  <2>2. \A s \in passby : c[s] = PassedLess(g[s], Passed(k, n, s))
    BY <1>6, <1>9 DEF DelSlots
  <2>3. \A s \in Slots \ ({slot} \cup passby) : c[s] = f[s]
    BY <1>6 DEF DelSlots
  <2>4. c = [s \in Slots |-> c[s]]
    BY <1>6 DEF DelSlots
  <2>. QED
    BY <2>1, <2>2, <2>3, <2>4
<1>12. /\ c[slot] \in CachedValue /\ c[slot].key = k /\ c[slot].passbyNum = g[slot].passbyNum
       /\ c[slot].isDeleted <=> g[slot].passbyNum = 0
       /\ ~c[slot].isDeleted => c[slot].isEmpty
  <2> DEFINE x == c[slot]
             cv == g[slot]
  <2>0. /\ x = [cv EXCEPT !.isDeleted = cv.passbyNum = 0, !.isEmpty = @ \/ cv.passbyNum > 0]
        /\ cv \in CachedValue /\ cv.key = k
    BY <1>7, <1>8, <1>11 DEF DeletedSlot
  <2>. HIDE DEF x, cv
  <2>1. cv.passbyNum \in Nat
    BY <2>0 DEF CachedValue
  <2>2. x.isDeleted = (cv.passbyNum = 0) /\ x.isEmpty = (cv.isEmpty \/ cv.passbyNum > 0)
    BY <2>0 DEF CachedValue
  <2>3. x.key = cv.key /\ x.passbyNum = cv.passbyNum /\ x.obj = cv.obj
    BY <2>0 DEF CachedValue
  <2>4. {(cv.passbyNum = 0), (cv.isEmpty \/ cv.passbyNum > 0)} \subseteq BOOLEAN
    OBVIOUS
  <2>5. x \in CachedValue
    BY <2>0, <2>4 DEF CachedValue
  <2>6. x.isDeleted <=> cv.passbyNum = 0
    BY <2>2
  <2>7. ASSUME ~x.isDeleted PROVE x.isEmpty
    <3>1. cv.passbyNum > 0
      BY <2>1, <2>6, <2>7
    <3>2. x.isEmpty = (cv.isEmpty \/ cv.passbyNum > 0)
      BY <2>2
    <3>. QED
      BY <3>1, <3>2, Zenon
  <2>. QED
    BY <2>0, <2>3, <2>5, <2>6, <2>7 DEF x, cv
<1>13. ASSUME NEW s \in passby
       PROVE  /\ c[s] \in CachedValue /\ c[s].key = g[s].key /\ c[s].obj = g[s].obj
              /\ c[s].isEmpty = g[s].isEmpty
              /\ c[s].isDeleted <=> g[s].passbyNum = Passed(k, n, s) /\ g[s].isEmpty
              /\ c[s].passbyNum = g[s].passbyNum - Passed(k, n, s)
  <2> DEFINE x == c[s]
             cv == g[s]
             d == Passed(k, n, s)
  <2>0. /\ x = [cv EXCEPT !.passbyNum = @ - d, !.isDeleted = cv.passbyNum = d /\ cv.isEmpty]
        /\ cv \in CachedValue /\ d \in Nat /\ cv.passbyNum >= d
    BY <1>9, <1>11 DEF PassedLess
  <2>. HIDE DEF x, cv, d
  <2>1. cv.passbyNum \in Nat /\ cv.passbyNum - d \in Nat
    BY <2>0 DEF CachedValue
  <2>2. x.isDeleted = (cv.passbyNum = d /\ cv.isEmpty) /\ x.passbyNum = cv.passbyNum - d
    BY <2>0 DEF CachedValue
  <2>3. x.key = cv.key /\ x.isEmpty = cv.isEmpty /\ x.obj = cv.obj
    BY <2>0 DEF CachedValue
  <2>4. {(cv.passbyNum = d /\ cv.isEmpty)} \subseteq BOOLEAN
    OBVIOUS
  <2>5. x \in CachedValue
    BY <2>0, <2>1, <2>4 DEF CachedValue
  <2>. QED
    BY <2>2, <2>3, <2>5 DEF x, cv, d
<1>14. Taken(f, g, c, k, n, slot, passby)
  BY <1>11, <1>12, <1>13 DEF Taken
<1>. QED
  BY <1>1, <1>7, <1>9, <1>10, <1>14 DEF DelOutcome

LEMMA DeleteStep ==
    ASSUME RabbitInv, NEW k \in Keys, Delete(k)
    PROVE  RabbitInv'
<1> DEFINE g == Shown(cache)
           n == FindDepth(k, TRUE)
           slot == FindSlot(k, TRUE)
           f == Filled(k, TRUE)
           passby == {Path[k][i] : i \in 1..(n - 1)}
           c == DelSlots(f, k, n, slot, passby)
           T == {slot} \cup passby
           d == cache'
<1>0. /\ ~FindPanics(k, TRUE)
      /\ FindStatus(k, TRUE) # "Exists" => cache' = f /\ UNCHANGED <<prepU, prepD>>
      /\ FindStatus(k, TRUE) = "Exists" => SetCachedValues(c, T)
      /\ view' = [view EXCEPT ![k] = NoKV] /\ UNCHANGED <<trunk, committed>>
  BY DEF Delete, DelSlots
<1>1. /\ TypeOK /\ TrunkOK /\ CacheOK(cache) /\ Prepared(cache, prepU, prepD)
      /\ view \in [Keys -> Vals \cup {NoKV, Nil}]
      /\ cache \in [Slots -> CachedValue \cup {NoKV}]
  BY DEF RabbitInv, TypeOK
<1>2. PICK H : MapOK(g, view, H)
  BY DEF RabbitInv
<1>a. CASE view[k] = NoKV
  <2>1. FindStatus(k, TRUE) # "Exists"
    BY <1>0, <1>2, <1>a, FindsOnlyStored
  <2>2. view' = view
    BY <1>0, <1>1, <1>a
  <2>. QED
    BY <1>0, <2>1, <2>2, SearchStep
<1>b. CASE view[k] # NoKV
  <2>1. n = H[k] /\ FindStatus(k, TRUE) = "Exists"
    BY <1>2, <1>b, FindsStored
  <2>2. SetCachedValues(c, T)
    BY <1>0, <2>1
  <2>3. IsFilled(f, k, n)
    BY <1>0, <1>1, FilledOK
  <2>4. DelOutcome(f, g, c, k, n, slot, passby)
    BY <1>2, <1>b, DeleteTakes
  <2>. HIDE DEF g, n, slot, f, passby, c
  <2>5. /\ Taken(f, g, c, k, n, slot, passby)
        /\ slot = Path[k][n] /\ slot \in Slots
        /\ passby \subseteq Slots \ {slot}
        /\ \A s \in passby : g[s] # NoKV /\ Passed(k, n, s) > 0
        /\ \A s \in Slots \ passby : Passed(k, n, s) = 0
    BY <2>4 DEF DelOutcome
  <2>7. /\ f \in [Slots -> CachedValue \cup {NoKV}] /\ CacheOK(f) /\ Shown(f) = g
        /\ \A s \in Slots : f[s] # NoKV /\ f[s].isDirty => f[s] = cache[s]
    BY <2>3 DEF IsFilled, g
  <2>8. /\ c \in [Slots -> CachedValue \cup {NoKV}] /\ T \in SUBSET Slots
        /\ \A s \in T : c[s] \in CachedValue /\ c[s] # NoKV
        /\ \A s \in Slots \ T : c[s] = f[s]
    <3>1. T \in SUBSET Slots
      BY <2>5
    <3>2. \A s \in T : c[s] \in CachedValue
      BY <2>5 DEF Taken
    <3>3. \A s \in Slots \ T : c[s] = f[s]
      BY <2>5 DEF Taken
    <3>4. c = [s \in Slots |-> c[s]]
      BY <2>5 DEF Taken
    <3>. HIDE DEF T
    <3>5. \A s \in Slots : c[s] \in CachedValue \cup {NoKV}
      BY <2>7, <3>2, <3>3
    <3>6. c \in [Slots -> CachedValue \cup {NoKV}]
      BY <3>4, <3>5
    <3>. QED
      BY <3>1, <3>2, <3>3, <3>6, AbsenceAssumption
  <2>. HIDE DEF T, d
  <2>9. /\ d \in [Slots -> CachedValue \cup {NoKV}] /\ Prepared(d, prepU', prepD')
        /\ prepU' \subseteq Slots /\ prepD' \subseteq Slots
        /\ \A s \in T : /\ d[s] # NoKV /\ d[s].isDirty
                        /\ d[s].passbyNum = c[s].passbyNum /\ d[s].key = c[s].key
                        /\ d[s].obj = c[s].obj /\ d[s].isEmpty = c[s].isEmpty
                        /\ d[s].isDeleted = c[s].isDeleted
        /\ \A s \in Slots \ T : d[s] = c[s]
    <3>1. \A s \in Slots \ T : c[s] # NoKV /\ c[s].isDirty => c[s] = cache[s]
      BY <2>7, <2>8
    <3>2. \A s \in T : c[s] # NoKV
      BY <2>8
    <3>. QED
      BY <1>1, <2>2, <2>8, <3>1, <3>2, Prepares DEF d
  <2>10. CacheOK(d)
    <3>1. \A s \in Slots \ T : d[s] = f[s]
      BY <2>8, <2>9
    <3>2. CacheOK(f) /\ \A s \in T : d[s].isDirty
      BY <2>7, <2>9
    <3>. QED
      BY <3>1, <3>2, SetCacheOK
  <2> DEFINE h == Shown(d)
  <2>11. \A s \in Slots \ T : h[s] = g[s]
    BY <2>7, <2>8, <2>9, ShownPointwise
  <2>12. \A s \in T : h[s] = IF c[s].isDeleted THEN NoKV ELSE d[s]
    <3>1. \A s \in Slots : /\ d[s] # NoKV /\ d[s].isDeleted => h[s] = NoKV
                           /\ d[s] # NoKV /\ ~d[s].isDeleted => h[s] = d[s]
      BY <1>1, <2>9, ShownType
    <3>. QED
      BY <2>8, <2>9, <3>1
  <2>. HIDE DEF h
  <2>13. IsSlots(g) /\ slot \in T /\ passby \subseteq T
    BY <1>1, ShownType DEF g, T
  <2>14. /\ h[slot] = NoKV <=> g[slot].passbyNum = 0
         /\ h[slot] # NoKV => /\ h[slot].key = k /\ h[slot].isEmpty
                              /\ h[slot].passbyNum = g[slot].passbyNum
    BY <2>5, <2>9, <2>12, <2>13 DEF Taken
  <2>15. ASSUME NEW s \in Slots, s # slot
         PROVE  /\ h[s] = NoKV <=> \/ g[s] = NoKV
                                   \/ /\ Passed(k, n, s) > 0
                                      /\ g[s].passbyNum = Passed(k, n, s) /\ g[s].isEmpty
                /\ h[s] # NoKV =>
                      /\ h[s].key = g[s].key /\ h[s].passbyNum = g[s].passbyNum - Passed(k, n, s)
                      /\ h[s].isEmpty = g[s].isEmpty /\ h[s].obj = g[s].obj
    <3>1. CASE s \in passby
      <4>1. /\ c[s].key = g[s].key /\ c[s].obj = g[s].obj /\ c[s].isEmpty = g[s].isEmpty
            /\ c[s].isDeleted <=> g[s].passbyNum = Passed(k, n, s) /\ g[s].isEmpty
            /\ c[s].passbyNum = g[s].passbyNum - Passed(k, n, s)
            /\ g[s] # NoKV /\ Passed(k, n, s) > 0
        BY <2>5, <3>1 DEF Taken
      <4>2. /\ d[s] # NoKV /\ d[s].passbyNum = c[s].passbyNum /\ d[s].key = c[s].key
            /\ d[s].obj = c[s].obj /\ d[s].isEmpty = c[s].isEmpty
        BY <2>9, <2>13, <3>1
      <4>3. h[s] = IF c[s].isDeleted THEN NoKV ELSE d[s]
        BY <2>12, <2>13, <3>1
      <4>4. CASE c[s].isDeleted
        BY <4>1, <4>3, <4>4
      <4>5. CASE ~c[s].isDeleted
        <5>1. h[s] = d[s]
          BY <4>3, <4>5
        <5>. QED
          BY <4>1, <4>2, <4>5, <5>1
      <4>. QED
        BY <4>4, <4>5
    <3>2. CASE s \notin passby
      <4>1. h[s] = g[s] /\ Passed(k, n, s) = 0
        BY <2>5, <2>11, <2>15, <3>2 DEF T
      <4>2. g[s] # NoKV => g[s].passbyNum \in Nat
        BY <2>13 DEF IsSlots, CachedValue
      <4>. QED
        BY <4>1, <4>2
    <3>. QED
      BY <3>1, <3>2
  <2>16. Removes(g, h, k, n)
    BY <2>5, <2>14, <2>15 DEF Removes
  <2>17. MapOK(h, [view EXCEPT ![k] = NoKV], H)
    BY <1>1, <1>2, <1>b, <2>1, <2>13, <2>16, DeleteMap
  <2>18. view' \in [Keys -> Vals \cup {NoKV, Nil}]
    BY <1>0, <1>1
  <2>19. MapOK(Shown(d), view', H)
    BY <1>0, <2>17 DEF h
  <2>. QED
    BY <1>0, <2>9, <2>10, <2>18, <2>19, KeepsInv DEF d
<1>. QED
  BY <1>a, <1>b

\* After the end of a transaction the cache is empty and shows the trunk.
LEMMA EndsInv ==
    ASSUME EndOfTransaction, view' = committed', trunk' \in [Slots -> Bytes \cup {NoKV}], TrunkOK',
           committed' \in [Keys -> Vals \cup {NoKV}], NEW H, MapOK(TrunkSlots', committed', H)
    PROVE  RabbitInv'
<1>1. cache' = [s \in Slots |-> NoKV] /\ prepU' = {} /\ prepD' = {}
  BY DEF EndOfTransaction
<1>2. TypeOK'
  BY <1>1 DEF TypeOK
<1>3. CacheOK(cache)' /\ Prepared(cache, prepU, prepD)'
  BY <1>1 DEF CacheOK, Prepared
<1>4. Shown(cache)' = TrunkSlots'
  BY <1>1 DEF Shown, TrunkSlots
<1>5. MapOK(TrunkSlots, committed, H)'
  BY DEF MapOK, AtHome, Passing
<1>6. MapOK(Shown(cache), view, H)'
  BY <1>4, <1>5 DEF MapOK, AtHome, Passing
<1>. QED
  BY <1>2, <1>3, <1>5, <1>6 DEF RabbitInv

LEMMA AbandonStep ==
    ASSUME RabbitInv, Abandon
    PROVE  RabbitInv'
<1>1. TrunkSlots' = TrunkSlots /\ TrunkOK' /\ trunk' \in [Slots -> Bytes \cup {NoKV}]
  BY DEF Abandon, RabbitInv, TypeOK, TrunkOK, TrunkSlots
<1>2. PICK H : MapOK(TrunkSlots, committed, H)
  BY DEF RabbitInv
<1>3. MapOK(TrunkSlots', committed', H)
  BY <1>1, <1>2 DEF Abandon
<1>4. /\ EndOfTransaction /\ view' = committed'
      /\ committed' \in [Keys -> Vals \cup {NoKV}]
  BY DEF Abandon, RabbitInv, TypeOK
<1>. QED
  BY <1>1, <1>3, <1>4, EndsInv

\* The slots that a write-back leaves in the trunk are those that the cache showed.
LEMMA CloseStep ==
    ASSUME RabbitInv, CloseWriteBack
    PROVE  RabbitInv'
<1> DEFINE g == Shown(cache)
           t == trunk'
           h == TrunkSlots'
<1>0. /\ ~WriteBackPanics /\ committed' = view /\ view' = view /\ EndOfTransaction
      /\ t = [s \in Slots |-> IF cache[s] = NoKV \/ ~cache[s].isDirty THEN trunk[s]
                              ELSE IF cache[s].isDeleted THEN NoKV ELSE ToBytes(cache[s])]
  BY DEF CloseWriteBack
<1>1. /\ TypeOK /\ TrunkOK /\ CacheOK(cache)
      /\ view \in [Keys -> Vals \cup {NoKV, Nil}]
      /\ trunk \in [Slots -> Bytes \cup {NoKV}]
      /\ cache \in [Slots -> CachedValue \cup {NoKV}]
  BY DEF RabbitInv, TypeOK
<1>2. PICK H : MapOK(g, view, H)
  BY DEF RabbitInv
<1>3. /\ IsSlots(g)
      /\ \A s \in Slots :
            /\ cache[s] = NoKV => g[s] = TrunkSlots[s]
            /\ cache[s] # NoKV /\ cache[s].isDeleted => g[s] = NoKV
            /\ cache[s] # NoKV /\ ~cache[s].isDeleted => g[s] = cache[s]
  BY <1>1, ShownType
<1>4. \A s \in Slots : cache[s] # NoKV /\ ~cache[s].isDeleted /\ ~cache[s].isEmpty =>
                          cache[s].obj \in Vals
  <2>1. \A s \in Slots : cache[s] # NoKV /\ ~cache[s].isDeleted /\ ~cache[s].isEmpty =>
                            cache[s].obj # Nil
    BY <1>0 DEF WriteBackPanics
  <2>. QED
    BY <1>1, <2>1 DEF CachedValue
<1>5. \A s \in Slots : h[s] = IF t[s] = NoKV THEN NoKV ELSE BytesToCachedValue(t[s])
  BY DEF TrunkSlots
<1>6. \A s \in Slots : TrunkSlots[s] = IF trunk[s] = NoKV THEN NoKV ELSE BytesToCachedValue(trunk[s])
  BY DEF TrunkSlots
<1>7. \A s \in Slots : TrunkSlots[s] # NoKV /\ ~TrunkSlots[s].isEmpty => TrunkSlots[s].obj \in Vals
  BY <1>1, TrunkSlotsType
<1>. HIDE DEF g, t, h
<1>8. ASSUME NEW s \in Slots, cache[s] # NoKV, cache[s].isDirty, ~cache[s].isDeleted
      PROVE  /\ t[s] \in Bytes /\ (~t[s].isEmpty => t[s].value \in Vals) /\ h[s] # NoKV
             /\ h[s].key = cache[s].key /\ h[s].passbyNum = cache[s].passbyNum
             /\ h[s].isEmpty = cache[s].isEmpty /\ (~cache[s].isEmpty => h[s].obj = cache[s].obj)
  <2> DEFINE cv == cache[s]
             b == t[s]
             x == h[s]
  <2>1. b = ToBytes(cv)
    BY <1>0, <1>8
  <2>2. cv \in CachedValue /\ (~cv.isEmpty => cv.obj \in Vals)
    BY <1>1, <1>4, <1>8
  <2>. HIDE DEF cv, b, x
  <2>3. /\ b.isEmpty = cv.isEmpty /\ b.passbyNum = cv.passbyNum /\ b.key = cv.key
        /\ b.value = IF cv.isEmpty THEN NoKV ELSE cv.obj
    BY <2>1 DEF ToBytes
  <2>4. b \in Bytes
    BY <2>1, <2>2 DEF ToBytes, Bytes, CachedValue
  <2>5. x = BytesToCachedValue(b)
    BY <1>5, <2>4, AbsenceAssumption DEF x, b
  <2>6. x \in CachedValue
    BY <2>2, <2>3, <2>4, <2>5 DEF BytesToCachedValue, CachedValue, Bytes
  <2>7. /\ x.key = b.key /\ x.passbyNum = b.passbyNum /\ x.isEmpty = b.isEmpty
        /\ x.obj = IF b.isEmpty THEN Nil ELSE b.value
    BY <2>5 DEF BytesToCachedValue
  <2>8. x # NoKV
    BY <2>6, AbsenceAssumption
  <2>. QED
    BY <2>2, <2>3, <2>4, <2>7, <2>8 DEF cv, b, x
<1>9. ASSUME NEW s \in Slots, cache[s] = NoKV \/ ~cache[s].isDirty
      PROVE  t[s] = trunk[s] /\ h[s] = TrunkSlots[s]
  BY <1>0, <1>5, <1>6, <1>9
<1>10. ASSUME NEW s \in Slots, cache[s] # NoKV, cache[s].isDirty, cache[s].isDeleted
       PROVE  t[s] = NoKV /\ h[s] = NoKV
  BY <1>0, <1>5, <1>10
<1>11. t \in [Slots -> Bytes \cup {NoKV}]
  <2>1. \A s \in Slots : t[s] \in Bytes \cup {NoKV}
    BY <1>1, <1>8, <1>9, <1>10
  <2>2. t = [s \in Slots |-> t[s]]
    BY <1>0
  <2>. QED
    BY <2>1, <2>2
<1>12. \A s \in Slots : t[s] # NoKV /\ ~t[s].isEmpty => t[s].value \in Vals
  BY <1>1, <1>8, <1>9, <1>10 DEF TrunkOK
<1>13. ASSUME NEW s \in Slots
       PROVE  /\ h[s] = NoKV <=> g[s] = NoKV
              /\ g[s] # NoKV => /\ h[s].key = g[s].key /\ h[s].passbyNum = g[s].passbyNum
                                /\ h[s].isEmpty = g[s].isEmpty
                                /\ ~g[s].isEmpty => h[s].obj = g[s].obj
  <2>1. CASE cache[s] = NoKV
    BY <1>3, <1>9, <2>1
  <2>2. CASE cache[s] # NoKV /\ ~cache[s].isDirty
    <3>1. /\ ~cache[s].isDeleted /\ TrunkSlots[s] # NoKV
          /\ cache[s].key = TrunkSlots[s].key /\ cache[s].passbyNum = TrunkSlots[s].passbyNum
          /\ cache[s].isEmpty = TrunkSlots[s].isEmpty
          /\ cache[s].obj \in {Nil, TrunkSlots[s].obj}
      BY <1>1, <2>2 DEF CacheOK
    <3>2. g[s] = cache[s] /\ h[s] = TrunkSlots[s]
      BY <1>3, <1>9, <2>2, <3>1
    <3>3. ~cache[s].isEmpty => cache[s].obj # Nil
      BY <1>4, <2>2, <3>1, AbsenceAssumption
    <3>. QED
      BY <2>2, <3>1, <3>2, <3>3
  <2>3. CASE cache[s] # NoKV /\ cache[s].isDirty /\ cache[s].isDeleted
    BY <1>3, <1>10, <2>3
  <2>4. CASE cache[s] # NoKV /\ cache[s].isDirty /\ ~cache[s].isDeleted
    BY <1>3, <1>8, <2>4
  <2>. QED
    BY <2>1, <2>2, <2>3, <2>4
<1>14. MapOK(h, view, H)
  BY <1>2, <1>3, <1>13, SameMap
<1>15. view \in [Keys -> Vals \cup {NoKV}]
  <2>1. ASSUME NEW k \in Keys, view[k] = Nil PROVE FALSE
    <3> DEFINE s == Path[k][H[k]]
    <3>1. view[k] # NoKV /\ H[k] \in 1..MaxFindDepth
      BY <1>2, <2>1, AbsenceAssumption DEF MapOK
    <3>2. s \in Slots
      BY <3>1, PathType
    <3>3. g[s] # NoKV /\ ~g[s].isEmpty /\ g[s].obj = Nil
      BY <1>2, <2>1, <3>1 DEF MapOK, AtHome
    <3>. HIDE DEF s
    <3>4. g[s].obj \in Vals
      BY <1>3, <1>4, <1>7, <3>2, <3>3
    <3>. QED
      BY <3>3, <3>4, AbsenceAssumption
  <2>2. \A k \in Keys : view[k] \in Vals \cup {NoKV}
    BY <1>1, <2>1
  <2>. QED
    BY <1>1, <2>2
<1>16. TrunkOK'
  BY <1>12 DEF TrunkOK, t
<1>17. trunk' \in [Slots -> Bytes \cup {NoKV}] /\ MapOK(TrunkSlots', committed', H)
  BY <1>0, <1>11, <1>14 DEF t, h
<1>18. view' = committed' /\ committed' \in [Keys -> Vals \cup {NoKV}]
  BY <1>0, <1>15
<1>. QED
  BY <1>0, <1>16, <1>17, <1>18, EndsInv

-----------------------------------------------------------------------------
(* The theorems *)

LEMMA InitInv == Init => RabbitInv
<1>. SUFFICES ASSUME Init PROVE RabbitInv
  OBVIOUS
<1>1. TypeOK /\ TrunkOK /\ CacheOK(cache) /\ Prepared(cache, prepU, prepD)
  BY DEF Init, TypeOK, TrunkOK, CacheOK, Prepared
<1> DEFINE H == [k \in Keys |-> 1]
<1>2. \A s \in Slots : TrunkSlots[s] = NoKV /\ Shown(cache)[s] = NoKV
  BY DEF Init, TrunkSlots, Shown
<1>3. H \in [Keys -> 1..MaxFindDepth]
  BY PathAssumption
<1>4. \A k \in Keys : view[k] = NoKV /\ committed[k] = NoKV
  BY DEF Init
<1>. HIDE DEF H
<1>5. MapOK(Shown(cache), view, H) /\ MapOK(TrunkSlots, committed, H)
  BY <1>2, <1>3, <1>4 DEF MapOK
<1>. QED
  BY <1>1, <1>5 DEF RabbitInv

LEMMA StutterInv ==
    ASSUME RabbitInv, UNCHANGED vars
    PROVE  RabbitInv'
<1>1. UNCHANGED <<trunk, cache, prepU, prepD, committed, view>>
  BY DEF vars
<1>2. /\ cache \in [Slots -> CachedValue \cup {NoKV}] /\ CacheOK(cache)
      /\ Prepared(cache, prepU, prepD) /\ prepU \subseteq Slots /\ prepD \subseteq Slots
      /\ view \in [Keys -> Vals \cup {NoKV, Nil}]
  BY DEF RabbitInv, TypeOK
<1>3. PICK H : MapOK(Shown(cache), view, H)
  BY DEF RabbitInv
<1> DEFINE c == cache
<1>4. cache' = c /\ c \in [Slots -> CachedValue \cup {NoKV}] /\ CacheOK(c)
  BY <1>1, <1>2
<1>5. Prepared(c, prepU', prepD') /\ MapOK(Shown(c), view', H)
  BY <1>1, <1>2, <1>3
<1>. HIDE DEF c
<1>. QED
  BY <1>1, <1>2, <1>4, <1>5, KeepsInv

\* The slots hold the map, in the trunk and as the open transaction sees them (find,
\* setHelper, Delete, SetCachedValue, ScanAllEntries).
THEOREM RabbitInvariance == Spec => []RabbitInv
<1>1. RabbitInv /\ [Next]_vars => RabbitInv'
  <2>. SUFFICES ASSUME RabbitInv, [Next]_vars PROVE RabbitInv'
    OBVIOUS
  <2>1. ASSUME NEW k \in Keys, Read(k) PROVE RabbitInv'
    <3>1. /\ ~FindPanics(k, TRUE) /\ cache' = Filled(k, TRUE)
          /\ UNCHANGED <<trunk, prepU, prepD, committed, view>>
      BY <2>1 DEF Read
    <3>. QED
      BY <3>1, SearchStep
  <2>2. ASSUME NEW k \in Keys, GetObj(k) PROVE RabbitInv'
    BY <2>2, GetObjStep
  <2>3. ASSUME NEW k \in Keys, Delete(k) PROVE RabbitInv'
    BY <2>3, DeleteStep
  <2>4. ASSUME NEW k \in Keys, NEW v \in Vals, setHelper(k, v) PROVE RabbitInv'
    BY <2>4, SetStep
  <2>5. CASE CloseWriteBack
    BY <2>5, CloseStep
  <2>6. CASE Abandon
    BY <2>6, AbandonStep
  <2>7. CASE UNCHANGED vars
    BY <2>7, StutterInv
  <2>. QED
    BY <2>1, <2>2, <2>3, <2>4, <2>5, <2>6, <2>7 DEF Next
<1>. QED
  BY <1>1, InitInv, PTL DEF Spec

\* Probing finds exactly the stored keys, with their values, for every choice of paths: no
\* early exit and no hole that a deletion leaves hides a key (find, rabbit.go:91).
THEOREM ProbingFindsTheMap == Spec => []FindsTheMap
BY RabbitInvariance, InvFinds, PTL

\* The counters of setHelper and Delete balance, and empty slots do not pile up.
THEOREM CountersBalance == Spec => []PassbyCounts
BY RabbitInvariance, InvCounts, PTL

\* The write-back changes only slots that were prepared for the change.
THEOREM WriteBackIsPrepared == Spec => []WritesArePrepared
<1>1. RabbitInv => WritesArePrepared
  BY DEF RabbitInv, Prepared, WritesArePrepared
<1>. QED
  BY <1>1, RabbitInvariance, PTL

=============================================================================
