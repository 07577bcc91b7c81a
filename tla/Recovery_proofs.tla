--------------------------- MODULE Recovery_proofs ---------------------------
(***************************************************************************)
(* What a restart gives back, for every instance of Recovery.  The entry   *)
(* file is only ever appended to, so what held of its first entries when a *)
(* block was committed still holds when the process crashes later: the     *)
(* committed state can be read off the committed part of the file.         *)
(***************************************************************************)
EXTENDS Recovery, OnvaKV_refinement

-----------------------------------------------------------------------------
(* The entry file as a log *)

\* What the list in memory holds is in no list of the file.
Unlisted(d) == \A t \in SNSet(d.deactivedSNList) : t \notin DeadSNs(d)

\* An entry is deactivated once: it was active, so no list of the file has it.
LEMMA ClearBitUnlisted ==
    ASSUME NEW d, IsDataTree(d), Unlisted(d), NEW sn \in 0..(d.maxSerialNum - 1),
           sn \notin DeadSNs(d)
    PROVE  Unlisted(ClearBit(d, sn))
<1> DEFINE d2 == ClearBit(d, sn)
           l == d.deactivedSNList
<1>1. d2.entryFile = d.entryFile /\ d2.deactivedSNList = Append(l, sn)
  BY DEF ClearBit
<1>2. l \in Seq(0..(d.maxSerialNum - 1))
  BY DEF IsDataTree
<1>3. \A t \in SNSet(Append(l, sn)) : t \in SNSet(l) \/ t = sn
  <2>. HIDE DEF l
  <2>1. /\ Len(Append(l, sn)) = Len(l) + 1 /\ Len(l) \in Nat
        /\ \A i \in 1..Len(l) : Append(l, sn)[i] = l[i]
        /\ Append(l, sn)[Len(l) + 1] = sn
    BY <1>2
  <2>. QED
    BY <2>1 DEF SNSet
<1>4. DeadSNs(d2) = DeadSNs(d)
  BY <1>1 DEF DeadSNs
<1>. QED
  BY <1>1, <1>3, <1>4 DEF Unlisted

\* What DeactiviateEntry adds to the file is a dummy.
LEMMA DeactiviateFile ==
    ASSUME NEW d, IsDataTree(d), LogOK(d, DeactivedSNListMaxLen), Unlisted(d), NEW sn \in d.activeBits
    PROVE  LET d2 == DeactiviateEntry(d, sn)
           IN  /\ Unlisted(d2)
               /\ \A s \in d.maxSerialNum..(d2.maxSerialNum - 1) :
                     d2.entryFile[s].entry = DummyEntry(s)
<1> DEFINE M == DeactivedSNListMaxLen
           d1 == ClearBit(d, sn)
           m == d.maxSerialNum
           d2 == AppendEntry(d1, DummyEntry(m))
           d3 == ClearBit(d2, m)
<1>1. M \in Nat /\ M >= 1 /\ m \in Nat /\ sn \in 0..(m - 1) /\ sn \notin DeadSNs(d)
  BY SizeAssumption DEF IsDataTree, LogOK
<1>2. IsDataTree(d1) /\ LogOK(d1, M + 1) /\ d1.maxSerialNum = m /\ Unlisted(d1)
  BY <1>1, ClearBitProp, ClearBitLog, ClearBitUnlisted
<1>3. DeactiviateEntry(d, sn) = IF Len(d1.deactivedSNList) > M THEN d3 ELSE d1
  BY <1>2 DEF DeactiviateEntry
<1>4. DummyEntry(m) \in Entry /\ DummyEntry(m).serialNum = m
  BY <1>1 DEF DummyEntry, Entry
<1>. HIDE DEF d1
<1>5. /\ IsDataTree(d2) /\ LogOK(d2, 0) /\ d2.maxSerialNum = m + 1
      /\ m \in d2.activeBits /\ d2.entryFile[m].entry = DummyEntry(m)
  BY <1>1, <1>2, <1>4, AppendEntryProp, AppendEntryLog
<1>6. d2.deactivedSNList = <<>>
  BY DEF AppendEntry
<1>. HIDE DEF d2
<1>7. Unlisted(d2) /\ m \notin DeadSNs(d2) /\ m \in 0..(d2.maxSerialNum - 1)
  <2>1. SNSet(<<>>) = {}
    BY DEF SNSet
  <2>. QED
    BY <1>1, <1>5, <1>6, <2>1 DEF Unlisted, LogOK
<1>8. Unlisted(d3) /\ d3.entryFile = d2.entryFile /\ d3.maxSerialNum = m + 1
  BY <1>5, <1>7, ClearBitUnlisted, ClearBitProp
<1>. HIDE DEF d3
<1>9. \A s \in m..((m + 1) - 1) : s = m
  BY <1>1
<1>10. CASE Len(d1.deactivedSNList) > M
  BY <1>1, <1>3, <1>5, <1>8, <1>9, <1>10
<1>11. CASE ~(Len(d1.deactivedSNList) > M)
  BY <1>1, <1>2, <1>3, <1>11
<1>. QED
  BY <1>10, <1>11

LEMMA WithoutKeyFile ==
    ASSUME TypeOK, ActiveIffIndexed, StoredOK, NEW k,
           LogOK(datTree, DeactivedSNListMaxLen), Unlisted(datTree)
    PROVE  /\ Unlisted(WithoutKey(k))
           /\ \A s \in datTree.maxSerialNum..(WithoutKey(k).maxSerialNum - 1) :
                 WithoutKey(k).entryFile[s].entry = DummyEntry(s)
<1>1. CASE k \in StoredKeys
  <2>1. IsDataTree(datTree) /\ idxTree[k] \in datTree.activeBits
    BY <1>1 DEF TypeOK, ActiveIffIndexed, StoredKeys
  <2>. QED
    BY <1>1, <2>1, DeactiviateFile DEF WithoutKey
<1>2. CASE k \notin StoredKeys
  <2>1. WithoutKey(k) = datTree /\ datTree.maxSerialNum \in Nat
    BY <1>2 DEF WithoutKey, TypeOK, IsDataTree
  <2>. QED
    BY <2>1
<1>. QED
  BY <1>1, <1>2

\* What a step does to the index and the data tree together.
Removes(k) ==
    /\ k \in StoredKeys
    /\ datTree' = WithoutKey(k) /\ idxTree' = IndexDelete(k)
Replaces(k, e) ==
    /\ k \in AllKeys /\ e \in Entry /\ e.key = k /\ e.serialNum = WithoutKey(k).maxSerialNum
    /\ e.height = currHeight \/ (k \in StoredKeys /\ e.height = ReadEntry(k).height)
    /\ datTree' = AppendEntry(WithoutKey(k), e)
    /\ idxTree' = IndexSet(k, WithoutKey(k).maxSerialNum)

LEMMA StoreStep ==
    ASSUME IInv, [Next]_vars
    PROVE  \/ UNCHANGED <<idxTree, datTree>>
           \/ /\ currHeight' = currHeight
              /\ \/ \E k : Removes(k)
                 \/ \E k, e : Replaces(k, e)
<1>1. CASE SweepEntry
  <2>1. phase = "sweeping" /\ currHeight' = currHeight
    BY <1>1 DEF SweepEntry
  <2>2. PICK k \in todo : SweptAway(k) \/ Rewritten(k) \/ PassedOver(k)
    BY <1>1, SweptEntry
  <2>3. k \in AllKeys
    BY <2>1, SweepFacts
  <2>4. CASE SweptAway(k)
    BY <2>1, <2>4 DEF SweptAway, Removes
  <2>5. CASE Rewritten(k)
    BY <2>1, <2>3, <2>5 DEF Rewritten, Replaces
  <2>6. CASE PassedOver(k)
    BY <2>6 DEF PassedOver
  <2>. QED
    BY <2>2, <2>4, <2>5, <2>6
<1>2. CASE ReapEntry
  <2>0. currHeight' = currHeight
    BY <1>2 DEF ReapEntry
  <2>1. PICK k \in StoredKeys :
          /\ datTree' = AppendEntry(WithoutKey(k),
                           [ReadEntry(k) EXCEPT !.serialNum = WithoutKey(k).maxSerialNum])
          /\ idxTree' = IndexSet(k, WithoutKey(k).maxSerialNum)
    BY <1>2, ReapedEntry
  <2> DEFINE m == WithoutKey(k).maxSerialNum
             e == [ReadEntry(k) EXCEPT !.serialNum = m]
  <2>2. m \in Nat /\ ReadEntry(k) \in Entry /\ ReadEntry(k).key = k /\ k \in AllKeys
    BY WithoutKeyProp, StoredEntry DEF IInv
  <2>3. e \in Entry /\ e.serialNum = m /\ e.key = k /\ e.height = ReadEntry(k).height
    <3>. HIDE DEF m
    <3>. QED
      BY <2>2 DEF Entry
  <2>4. datTree' = AppendEntry(WithoutKey(k), e)
    BY <2>1
  <2>. HIDE DEF e
  <2>5. Replaces(k, e)
    BY <2>1, <2>2, <2>3, <2>4 DEF Replaces
  <2>. QED
    BY <2>0, <2>5
<1>3. CASE ~SweepEntry /\ ~ReapEntry
  BY <1>3, OnlySweepAndReapWrite
<1>. QED
  BY <1>1, <1>2, <1>3

\* The file grows at its end: old entries stay, and a new one is a dummy or the entry its
\* key is then indexed at.
LEMMA FileGrows ==
    ASSUME IInv, LogOK(datTree, DeactivedSNListMaxLen), Unlisted(datTree), [Next]_vars
    PROVE  /\ datTree.maxSerialNum \in Nat /\ datTree'.maxSerialNum \in Nat
           /\ datTree'.maxSerialNum >= datTree.maxSerialNum
           /\ \A s \in 0..(datTree.maxSerialNum - 1) : datTree'.entryFile[s] = datTree.entryFile[s]
           /\ \A s \in datTree.maxSerialNum..(datTree'.maxSerialNum - 1) :
                 \/ datTree'.entryFile[s].entry = DummyEntry(s)
                 \/ /\ datTree'.entryFile[s].entry.key \in StoredKeys'
                    /\ idxTree'[datTree'.entryFile[s].entry.key] = s
                    /\ \/ datTree'.entryFile[s].entry.height = currHeight'
                       \/ \E j \in StoredKeys : datTree'.entryFile[s].entry.height = ReadEntry(j).height
           /\ \A j \in StoredKeys' :
                 \/ j \in StoredKeys /\ idxTree'[j] = idxTree[j]
                 \/ idxTree'[j] = datTree'.maxSerialNum - 1
           /\ LogOK(datTree', DeactivedSNListMaxLen)
           /\ Unlisted(datTree')
<1> DEFINE m == datTree.maxSerialNum
<1>0. TypeOK /\ ActiveIffIndexed /\ StoredOK /\ m \in Nat
  BY DEF IInv, TypeOK, IsDataTree
<1>1. CASE UNCHANGED <<idxTree, datTree>>
  <2>1. StoredKeys' = StoredKeys
    BY <1>1 DEF StoredKeys
  <2>. QED
    BY <1>0, <1>1, <2>1
<1>2. ASSUME NEW k, Removes(k), currHeight' = currHeight
      PROVE  /\ datTree'.maxSerialNum \in Nat /\ datTree'.maxSerialNum >= m
             /\ \A s \in 0..(m - 1) : datTree'.entryFile[s] = datTree.entryFile[s]
             /\ \A s \in m..(datTree'.maxSerialNum - 1) : datTree'.entryFile[s].entry = DummyEntry(s)
             /\ \A j \in StoredKeys' : j \in StoredKeys /\ idxTree'[j] = idxTree[j]
             /\ LogOK(datTree', DeactivedSNListMaxLen)
             /\ Unlisted(datTree')
  <2>1. datTree' = WithoutKey(k) /\ idxTree' = IndexDelete(k)
    BY <1>2 DEF Removes
  <2>2. \A j \in StoredKeys' : j \in StoredKeys /\ idxTree'[j] = idxTree[j]
    BY <2>1 DEF IndexDelete, StoredKeys
  <2>. QED
    BY <1>0, <2>1, <2>2, WithoutKeyProp, WithoutKeyFile, WithoutKeyLog
<1>3. ASSUME NEW k, NEW e, Replaces(k, e), currHeight' = currHeight
      PROVE  /\ datTree'.maxSerialNum \in Nat /\ datTree'.maxSerialNum >= m
             /\ \A s \in 0..(m - 1) : datTree'.entryFile[s] = datTree.entryFile[s]
             /\ \A s \in m..(datTree'.maxSerialNum - 1) :
                   \/ datTree'.entryFile[s].entry = DummyEntry(s)
                   \/ /\ datTree'.entryFile[s].entry.key \in StoredKeys'
                      /\ idxTree'[datTree'.entryFile[s].entry.key] = s
                      /\ \/ datTree'.entryFile[s].entry.height = currHeight'
                         \/ \E j \in StoredKeys : datTree'.entryFile[s].entry.height = ReadEntry(j).height
             /\ \A j \in StoredKeys' :
                   \/ j \in StoredKeys /\ idxTree'[j] = idxTree[j]
                   \/ idxTree'[j] = datTree'.maxSerialNum - 1
             /\ LogOK(datTree', DeactivedSNListMaxLen)
             /\ Unlisted(datTree')
  <2> DEFINE d == WithoutKey(k)
             n == d.maxSerialNum
  <2>1. /\ k \in AllKeys /\ e \in Entry /\ e.key = k /\ e.serialNum = n
        /\ e.height = currHeight \/ (k \in StoredKeys /\ e.height = ReadEntry(k).height)
        /\ datTree' = AppendEntry(d, e)
        /\ idxTree' = IndexSet(k, n)
    BY <1>3 DEF Replaces
  <2>2. /\ IsDataTree(d) /\ n \in Nat /\ n >= m
        /\ \A s \in 0..(m - 1) : d.entryFile[s] = datTree.entryFile[s]
        /\ \A s \in m..(n - 1) : d.entryFile[s].entry = DummyEntry(s)
    BY <1>0, WithoutKeyProp, WithoutKeyFile
  <2>3. LogOK(datTree', DeactivedSNListMaxLen)
    BY <1>0, <2>1, ReplaceEntryLog
  <2>. HIDE DEF d
  <2>4. /\ datTree'.maxSerialNum = n + 1 /\ datTree'.entryFile[n].entry = e
        /\ \A s \in 0..(n - 1) : datTree'.entryFile[s] = d.entryFile[s]
    BY <2>1, <2>2, AppendEntryProp
  <2>5. Unlisted(datTree')
    <3>1. datTree'.deactivedSNList = <<>>
      BY <2>1 DEF AppendEntry
    <3>2. SNSet(<<>>) = {}
      BY DEF SNSet
    <3>. QED
      BY <3>1, <3>2 DEF Unlisted
  <2>6. StoredKeys' = StoredKeys \cup {k} /\ idxTree'[k] = n
        /\ \A j \in StoredKeys : j # k => idxTree'[j] = idxTree[j]
    BY <2>1 DEF IndexSet, StoredKeys
  <2>. HIDE DEF n, m
  <2>7. \A s \in m..((n + 1) - 1) : s = n \/ s \in m..(n - 1)
    BY <1>0, <2>2
  <2>8. \A s \in 0..(m - 1) : s \in 0..(n - 1)
    BY <1>0, <2>2
  <2>9. \A s \in m..(n - 1) : s \in 0..(n - 1)
    BY <1>0, <2>2
  <2>10. n + 1 \in Nat /\ n + 1 >= m /\ n = (n + 1) - 1
    BY <1>0, <2>2
  <2>11. ASSUME NEW s \in m..(datTree'.maxSerialNum - 1)
         PROVE  \/ datTree'.entryFile[s].entry = DummyEntry(s)
                \/ /\ datTree'.entryFile[s].entry.key \in StoredKeys'
                   /\ idxTree'[datTree'.entryFile[s].entry.key] = s
                   /\ \/ datTree'.entryFile[s].entry.height = currHeight'
                      \/ \E j \in StoredKeys : datTree'.entryFile[s].entry.height = ReadEntry(j).height
    <3>1. CASE s = n
      BY <1>3, <2>1, <2>4, <2>6, <3>1
    <3>2. CASE s \in m..(n - 1)
      BY <2>2, <2>4, <2>9, <3>2
    <3>. QED
      BY <2>4, <2>7, <3>1, <3>2
  <2>12. \A s \in 0..(m - 1) : datTree'.entryFile[s] = datTree.entryFile[s]
    BY <2>2, <2>4, <2>8
  <2>13. \A j \in StoredKeys' :
                   \/ j \in StoredKeys /\ idxTree'[j] = idxTree[j]
                   \/ idxTree'[j] = datTree'.maxSerialNum - 1
    BY <2>4, <2>6, <2>10
  <2>. QED
    BY <2>3, <2>4, <2>5, <2>10, <2>11, <2>12, <2>13
<1>. QED
  BY <1>0, <1>1, <1>2, <1>3, StoreStep

-----------------------------------------------------------------------------
(* What holds of the file at every step of a block *)

\* The last entry of a stored key in the file is the one it is indexed at, nothing in the
\* file is from the future, and the oldest active twig is full.
LatestIsLast ==
    \A k \in StoredKeys : \A sn \in 0..(datTree.maxSerialNum - 1) :
        datTree.entryFile[sn].entry.key = k => sn <= idxTree[k]
FileOK ==
    /\ LogOK(datTree, DeactivedSNListMaxLen) /\ Unlisted(datTree)
    /\ currHeight >= -1
    /\ \A sn \in 0..(datTree.maxSerialNum - 1) : datTree.entryFile[sn].entry.height <= currHeight
    /\ DummyKey \notin AllKeys => LatestIsLast
    /\ (oldestActiveTwigID + 1) * LeafCountInTwig <= datTree.maxSerialNum
    /\ phase = "reaping" => (oldestActiveTwigID + 2) * LeafCountInTwig <= datTree.maxSerialNum

LEMMA InitFile == Init => FileOK
<1>. SUFFICES ASSUME Init PROVE FileOK
  OBVIOUS
<1> DEFINE L == LeafCountInTwig
           f == datTree.entryFile
<1>1. L \in Nat \ {0}
  BY SizeAssumption
<1>2. /\ phase = "filling" /\ currHeight = -1 /\ oldestActiveTwigID = 0
      /\ datTree.maxSerialNum = L + 2 /\ datTree.deactivedSNList = <<>> /\ f = InitialEntryFile
      /\ StoredKeys = {StartKey, EndKey}
      /\ idxTree[StartKey] = L /\ idxTree[EndKey] = L + 1
  BY KeyAssumption DEF Init, StoredKeys
<1>3. LogOK(datTree, DeactivedSNListMaxLen)
  BY InitLog
<1>4. Unlisted(datTree)
  BY <1>2 DEF Unlisted, SNSet
<1>5. ASSUME NEW sn \in 0..((L + 2) - 1)
      PROVE  /\ sn < L => f[sn].entry = DummyEntry(sn)
             /\ sn = L => f[sn].entry = GuardEntry(StartKey, sn)
             /\ ~(sn < L) /\ sn # L => f[sn].entry = GuardEntry(EndKey, sn) /\ sn = L + 1
  <2>1. sn \in 0..(L + 1)
    BY <1>1
  <2>2. f[sn].entry = IF sn < L THEN DummyEntry(sn)
                      ELSE GuardEntry(IF sn = L THEN StartKey ELSE EndKey, sn)
    BY <1>2, <2>1 DEF InitialEntryFile
  <2>. QED
    BY <1>1, <2>1, <2>2
<1>. HIDE DEF f
<1>6. ASSUME NEW sn \in 0..((L + 2) - 1)
      PROVE  /\ f[sn].entry.height <= -1
             /\ DummyKey \notin AllKeys => \A k \in {StartKey, EndKey} :
                   f[sn].entry.key = k => sn <= idxTree[k]
  <2>1. StartKey # EndKey /\ StartKey \in AllKeys /\ EndKey \in AllKeys
    BY KeyAssumption DEF AllKeys
  <2>2. CASE sn < L
    <3>0. f[sn].entry = DummyEntry(sn)
      BY <1>5, <2>2
    <3>1. f[sn].entry.height = -2 /\ f[sn].entry.key = DummyKey
      BY <3>0 DEF DummyEntry
    <3>. QED
      BY <2>1, <3>1
  <2>3. CASE sn = L
    <3>0. f[sn].entry = GuardEntry(StartKey, sn)
      BY <1>5, <2>3
    <3>1. f[sn].entry.height = -1 /\ f[sn].entry.key = StartKey
      BY <3>0 DEF GuardEntry
    <3>. QED
      BY <1>1, <1>2, <2>1, <2>3, <3>1
  <2>4. CASE ~(sn < L) /\ sn # L
    <3>0. f[sn].entry = GuardEntry(EndKey, sn) /\ sn = L + 1
      BY <1>5, <2>4
    <3>1. f[sn].entry.height = -1 /\ f[sn].entry.key = EndKey /\ sn = L + 1
      BY <3>0 DEF GuardEntry
    <3>. QED
      BY <1>1, <1>2, <2>1, <3>1
  <2>. QED
    BY <2>2, <2>3, <2>4
<1>7. (oldestActiveTwigID + 1) * L <= datTree.maxSerialNum
  BY <1>1, <1>2
<1>. QED
  BY <1>2, <1>3, <1>4, <1>6, <1>7 DEF FileOK, LatestIsLast, f

\* Heights, and the way to the oldest active twig, only move forward.
LEMMA HeightGrows ==
    ASSUME TypeOK, [Next]_vars
    PROVE  currHeight \in Int /\ currHeight' \in Int /\ currHeight' >= currHeight
<1>1. currHeight \in Int
  BY DEF TypeOK
<1>2. CASE Prepare \/ Mark \/ UNCHANGED vars
  <2>1. currHeight' = currHeight \/ currHeight' = currHeight + 1
    BY <1>2 DEF Prepare, Mark, PrepareForUpdate, PrepareForDeletion, StoreHotEntry,
       StoreNextKey, BeginWrite, Set, Delete, vars, storeVars
  <2>. QED
    BY <1>1, <2>1
<1>3. CASE EndWrite
  <2>1. currHeight' = currHeight
    BY <1>3 DEF EndWrite, Gather, LinkEntry, EndLinking, SweepEntry, EndSweeping, StartReaping,
       ReapEntry, EvictTwig, EndBlock, storeVars
  <2>. QED
    BY <1>1, <2>1
<1>. QED
  BY <1>2, <1>3 DEF Next

LEMMA OldestTwigStep ==
    ASSUME [Next]_vars
    PROVE  \/ EvictTwig
           \/ /\ oldestActiveTwigID' = oldestActiveTwigID
              /\ phase' = "reaping" => phase = "reaping" \/ NeedCompaction
<1>1. CASE Prepare \/ Mark \/ UNCHANGED vars
  BY <1>1 DEF Prepare, Mark, PrepareForUpdate, PrepareForDeletion, StoreHotEntry,
     StoreNextKey, BeginWrite, Set, Delete, vars, storeVars
<1>2. CASE EndWrite
  BY <1>2 DEF EndWrite, Gather, LinkEntry, EndLinking, SweepEntry, EndSweeping,
     StartReaping, ReapEntry, EndBlock, storeVars
<1>. QED
  BY <1>1, <1>2 DEF Next

\* With the thresholds of the code, compaction leaves a full twig behind.
LEMMA CompactionNeedsTwoTwigs ==
    ASSUME TypeOK, IsFiniteSet(StoredKeys), NeedCompaction
    PROVE  (oldestActiveTwigID + 2) * LeafCountInTwig <= datTree.maxSerialNum
<1> DEFINE A == ActiveCount
           R == KeptEntriesToActiveEntriesRatio
           S == StartReapThres
           L == LeafCountInTwig
           o == oldestActiveTwigID
           m == datTree.maxSerialNum
<1>1. /\ A \in Nat /\ R \in Nat \ {0} /\ S \in Nat /\ L \in Nat \ {0} /\ o \in Nat /\ m \in Nat
      /\ R * (S + 1) + 1 >= 2 * L
  BY FS_CardinalityType, SizeAssumption, TwigAssumption DEF TypeOK, IsDataTree, ActiveCount, StoredKeys
<1>2. m - o * L > A * R /\ A > S
  BY DEF NeedCompaction, NumOfKeptEntries
<1>. HIDE DEF A, R, S, L, o, m
<1>3. R * (A - (S + 1)) >= 0
  BY <1>1, <1>2
<1>4. R * (A - (S + 1)) = A * R - R * (S + 1)
  BY <1>1
<1>5. A * R >= R * (S + 1)
  BY <1>1, <1>3, <1>4
<1>6. (o + 2) * L = o * L + 2 * L
  BY <1>1
<1>7. o * L \in Int /\ A * R \in Int /\ R * (S + 1) \in Int
  BY <1>1
<1>8. (o + 2) * L <= m
  BY <1>1, <1>2, <1>5, <1>6, <1>7
<1>. QED
  BY <1>8 DEF o, L, m

LEMMA NextFile ==
    ASSUME FullInv, FullInv', FileOK, [Next]_vars
    PROVE  FileOK'
<1> DEFINE L == LeafCountInTwig
           o == oldestActiveTwigID
           m == datTree.maxSerialNum
           n == datTree'.maxSerialNum
<1>0. IInv /\ TypeOK /\ IsFiniteSet(StoredKeys) /\ L \in Nat \ {0} /\ o \in Nat
  BY SizeAssumption DEF FullInv, IInv, TypeOK, TwigsOK
<1>1. /\ m \in Nat /\ n \in Nat /\ n >= m
      /\ \A s \in 0..(m - 1) : datTree'.entryFile[s] = datTree.entryFile[s]
      /\ \A s \in m..(n - 1) :
            \/ datTree'.entryFile[s].entry = DummyEntry(s)
            \/ /\ datTree'.entryFile[s].entry.key \in StoredKeys'
               /\ idxTree'[datTree'.entryFile[s].entry.key] = s
               /\ \/ datTree'.entryFile[s].entry.height = currHeight'
                  \/ \E j \in StoredKeys : datTree'.entryFile[s].entry.height = ReadEntry(j).height
      /\ \A j \in StoredKeys' :
            \/ j \in StoredKeys /\ idxTree'[j] = idxTree[j]
            \/ idxTree'[j] = n - 1
      /\ LogOK(datTree', DeactivedSNListMaxLen)
      /\ Unlisted(datTree')
  BY <1>0, FileGrows DEF FileOK
<1>2. currHeight \in Int /\ currHeight' \in Int /\ currHeight' >= currHeight /\ currHeight >= -1
  BY <1>0, HeightGrows DEF FileOK
<1>. HIDE DEF m, n
<1>3. ASSUME NEW s \in 0..(n - 1) PROVE s \in 0..(m - 1) \/ s \in m..(n - 1)
  BY <1>1
<1>4. ASSUME NEW s \in 0..(n - 1) PROVE datTree'.entryFile[s].entry.height <= currHeight'
  <2>1. CASE s \in 0..(m - 1)
    <3>1. datTree.entryFile[s].entry.height <= currHeight /\ datTree.entryFile[s].entry.height \in Int
      BY <1>0, <2>1 DEF FileOK, TypeOK, IsDataTree, LogRecord, Entry, m
    <3>. QED
      BY <1>1, <1>2, <2>1, <3>1
  <2>2. CASE s \in m..(n - 1) /\ datTree'.entryFile[s].entry = DummyEntry(s)
    <3>1. datTree'.entryFile[s].entry.height = -2
      BY <2>2 DEF DummyEntry
    <3>. QED
      BY <1>2, <3>1
  <2>3. CASE datTree'.entryFile[s].entry.height = currHeight'
    BY <1>2, <2>3
  <2>4. ASSUME NEW j \in StoredKeys, datTree'.entryFile[s].entry.height = ReadEntry(j).height
        PROVE  datTree'.entryFile[s].entry.height <= currHeight'
    <3>1. ReadEntry(j).height \in Int /\ ReadEntry(j).height <= currHeight
      BY StoredEntry DEF FullInv, IInv, HeightsOK, Entry
    <3>. QED
      BY <1>2, <2>4, <3>1
  <2>. QED
    BY <1>1, <1>3, <2>1, <2>2, <2>3, <2>4
<1>5. ASSUME DummyKey \notin AllKeys, NEW k \in StoredKeys', NEW s \in 0..(n - 1),
             datTree'.entryFile[s].entry.key = k
      PROVE  s <= idxTree'[k]
  <2>1. k \in AllKeys
    BY DEF FullInv, IInv, TypeOK, StoredKeys
  <2>2. CASE idxTree'[k] = n - 1
    BY <1>1, <2>2
  <2>3. CASE s \in 0..(m - 1) /\ k \in StoredKeys /\ idxTree'[k] = idxTree[k]
    BY <1>1, <1>5, <2>3 DEF FileOK, LatestIsLast, m
  <2>4. CASE s \in m..(n - 1)
    <3>1. datTree'.entryFile[s].entry # DummyEntry(s)
      BY <1>5, <2>1 DEF DummyEntry
    <3>2. idxTree'[k] = s
      BY <1>1, <1>5, <2>4, <3>1
    <3>. QED
      BY <3>2
  <2>. QED
    BY <1>1, <1>3, <2>2, <2>3, <2>4
<1>6. /\ (oldestActiveTwigID' + 1) * L <= n
      /\ phase' = "reaping" => (oldestActiveTwigID' + 2) * L <= n
  <2>1. CASE EvictTwig
    <3>1. phase = "reaping" /\ phase' = "compacting" /\ oldestActiveTwigID' = o + 1 /\ n = m
      BY <2>1 DEF EvictTwig, n, m
    <3>2. (o + 2) * L <= m
      BY <3>1 DEF FileOK, m
    <3>3. oldestActiveTwigID' + 1 = o + 2
      BY <1>0, <3>1
    <3>. QED
      BY <3>1, <3>2, <3>3
  <2>2. CASE oldestActiveTwigID' = o /\ (phase' = "reaping" => phase = "reaping" \/ NeedCompaction)
    <3>1. (o + 1) * L <= m /\ (phase' = "reaping" => (o + 2) * L <= m)
      BY <1>0, <2>2, CompactionNeedsTwoTwigs DEF FileOK, m
    <3>2. (o + 1) * L \in Int /\ (o + 2) * L \in Int
      BY <1>0
    <3>. QED
      BY <1>1, <2>2, <3>1, <3>2
  <2>. QED
    BY <2>1, <2>2, OldestTwigStep
<1>7. (DummyKey \notin AllKeys => LatestIsLast)'
  BY <1>5 DEF LatestIsLast, n
<1>. QED
  BY <1>1, <1>2, <1>4, <1>6, <1>7 DEF FileOK, n


-----------------------------------------------------------------------------
(* The upper nodes *)

\* Quotients, by what determines them.
LEMMA Quotient ==
    ASSUME NEW n \in Nat, NEW w \in Nat \ {0}
    PROVE  /\ n \div w \in Nat /\ w * (n \div w) <= n /\ n < w * (n \div w) + w
           /\ \A q \in Nat : w * q <= n /\ n < w * q + w => n \div w = q
<1> DEFINE p == n \div w
           r == n % w
<1>1. n = w * p + r /\ r \in 0..(w - 1) /\ p \in Nat
  OBVIOUS
<1>. HIDE DEF p, r
<1>2. ASSUME NEW q \in Nat, w * q <= n, n < w * q + w PROVE p = q
  <2>1. ~(q + 1 <= p)
    <3>. SUFFICES ASSUME q + 1 <= p PROVE FALSE
      OBVIOUS
    <3>1. w * (p - (q + 1)) >= 0 /\ w * (p - (q + 1)) = w * p - w * q - w
      BY <1>1
    <3>2. w * p \in Int /\ w * q \in Int
      BY <1>1
    <3>. QED
      BY <1>1, <1>2, <3>1, <3>2
  <2>2. ~(p + 1 <= q)
    <3>. SUFFICES ASSUME p + 1 <= q PROVE FALSE
      OBVIOUS
    <3>1. w * (q - (p + 1)) >= 0 /\ w * (q - (p + 1)) = w * q - w * p - w
      BY <1>1
    <3>2. w * p \in Int /\ w * q \in Int
      BY <1>1
    <3>. QED
      BY <1>1, <1>2, <3>1, <3>2
  <2>. QED
    BY <1>1, <2>1, <2>2
<1>3. p \in Nat /\ w * p <= n /\ n < w * p + w
  <2>1. w * p \in Int
    BY <1>1
  <2>. QED
    BY <1>1, <2>1
<1>. QED
  BY <1>2, <1>3 DEF p

LEMMA QuotientHalves ==
    ASSUME NEW n \in Nat, NEW w \in Nat \ {0}
    PROVE  n \div w \in {2 * (n \div (2 * w)), 2 * (n \div (2 * w)) + 1}
<1> DEFINE c == n \div w
           i == n \div (2 * w)
<1>1. c \in Nat /\ w * c <= n /\ n < w * c + w
  BY Quotient
<1>2. i \in Nat /\ (2 * w) * i <= n /\ n < (2 * w) * i + 2 * w
  BY Quotient, 2 * w \in Nat \ {0}
<1>. HIDE DEF c, i
<1>3. /\ w * c \in Int /\ (2 * w) * i \in Int /\ w * (2 * i) = (2 * w) * i
  BY <1>1, <1>2
<1>4. ~(c + 1 <= 2 * i)
  <2>. SUFFICES ASSUME c + 1 <= 2 * i PROVE FALSE
    OBVIOUS
  <2>1. w * (2 * i - (c + 1)) >= 0 /\ w * (2 * i - (c + 1)) = w * (2 * i) - w * c - w
    BY <1>1, <1>2
  <2>. QED
    BY <1>1, <1>2, <1>3, <2>1
<1>5. ~(2 * i + 2 <= c)
  <2>. SUFFICES ASSUME 2 * i + 2 <= c PROVE FALSE
    OBVIOUS
  <2>1. w * (c - (2 * i + 2)) >= 0 /\ w * (c - (2 * i + 2)) = w * c - w * (2 * i) - 2 * w
    BY <1>1, <1>2
  <2>. QED
    BY <1>1, <1>2, <1>3, <2>1
<1>6. c = 2 * i \/ c = 2 * i + 1
  BY <1>1, <1>2, <1>4, <1>5
<1>. QED
  BY <1>6 DEF c, i

\* Width is defined at every level.
Doubles(g, n) == g[0] = 1 /\ \A l \in 1..n : g[l] = 2 * g[l - 1]

LEMMA DoublingExists ==
    ASSUME NEW n \in Nat
    PROVE  \E g \in [0..n -> Nat] : Doubles(g, n)
<1> DEFINE B == {m \in Nat : ~\E g \in [0..m -> Nat] : Doubles(g, m)}
<1>. SUFFICES ASSUME B # {} PROVE FALSE
  OBVIOUS
<1>1. Least(B) \in B /\ \A m \in B : Least(B) <= m
  BY LeastSN, B \in SUBSET Nat
<1> DEFINE m == Least(B)
<1>2. m \in Nat /\ ~\E g \in [0..m -> Nat] : Doubles(g, m)
  BY <1>1
<1>3. \A i \in Nat : i < m => \E g \in [0..i -> Nat] : Doubles(g, i)
  BY <1>1, <1>2
<1>. HIDE DEF B, m
<1>4. CASE m = 0
  <2>1. [l \in 0..0 |-> 1] \in [0..0 -> Nat] /\ Doubles([l \in 0..0 |-> 1], 0)
    BY DEF Doubles
  <2>. QED
    BY <1>2, <1>4, <2>1
<1>5. CASE m # 0
  <2>1. m - 1 \in Nat /\ m - 1 < m
    BY <1>2, <1>5
  <2>2. PICK g \in [0..(m - 1) -> Nat] : Doubles(g, m - 1)
    BY <1>3, <2>1
  <2> DEFINE h == [l \in 0..m |-> IF l = m THEN 2 * g[m - 1] ELSE g[l]]
  <2>3. g[m - 1] \in Nat
    BY <2>1, <2>2
  <2>4. h \in [0..m -> Nat]
    BY <1>2, <2>2, <2>3
  <2>5. ASSUME NEW l \in 1..m PROVE h[l] = 2 * h[l - 1]
    <3>0. l \in Nat /\ l - 1 \in 0..(m - 1) /\ l - 1 # m /\ l \in 0..m /\ l - 1 \in 0..m
      BY <1>2
    <3>1. h[l - 1] = g[l - 1]
      BY <3>0
    <3>2. CASE l = m
      <4>1. h[l] = 2 * g[m - 1]
        BY <3>0, <3>2
      <4>. HIDE DEF h
      <4>. QED
        BY <3>1, <3>2, <4>1
    <3>3. CASE l # m
      <4>1. h[l] = g[l] /\ l \in 1..(m - 1)
        BY <1>2, <3>0, <3>3
      <4>. HIDE DEF h
      <4>. QED
        BY <2>2, <3>1, <4>1 DEF Doubles
    <3>. QED
      BY <3>2, <3>3
  <2>6. h[0] = 1
    BY <1>2, <1>5, <2>2 DEF Doubles
  <2>. HIDE DEF h
  <2>. QED
    BY <1>2, <2>4, <2>5, <2>6 DEF Doubles
<1>. QED
  BY <1>4, <1>5

LEMMA DoublingUnique ==
    ASSUME NEW n \in Nat, NEW g, Doubles(g, n), NEW h, Doubles(h, n)
    PROVE  \A l \in 0..n : g[l] = h[l]
<1> DEFINE B == {l \in 0..n : g[l] # h[l]}
<1>. SUFFICES ASSUME B # {} PROVE FALSE
  OBVIOUS
<1>1. Least(B) \in B /\ \A l \in B : Least(B) <= l
  BY LeastSN, B \in SUBSET Nat
<1> DEFINE m == Least(B)
<1>2. m \in 0..n /\ g[m] # h[m] /\ \A l \in 0..n : l < m => g[l] = h[l]
  BY <1>1
<1>. HIDE DEF B, m
<1>3. m # 0
  BY <1>2 DEF Doubles
<1>4. m \in 1..n /\ m - 1 \in 0..n /\ m - 1 < m
  BY <1>2, <1>3
<1>5. g[m - 1] = h[m - 1]
  BY <1>2, <1>4
<1>. QED
  BY <1>2, <1>4, <1>5 DEF Doubles

LEMMA WidthDef ==
    Width[0] = 1 /\ \A l \in Nat : Width[l] \in Nat /\ Width[l + 1] = 2 * Width[l]
<1> DEFINE G(n) == CHOOSE g \in [0..n -> Nat] : Doubles(g, n)
           w == [l \in Nat |-> G(l)[l]]
<1>1. \A n \in Nat : G(n) \in [0..n -> Nat] /\ Doubles(G(n), n)
  BY DoublingExists
<1>. HIDE DEF G
<1>2. \A l \in Nat : w[l] \in Nat
  <2>. SUFFICES ASSUME NEW l \in Nat PROVE w[l] \in Nat
    OBVIOUS
  <2>1. G(l) \in [0..l -> Nat] /\ l \in 0..l
    BY <1>1
  <2>. QED
    BY <2>1
<1>3. w[0] = 1
  BY <1>1 DEF Doubles
<1>4. ASSUME NEW l \in Nat PROVE w[l + 1] = 2 * w[l]
  <2>1. Doubles(G(l + 1), l + 1) /\ Doubles(G(l), l)
    BY <1>1
  <2>2. Doubles(G(l + 1), l)
    BY <2>1 DEF Doubles
  <2>3. G(l + 1)[l] = G(l)[l]
    BY <2>1, <2>2, DoublingUnique, l \in 0..l
  <2>4. G(l + 1)[l + 1] = 2 * G(l + 1)[l]
    <3>1. l + 1 \in 1..(l + 1) /\ (l + 1) - 1 = l
      OBVIOUS
    <3>. QED
      BY <2>1, <3>1 DEF Doubles
  <2>. QED
    BY <2>3, <2>4
<1>5. w = [level \in Nat |-> IF level = 0 THEN 1 ELSE 2 * w[level - 1]]
  <2>1. ASSUME NEW l \in Nat PROVE w[l] = IF l = 0 THEN 1 ELSE 2 * w[l - 1]
    <3>1. CASE l = 0
      BY <1>3, <3>1
    <3>2. CASE l # 0
      <4>1. l - 1 \in Nat /\ (l - 1) + 1 = l
        BY <3>2
      <4>2. w[(l - 1) + 1] = 2 * w[l - 1]
        BY <1>4, <4>1
      <4>. HIDE DEF w
      <4>. QED
        BY <3>2, <4>1, <4>2
    <3>. QED
      BY <3>1, <3>2
  <2>2. w = [l \in Nat |-> w[l]]
    OBVIOUS
  <2>. HIDE DEF w
  <2>. QED
    BY <2>1, <2>2
<1>. HIDE DEF w
<1>6. Width = [level \in Nat |-> IF level = 0 THEN 1 ELSE 2 * Width[level - 1]]
  BY <1>5 DEF Width
<1>7. ASSUME NEW l \in Nat PROVE Width[l + 1] = 2 * Width[l]
  <2>1. l + 1 \in Nat /\ l + 1 # 0 /\ (l + 1) - 1 = l
    OBVIOUS
  <2>. QED
    BY <1>6, <2>1
<1>8. Width[0] = 1
  BY <1>6
<1>9. ASSUME NEW l \in Nat PROVE Width[l] \in Nat
  <2> DEFINE B == {i \in Nat : Width[i] \notin Nat}
  <2>. SUFFICES ASSUME B # {} PROVE FALSE
    OBVIOUS
  <2>1. Least(B) \in B /\ \A i \in B : Least(B) <= i
    BY LeastSN, B \in SUBSET Nat
  <2> DEFINE m == Least(B)
  <2>2. m \in Nat /\ Width[m] \notin Nat /\ \A i \in Nat : i < m => Width[i] \in Nat
    BY <2>1
  <2>. HIDE DEF B, m
  <2>3. m - 1 \in Nat /\ m - 1 < m /\ (m - 1) + 1 = m
    BY <1>8, <2>2
  <2>4. Width[m] = 2 * Width[m - 1] /\ Width[m - 1] \in Nat
    BY <1>7, <2>2, <2>3
  <2>. QED
    BY <2>2, <2>4
<1>. QED
  BY <1>7, <1>8, <1>9

LEMMA WidthGrows ==
    /\ \A l \in Nat : Width[l] \in Nat \ {0} /\ l < Width[l]
    /\ \A l, m \in Nat : l <= m => Width[l] <= Width[m]
<1>1. \A l \in Nat : Width[l] \in Nat /\ Width[l + 1] = 2 * Width[l]
  BY WidthDef
<1>2. \A l \in Nat : l < Width[l]
  <2> DEFINE B == {i \in Nat : ~(i < Width[i])}
  <2>. SUFFICES ASSUME B # {} PROVE FALSE
    OBVIOUS
  <2>1. Least(B) \in B /\ \A i \in B : Least(B) <= i
    BY LeastSN, B \in SUBSET Nat
  <2> DEFINE m == Least(B)
  <2>2. m \in Nat /\ ~(m < Width[m]) /\ \A i \in Nat : i < m => i < Width[i]
    BY <2>1
  <2>. HIDE DEF B, m
  <2>3. m - 1 \in Nat /\ m - 1 < m /\ (m - 1) + 1 = m
    BY WidthDef, <2>2
  <2>4. Width[m] = 2 * Width[m - 1] /\ Width[m - 1] \in Nat /\ m - 1 < Width[m - 1]
    BY <1>1, <2>2, <2>3
  <2>. QED
    BY <2>2, <2>3, <2>4
<1>3. ASSUME NEW l \in Nat, NEW k \in Nat, l <= k PROVE Width[l] <= Width[k]
  <2> DEFINE B == {i \in Nat : l <= i /\ ~(Width[l] <= Width[i])}
  <2>. SUFFICES ASSUME B # {} PROVE FALSE
    BY <1>1, <1>3
  <2>1. Least(B) \in B /\ \A i \in B : Least(B) <= i
    BY LeastSN, B \in SUBSET Nat
  <2> DEFINE m == Least(B)
  <2>2. /\ m \in Nat /\ l <= m /\ ~(Width[l] <= Width[m])
        /\ \A i \in Nat : l <= i /\ i < m => Width[l] <= Width[i]
    BY <2>1
  <2>. HIDE DEF B, m
  <2>3. m # l
    BY <1>1, <2>2
  <2>4. m - 1 \in Nat /\ l <= m - 1 /\ m - 1 < m /\ (m - 1) + 1 = m
    BY <2>2, <2>3
  <2>5. Width[m] = 2 * Width[m - 1] /\ Width[m - 1] \in Nat /\ Width[l] <= Width[m - 1]
    BY <1>1, <2>2, <2>4
  <2>. QED
    BY <1>1, <2>2, <2>5
<1>. QED
  BY <1>1, <1>2, <1>3

\* The root stands over the youngest twig, and so does every node above it.
LEMMA MaxLevelProp ==
    ASSUME NEW y \in Nat
    PROVE  /\ calcMaxLevel(y) \in Nat
           /\ \A l \in Nat : calcMaxLevel(y) <= l => y < Width[l]
<1> DEFINE S == {l \in 0..y : y < Width[l]}
           m == Least(S)
<1>1. y \in S
  BY WidthGrows
<1>2. S \in SUBSET Nat
  OBVIOUS
<1>3. m \in S
  BY <1>1, <1>2, LeastSN
<1>4. m \in Nat /\ y < Width[m] /\ calcMaxLevel(y) = m
  BY <1>3 DEF calcMaxLevel
<1>. HIDE DEF m, S
<1>5. ASSUME NEW l \in Nat, m <= l PROVE y < Width[l]
  BY <1>4, <1>5, WidthGrows
<1>. QED
  BY <1>4, <1>5

\* The edge nodes of a pruning of the twigs below end.
EdgesAt(end, youngest) ==
    {<<level, EndRound(end, level)>> : level \in 0..calcMaxLevel(youngest)}

LEMMA EdgesAreNodes ==
    ASSUME NEW end \in Nat, NEW youngest \in Nat
    PROVE  EdgesAt(end, youngest) \subseteq Nat \X Nat
<1>1. ASSUME NEW l \in 0..calcMaxLevel(youngest) PROVE <<l, EndRound(end, l)>> \in Nat \X Nat
  <2>1. l \in Nat
    BY MaxLevelProp
  <2> DEFINE e == end \div Width[l]
  <2>2. e \in Nat
    BY <2>1, WidthGrows, Quotient
  <2>. HIDE DEF e
  <2>3. (IF e % 2 # 0 /\ l # 0 THEN e - 1 ELSE e) \in Nat
    BY <2>2
  <2>. QED
    BY <2>1, <2>3 DEF EndRound, e
<1>. QED
  BY <1>1 DEF EdgesAt

\* A scan that starts below a right child starts in the subtree of the first kept twig.
LEMMA SameRightChild ==
    ASSUME NEW start \in Nat, NEW end \in Nat, NEW l \in Nat \ {0}, NEW i \in Nat,
           start % 2 = 0, end = start + 1 \/ (end = start + 2 /\ start % 4 = 0),
           start \div Width[l] = 2 * i + 1
    PROVE  end \div Width[l] = 2 * i + 1
<1> DEFINE w == Width[l]
           q == 2 * i + 1
<1>1. w \in Nat \ {0}
  BY WidthGrows
<1>2. w * q <= start /\ start < w * q + w
  BY <1>1, Quotient
<1>3. SUFFICES end < w * q + w
  BY <1>1, <1>2, Quotient, q \in Nat, w * q \in Int
<1>4. CASE l = 1
  <2>1. w = 2
    BY <1>4, WidthDef, 0 + 1 = 1
  <2>. HIDE DEF w
  <2>. QED
    BY <1>2, <2>1
<1>5. CASE l # 1
  <2>1. /\ l - 2 \in Nat /\ l - 1 \in Nat /\ (l - 2) + 1 = l - 1 /\ (l - 1) + 1 = l
    BY <1>5
  <2>2. w = 2 * Width[l - 1] /\ Width[l - 1] = 2 * Width[l - 2] /\ Width[l - 2] \in Nat
    BY <2>1, WidthDef
  <2> DEFINE v == Width[l - 2]
             x == v * q + v
  <2>3. v \in Nat /\ w = 4 * v
    BY <2>2
  <2>. HIDE DEF w, v, q
  <2>4. q \in Nat
    BY DEF q
  <2>5. x \in Int /\ w * q + w = 4 * x
    BY <2>3, <2>4
  <2>. HIDE DEF x
  <2>6. start < 4 * x
    BY <1>2, <2>5
  <2>7. end < 4 * x
    BY <2>5, <2>6
  <2>. QED
    BY <2>5, <2>7 DEF w, q
<1>. QED
  BY <1>4, <1>5

\* Node i of level k has its children: they stand over twigs of start..last, are edge nodes,
\* or lie at the right edge.
Closes(k, i, start, last, edges, youngest) ==
    LET w == Width[k - 1]
    IN  /\ \/ \E s \in start..last : 2 * i = s \div w
           \/ <<k - 1, 2 * i>> \in edges
        /\ \/ \E s \in start..last : 2 * i + 1 = s \div w
           \/ youngest \div w \in {2 * i, 2 * i + 1}

\* The nodes above the twigs start..last and the edge nodes of a pruning that ended just
\* before or behind start close the tree.
LEMMA UpperNodesFit ==
    ASSUME NEW start \in Nat, NEW last \in Nat, NEW end \in Nat, NEW saved \in Nat,
           NEW youngest \in Nat, start <= last, end <= saved, youngest \in {last, last + 1},
           start % 2 = 0, end = start + 1 \/ (end = start + 2 /\ start % 4 = 0),
           NEW k \in Nat \ {0}, NEW t \in start..last
    PROVE  Closes(k, t \div Width[k], start, last, EdgesAt(end, saved), youngest)
<1> DEFINE w == Width[k - 1]
           i == t \div Width[k]
           c == t \div w
<1>0. k - 1 \in Nat /\ (k - 1) + 1 = k /\ t \in Nat /\ start <= t /\ t <= last
  OBVIOUS
<1>1. w \in Nat \ {0} /\ Width[k] = 2 * w
  BY <1>0, WidthGrows, WidthDef
<1>2. i \in Nat /\ c \in {2 * i, 2 * i + 1}
  BY <1>0, <1>1, Quotient, QuotientHalves, 2 * w \in Nat \ {0}
<1>3. w * c <= t /\ t < w * c + w
  BY <1>0, <1>1, Quotient
<1>. HIDE DEF w, i, c
<1>4. w * (2 * i + 1) = w * (2 * i) + w /\ w * (2 * i) \in Nat
  BY <1>1, <1>2
<1>5. \/ \E s \in start..last : 2 * i = s \div w
      \/ <<k - 1, 2 * i>> \in EdgesAt(end, saved)
  <2>1. CASE c = 2 * i
    BY <1>0, <2>1 DEF c
  <2>2. CASE c = 2 * i + 1 /\ start < w * (2 * i + 1)
    <3> DEFINE s == w * (2 * i + 1) - 1
    <3>1. s \in Nat /\ start <= s /\ s <= last
      BY <1>0, <1>1, <1>2, <1>3, <1>4, <2>2
    <3>2. w * (2 * i) <= s /\ s < w * (2 * i) + w
      BY <1>1, <1>4
    <3>. HIDE DEF s
    <3>3. s \div w = 2 * i
      BY <1>1, <1>2, <3>1, <3>2, Quotient, 2 * i \in Nat
    <3>. QED
      BY <3>1, <3>3
  <2>3. CASE c = 2 * i + 1 /\ ~(start < w * (2 * i + 1))
    <3>1. w * (2 * i + 1) <= start /\ start < w * (2 * i + 1) + w
      BY <1>0, <1>1, <1>2, <1>3, <1>4, <2>3
    <3>2. start \div w = 2 * i + 1
      BY <1>1, <1>2, <3>1, Quotient, 2 * i + 1 \in Nat
    <3>3. k # 1
      <4>. SUFFICES ASSUME k = 1 PROVE FALSE
        OBVIOUS
      <4>1. w = 1
        BY WidthDef DEF w
      <4>. QED
        BY <1>2, <3>1, <4>1
    <3>4. k - 1 \in Nat \ {0}
      BY <3>3
    <3>5. end \div w = 2 * i + 1
      BY <1>2, <3>2, <3>4, SameRightChild DEF w
    <3>6. k - 1 <= calcMaxLevel(saved)
      <4>. SUFFICES ASSUME calcMaxLevel(saved) <= k - 1 PROVE FALSE
        BY <1>0, MaxLevelProp
      <4>1. end < w
        BY <1>0, <1>1, MaxLevelProp DEF w
      <4>2. w * (2 * i + 1) <= end
        BY <1>1, <3>5, Quotient
      <4>. QED
        BY <1>1, <1>4, <4>1, <4>2
    <3>7. EndRound(end, k - 1) = 2 * i
      <4>1. (2 * i + 1) % 2 # 0 /\ (2 * i + 1) - 1 = 2 * i
        BY <1>2
      <4>. QED
        BY <3>4, <3>5, <4>1 DEF EndRound, w
    <3>8. k - 1 \in 0..calcMaxLevel(saved)
      BY <1>0, <3>6, MaxLevelProp
    <3>. QED
      BY <3>7, <3>8 DEF EdgesAt
  <2>. QED
    BY <1>2, <2>1, <2>2, <2>3
<1>6. \/ \E s \in start..last : 2 * i + 1 = s \div w
      \/ youngest \div w \in {2 * i, 2 * i + 1}
  <2>1. CASE c = 2 * i + 1
    BY <1>0, <2>1 DEF c
  <2>2. CASE c = 2 * i /\ w * (2 * i + 1) <= last
    <3> DEFINE s == w * (2 * i + 1)
    <3>1. s \in Nat /\ start <= s /\ s <= last
      BY <1>0, <1>1, <1>3, <1>4, <2>2
    <3>2. w * (2 * i + 1) <= s /\ s < w * (2 * i + 1) + w
      BY <1>1, <3>1
    <3>. HIDE DEF s
    <3>3. s \div w = 2 * i + 1
      BY <1>1, <1>2, <3>1, <3>2, Quotient, 2 * i + 1 \in Nat
    <3>. QED
      BY <3>1, <3>3
  <2>3. CASE c = 2 * i /\ ~(w * (2 * i + 1) <= last)
    <3>1. w * (2 * i) <= youngest /\ youngest <= w * (2 * i + 1)
      <4> DEFINE lo == w * (2 * i)
                 hi == w * (2 * i + 1)
      <4>1. lo <= t
        BY <1>3, <2>3
      <4>2. ~(hi <= last)
        BY <2>3
      <4>3. lo \in Int /\ hi \in Int
        BY <1>1, <1>4
      <4>. HIDE DEF lo, hi
      <4>4. lo <= youngest /\ youngest <= hi
        <5>1. last \in Int /\ t \in Int /\ youngest \in Int /\ t <= last
          BY <1>0
        <5>2. youngest = last \/ youngest = last + 1
          OBVIOUS
        <5>3. last < hi
          BY <4>2, <4>3, <5>1
        <5>4. lo <= last
          BY <4>1, <4>3, <5>1
        <5>. HIDE DEF w
        <5>. QED
          BY ONLY <4>3, <5>1, <5>2, <5>3, <5>4
      <4>. QED
        BY <4>4 DEF lo, hi
    <3>2. CASE youngest < w * (2 * i) + w
      BY <1>1, <1>2, <3>1, <3>2, Quotient, 2 * i \in Nat
    <3>3. CASE ~(youngest < w * (2 * i) + w)
      <4> DEFINE hi == w * (2 * i + 1)
      <4>0. hi \in Int /\ youngest <= hi /\ ~(youngest < hi)
        BY <1>1, <1>4, <3>1, <3>3
      <4>. HIDE DEF hi
      <4>1. youngest = w * (2 * i + 1)
        BY <4>0 DEF hi
      <4>2. w * (2 * i + 1) <= youngest /\ youngest < w * (2 * i + 1) + w
        BY <1>1, <4>1
      <4>. QED
        BY <1>1, <1>2, <4>2, Quotient, 2 * i + 1 \in Nat
    <3>. QED
      BY <3>2, <3>3
  <2>. QED
    BY <1>2, <2>1, <2>2, <2>3
<1>. QED
  BY <1>5, <1>6 DEF w, i, Closes

LEMMA FullTwigsProp ==
    ASSUME NEW a \in Nat, NEW b \in Nat, a <= b
    PROVE  /\ FullTwigs(a) \in Nat /\ FullTwigs(b) \in Nat /\ FullTwigs(a) <= FullTwigs(b)
           /\ \A t \in Nat : (t + 1) * LeafCountInTwig <= b => t < FullTwigs(b)
<1> DEFINE L == LeafCountInTwig
           p == a \div L
           q == b \div L
           r == a % L
           s == b % L
<1>1. L \in Nat \ {0}
  BY SizeAssumption
<1>2. /\ a = L * p + r /\ r \in 0..(L - 1) /\ p \in Nat
      /\ b = L * q + s /\ s \in 0..(L - 1) /\ q \in Nat
  BY <1>1
<1>. HIDE DEF p, q, r, s, L
<1>3. p <= q
  <2>. SUFFICES ASSUME q + 1 <= p PROVE FALSE
    BY <1>2
  <2>1. L * (p - (q + 1)) >= 0
    BY <1>1, <1>2
  <2>2. L * (p - (q + 1)) = L * p - L * q - L
    BY <1>1, <1>2
  <2>. QED
    BY <1>1, <1>2, <2>1, <2>2
<1>4. ASSUME NEW t \in Nat, (t + 1) * L <= b PROVE t < q
  <2>. SUFFICES ASSUME q <= t PROVE FALSE
    BY <1>2
  <2>1. L * (t - q) >= 0
    BY <1>1, <1>2
  <2>2. L * (t - q) = (t + 1) * L - L * q - L
    BY <1>1, <1>2
  <2>3. (t + 1) * L \in Int /\ L * q \in Int
    BY <1>1, <1>2
  <2>. QED
    BY <1>1, <1>2, <1>4, <2>1, <2>2, <2>3
<1>. QED
  BY <1>2, <1>3, <1>4 DEF FullTwigs, p, q, L


-----------------------------------------------------------------------------
(* The inductive invariant of Recovery *)

IsListed(f, n, t) == \E sn \in 0..(n - 1) : t \in SNSet(f[sn].snList)

\* The state c can be read off the first c.maxSerialNum entries of the file f, but for the
\* entries the list in memory had deactivated.
ReadOff(c, f) ==
    /\ c.activeBits = {t \in 0..(c.maxSerialNum - 1) :
                          ~IsListed(f, c.maxSerialNum, t) /\ t \notin c.pending}
    /\ \A t \in c.pending : t \in 0..(c.maxSerialNum - 1) /\ ~IsListed(f, c.maxSerialNum, t)
    /\ \A k \in DOMAIN c.idxTree :
          c.idxTree[k] \in c.activeBits /\ f[c.idxTree[k]].entry.key = k
    /\ DummyKey \notin AllKeys =>
          \A k \in DOMAIN c.idxTree : \A sn \in 0..(c.maxSerialNum - 1) :
              f[sn].entry.key = k => sn <= c.idxTree[k]

\* The block has not changed what is stored yet.
Untouched == phase \in {"filling", "marking", "linking"}

CommittedOK ==
    /\ committed.maxSerialNum \in 0..datTree.maxSerialNum
    /\ ReadOff(committed, datTree.entryFile)
    /\ Untouched => committed = Snapshot

\* The heights recorded for twigs bound those of the entries before them.
TwigHeightsOK(heights, d) ==
    /\ heights \in [DOMAIN heights -> Int]
    /\ \A t \in DOMAIN heights :
          /\ t \in Nat /\ t * LeafCountInTwig <= d.maxSerialNum
          /\ \A sn \in 0..(d.maxSerialNum - 1) :
                sn < t * LeafCountInTwig => d.entryFile[sn].entry.height <= heights[t]

\* The database is of one batch: its oldest active twig is the one of the committed state,
\* and was full.
DbOK ==
    /\ db = [currHeight |-> db.currHeight, maxSerialNum |-> db.maxSerialNum,
             oldestActiveTwigID |-> db.oldestActiveTwigID, lastPrunedTwig |-> db.lastPrunedTwig,
             edgeNodes |-> db.edgeNodes, isRunning |-> db.isRunning,
             twigHeight |-> db.twigHeight]
    /\ db.maxSerialNum = committed.maxSerialNum
    /\ db.oldestActiveTwigID \in Nat
    /\ (db.oldestActiveTwigID + 1) * LeafCountInTwig <= committed.maxSerialNum
    /\ \A sn \in committed.activeBits : sn >= db.oldestActiveTwigID * LeafCountInTwig
    /\ Untouched => db.oldestActiveTwigID = oldestActiveTwigID
    /\ TwigHeightsOK(db.twigHeight, datTree)

\* The edge nodes are those of the last pruning, up to the root the tree had then.
EdgesOK ==
    /\ db.edgeNodes \subseteq Nat \X Nat
    /\ lastPrunedTwig >= 0 =>
          \E youngest \in Nat : /\ lastPrunedTwig + 1 <= youngest
                                /\ db.edgeNodes = EdgesAt(lastPrunedTwig + 1, youngest)

\* Pruning stays behind the oldest active twig the database knows of.
PrunedOK ==
    /\ lastPrunedTwig \in Int /\ lastPrunedTwig >= -1
    /\ lastPrunedTwig < db.oldestActiveTwigID /\ db.oldestActiveTwigID <= oldestActiveTwigID
    /\ lostTwigs \in 0..(lastPrunedTwig + 1)
    /\ EdgesOK
    /\ db.lastPrunedTwig \in Int /\ db.lastPrunedTwig <= lastPrunedTwig
    /\ prunedBefore \in Int
    /\ \A sn \in 0..(datTree.maxSerialNum - 1) :
          sn < (lastPrunedTwig + 1) * LeafCountInTwig =>
              datTree.entryFile[sn].entry.height < prunedBefore

\* What a flush that is not running any more has put on disk.
FlushGoal == IF blockEnded THEN datTree.maxSerialNum ELSE committed.maxSerialNum

DiskOK ==
    /\ entriesOnDisk \in 0..datTree.maxSerialNum
    /\ twigsOnDisk \in 0..FullTwigs(datTree.maxSerialNum)
    /\ {blockEnded, entriesFlushing, tornEntry, twigsFlushing, quiet} \subseteq BOOLEAN
    /\ proc \in {"running", "closing"} =>
          /\ ~entriesFlushing => entriesOnDisk >= FlushGoal
          /\ ~twigsFlushing => twigsOnDisk >= FullTwigs(FlushGoal)
          /\ ~tornEntry
    /\ quiet => /\ entriesOnDisk = committed.maxSerialNum
                /\ twigsOnDisk >= FullTwigs(committed.maxSerialNum)
                /\ ~tornEntry

\* What the process has left behind: which way it went down, and the dump.
ProcOK ==
    /\ proc \in {"running", "closing", "down", "opened", "dead"}
    /\ blockEnded => phase = "compacting"
    /\ proc \in {"running", "closing"} => ~quiet /\ dump = <<>>
    /\ proc = "running" => db.isRunning
    /\ proc = "closing" => phase = "filling" /\ ~db.isRunning /\ ~blockEnded
    /\ proc = "dead" => ~quiet
    /\ proc = "down" /\ quiet => (db.isRunning <=> dump = <<>>)
    /\ dump # <<>> => dump = <<committed.activeBits>>

\* What a restart has given back.
OpenedOK ==
    /\ DummyKey \notin AllKeys => KeepsStoredKeys
    /\ RestoresActiveBits
    /\ QuietRestartSucceeds

RInv == FullInv /\ FileOK /\ CommittedOK /\ DbOK /\ PrunedOK /\ DiskOK /\ ProcOK /\ OpenedOK

-----------------------------------------------------------------------------
(* Steps of Recovery are steps of OnvaKV *)

LEMMA RNextIsNext ==
    ASSUME [RNext]_allVars
    PROVE  [Next]_vars
<1>1. CASE Work(Prepare) \/ Work(Mark) \/ Work(Sweep)
  BY <1>1 DEF Work, Sweep, Next, EndWrite
<1>2. CASE CommitBatch
  BY <1>2 DEF CommitBatch, Next, EndWrite
<1>3. CASE ~(Work(Prepare) \/ Work(Mark) \/ Work(Sweep) \/ CommitBatch)
  BY <1>3 DEF RNext, TreeEndBlock, FlushEntries, FlushTwigs, PruneBeforeHeight, BeginClose,
     FinishClose, Crash, Open, allVars
<1>. QED
  BY <1>1, <1>2, <1>3

\* The steps that are no steps of OnvaKV, and those that are; only a commit touches what
\* is committed, and only a commit ends the changes of a block.
LEMMA RStepKinds ==
    ASSUME [RNext]_allVars
    PROVE  \/ CommitBatch
           \/ /\ (Prepare \/ Mark \/ Sweep) /\ proc = "running" /\ ~blockEnded
              /\ UNCHANGED recVars
           \/ UNCHANGED <<vars, committed>>
<1>1. CASE Work(Prepare) \/ Work(Mark) \/ Work(Sweep)
  BY <1>1 DEF Work
<1>2. CASE ~(Work(Prepare) \/ Work(Mark) \/ Work(Sweep))
  BY <1>2 DEF RNext, TreeEndBlock, FlushEntries, FlushTwigs, PruneBeforeHeight, BeginClose,
     FinishClose, Crash, Open, allVars, recVars
<1>. QED
  BY <1>1, <1>2

LEMMA WorkFrame ==
    ASSUME TypeOK, Prepare \/ Mark \/ Sweep, Untouched'
    PROVE  Untouched /\ UNCHANGED <<idxTree, datTree, oldestActiveTwigID>>
<1>1. CASE Prepare \/ Mark
  BY <1>1 DEF Prepare, Mark, PrepareForUpdate, PrepareForDeletion, StoreHotEntry,
     StoreNextKey, BeginWrite, Set, Delete, vars, storeVars, Untouched
<1>2. CASE Sweep
  BY <1>2 DEF Sweep, Gather, LinkEntry, EndLinking, SweepEntry, EndSweeping,
     StartReaping, ReapEntry, EvictTwig, EndBlock, storeVars, Untouched
<1>. QED
  BY <1>1, <1>2


-----------------------------------------------------------------------------
(* The committed state *)

\* Appending does not change what can be read off the older entries.
LEMMA ReadOffFrame ==
    ASSUME NEW c, NEW f, NEW g, c.maxSerialNum \in Nat, ReadOff(c, f),
           \A s \in 0..(c.maxSerialNum - 1) : g[s] = f[s]
    PROVE  ReadOff(c, g)
<1> DEFINE n == c.maxSerialNum
<1>1. \A t : IsListed(g, n, t) <=> IsListed(f, n, t)
  BY DEF IsListed
<1>2. c.activeBits = {t \in 0..(n - 1) : ~IsListed(g, n, t) /\ t \notin c.pending}
  <2>1. c.activeBits = {t \in 0..(n - 1) : ~IsListed(f, n, t) /\ t \notin c.pending}
    BY DEF ReadOff
  <2>. HIDE DEF n
  <2>. QED
    BY <1>1, <2>1
<1>3. \A t \in c.pending : t \in 0..(n - 1) /\ ~IsListed(g, n, t)
  BY <1>1 DEF ReadOff
<1>4. \A k \in DOMAIN c.idxTree : c.idxTree[k] \in c.activeBits /\ g[c.idxTree[k]].entry.key = k
  <2>1. \A t \in c.activeBits : t \in 0..(n - 1)
    BY <1>2
  <2>. QED
    BY <2>1 DEF ReadOff
<1>5. DummyKey \notin AllKeys =>
          \A k \in DOMAIN c.idxTree : \A sn \in 0..(n - 1) :
              g[sn].entry.key = k => sn <= c.idxTree[k]
  BY DEF ReadOff
<1>. QED
  BY <1>2, <1>3, <1>4, <1>5 DEF ReadOff

\* Between two blocks the state in memory can be read off the file.
LEMMA SnapshotIsReadOff ==
    ASSUME FullInv, FileOK
    PROVE  /\ Snapshot.maxSerialNum = datTree.maxSerialNum
           /\ Snapshot.activeBits = datTree.activeBits
           /\ ReadOff(Snapshot, datTree.entryFile)
<1> DEFINE c == Snapshot
           f == datTree.entryFile
           m == datTree.maxSerialNum
<1>1. /\ c.maxSerialNum = m /\ c.activeBits = datTree.activeBits /\ c.idxTree = idxTree
      /\ c.pending = SNSet(datTree.deactivedSNList)
  BY DEF Snapshot
<1>2. m \in Nat /\ DOMAIN f = 0..(m - 1) /\ datTree.deactivedSNList \in Seq(0..(m - 1))
  BY DEF FullInv, IInv, TypeOK, IsDataTree
<1>3. ActiveIffIndexed /\ LogOK(datTree, DeactivedSNListMaxLen) /\ Unlisted(datTree)
  BY DEF FullInv, IInv, FileOK
<1>4. \A t : t \in DeadSNs(datTree) <=> IsListed(f, m, t)
  BY <1>2 DEF DeadSNs, IsListed
<1>. HIDE DEF c
<1>5. c.activeBits = {t \in 0..(m - 1) : ~IsListed(f, m, t) /\ t \notin c.pending}
  <2>1. datTree.activeBits = 0..(m - 1) \ (DeadSNs(datTree) \cup c.pending)
    BY <1>1, <1>2, <1>3 DEF LogOK
  <2>. HIDE DEF m, f
  <2>. QED
    BY <1>1, <1>4, <2>1
<1>6. ASSUME NEW t \in c.pending PROVE t \in 0..(m - 1) /\ ~IsListed(f, m, t)
  <2>1. t \in 0..(m - 1)
    BY <1>1, <1>2 DEF SNSet
  <2>. QED
    BY <1>1, <1>3, <1>4, <2>1 DEF Unlisted
<1>7. \A k \in DOMAIN c.idxTree : c.idxTree[k] \in c.activeBits /\ f[c.idxTree[k]].entry.key = k
  BY <1>1, <1>3 DEF ActiveIffIndexed
<1>8. DummyKey \notin AllKeys =>
          \A k \in DOMAIN c.idxTree : \A sn \in 0..(m - 1) : f[sn].entry.key = k => sn <= c.idxTree[k]
  BY <1>1 DEF FileOK, LatestIsLast, StoredKeys
<1>9. ReadOff(c, f)
  <2>. HIDE DEF f, m
  <2>. QED
    BY <1>1, <1>5, <1>6, <1>7, <1>8 DEF ReadOff
<1>. QED
  BY <1>1, <1>9 DEF c

LEMMA CommitBatchFrame ==
    ASSUME CommitBatch
    PROVE  /\ phase = "compacting" /\ phase' = "filling" /\ committed' = Snapshot
           /\ UNCHANGED <<datTree, idxTree, oldestActiveTwigID, currHeight>>
           /\ Snapshot' = Snapshot
BY DEF CommitBatch, EndBlock, storeVars, Snapshot

LEMMA CommittedStep ==
    ASSUME RInv, FullInv', FileOK', [RNext]_allVars
    PROVE  CommittedOK'
<1>0. TypeOK /\ IInv /\ datTree.maxSerialNum \in Nat
  BY DEF RInv, FullInv, IInv, TypeOK, IsDataTree
<1>1. CASE CommitBatch
  <2>1. FullInv /\ FileOK
    BY DEF RInv
  <2>2. /\ Snapshot.maxSerialNum = datTree.maxSerialNum /\ ReadOff(Snapshot, datTree.entryFile)
        /\ committed' = Snapshot /\ datTree' = datTree /\ Snapshot' = Snapshot
    BY <1>1, <2>1, SnapshotIsReadOff, CommitBatchFrame
  <2>. QED
    BY <1>0, <2>2 DEF CommittedOK
<1>2. CASE (Prepare \/ Mark \/ Sweep) /\ UNCHANGED recVars
  <2>1. committed' = committed
    BY <1>2 DEF recVars
  <2>2. /\ datTree'.maxSerialNum \in Nat /\ datTree'.maxSerialNum >= datTree.maxSerialNum
        /\ \A s \in 0..(datTree.maxSerialNum - 1) : datTree'.entryFile[s] = datTree.entryFile[s]
    BY <1>0, RNextIsNext, FileGrows DEF RInv, FileOK
  <2>3. committed.maxSerialNum \in 0..datTree.maxSerialNum /\ ReadOff(committed, datTree.entryFile)
    BY DEF RInv, CommittedOK
  <2>4. ReadOff(committed, datTree'.entryFile)
    <3>1. committed.maxSerialNum \in Nat
      BY <1>0, <2>3
    <3>2. \A s \in 0..(committed.maxSerialNum - 1) : s \in 0..(datTree.maxSerialNum - 1)
      BY <1>0, <2>3
    <3>. QED
      BY <2>2, <2>3, <3>1, <3>2, ReadOffFrame
  <2>5. Untouched' => committed = Snapshot'
    BY <1>0, <1>2, WorkFrame DEF Snapshot, RInv, CommittedOK
  <2>6. committed.maxSerialNum \in 0..datTree'.maxSerialNum
    BY <1>0, <2>2, <2>3
  <2>. QED
    BY <2>1, <2>4, <2>5, <2>6 DEF CommittedOK
<1>3. CASE UNCHANGED <<vars, committed>>
  BY <1>3 DEF RInv, CommittedOK, vars, Snapshot, Untouched
<1>. QED
  BY <1>1, <1>2, <1>3, RStepKinds


-----------------------------------------------------------------------------
(* The database and pruning *)

\* Appended entries do not come before a twig that has been started.
LEMMA TwigHeightsFrame ==
    ASSUME RInv, [RNext]_allVars
    PROVE  TwigHeightsOK(db.twigHeight, datTree')
<1> DEFINE L == LeafCountInTwig
           m == datTree.maxSerialNum
           n == datTree'.maxSerialNum
           h == db.twigHeight
<1>0. IInv /\ FileOK /\ TwigHeightsOK(h, datTree) /\ L \in Nat \ {0}
  BY SizeAssumption DEF RInv, FullInv, DbOK
<1>1. /\ m \in Nat /\ n \in Nat /\ n >= m
      /\ \A s \in 0..(m - 1) : datTree'.entryFile[s] = datTree.entryFile[s]
  BY <1>0, RNextIsNext, FileGrows DEF FileOK
<1>2. /\ h \in [DOMAIN h -> Int]
      /\ \A t \in DOMAIN h :
            /\ t \in Nat /\ t * L <= m
            /\ \A sn \in 0..(m - 1) : sn < t * L => datTree.entryFile[sn].entry.height <= h[t]
  BY <1>0 DEF TwigHeightsOK
<1>. HIDE DEF m, n, h
<1>3. ASSUME NEW t \in DOMAIN h
      PROVE  /\ t \in Nat /\ t * L <= n
             /\ \A sn \in 0..(n - 1) : sn < t * L => datTree'.entryFile[sn].entry.height <= h[t]
  <2>1. t \in Nat /\ t * L <= m /\ t * L \in Nat
    BY <1>0, <1>2
  <2>2. \A sn \in 0..(n - 1) : sn < t * L => sn \in 0..(m - 1)
    BY <1>1, <2>1
  <2>. QED
    BY <1>1, <1>2, <2>1, <2>2
<1>. QED
  BY <1>2, <1>3 DEF TwigHeightsOK, n, h

\* The pruned twigs are full, and appended entries come after them.
LEMMA PrunedFrame ==
    ASSUME RInv, [RNext]_allVars,
           NEW p \in Int, p >= -1, p < db.oldestActiveTwigID, NEW b \in Int,
           \A sn \in 0..(datTree.maxSerialNum - 1) :
              sn < (p + 1) * LeafCountInTwig => datTree.entryFile[sn].entry.height < b
    PROVE  \A sn \in 0..(datTree'.maxSerialNum - 1) :
              sn < (p + 1) * LeafCountInTwig => datTree'.entryFile[sn].entry.height < b
<1> DEFINE L == LeafCountInTwig
           m == datTree.maxSerialNum
           n == datTree'.maxSerialNum
           o == db.oldestActiveTwigID
<1>0. IInv /\ FileOK /\ L \in Nat \ {0}
  BY SizeAssumption DEF RInv, FullInv
<1>1. /\ m \in Nat /\ n \in Nat /\ n >= m
      /\ \A s \in 0..(m - 1) : datTree'.entryFile[s] = datTree.entryFile[s]
  BY <1>0, RNextIsNext, FileGrows DEF FileOK
<1>2. o \in Nat /\ (o + 1) * L <= m
  <2>1. o \in Nat /\ (o + 1) * L <= committed.maxSerialNum /\ committed.maxSerialNum \in 0..m
    BY DEF RInv, DbOK, CommittedOK
  <2>2. (o + 1) * L \in Int
    BY <1>0, <2>1
  <2>. QED
    BY <1>1, <2>1, <2>2
<1>3. p < o
  OBVIOUS
<1>. HIDE DEF m, n, o
<1>4. L * (o - p) >= 0
  BY <1>0, <1>2, <1>3
<1>5. L * (o - p) = (o + 1) * L - (p + 1) * L
  BY <1>0, <1>2
<1>6. (p + 1) * L <= m
  BY <1>0, <1>1, <1>2, <1>4, <1>5
<1>7. \A sn \in 0..(n - 1) : sn < (p + 1) * L => sn \in 0..(m - 1)
  <2>1. (p + 1) * L \in Int
    BY <1>0
  <2>. HIDE DEF L
  <2>. QED
    BY <1>1, <1>6, <2>1
<1>. QED
  BY <1>1, <1>7 DEF m, n

\* The loop of PruneBeforeHeight stops: at the latest behind the last twig.  What it has
\* passed is prunable.
LEMMA LoopStops ==
    ASSUME RInv, NEW h \in Int
    PROVE  LET s == lastPrunedTwig + 1
               stop == FirstUnprunable(s, h)
           IN  /\ s \in Nat /\ stop \in Nat /\ stop > s
               /\ \A t \in Nat : s < t /\ t < stop => Prunable(t, h)
<1> DEFINE L == LeafCountInTwig
           m == datTree.maxSerialNum
           s == lastPrunedTwig + 1
           S == {t \in (s + 1)..(m + 1) : ~Prunable(t, h)}
<1>1. L \in Nat \ {0} /\ m \in Nat /\ oldestActiveTwigID \in Nat
      /\ (oldestActiveTwigID + 1) * L <= m
      /\ s \in Nat /\ s <= oldestActiveTwigID
  <2>1. L \in Nat \ {0} /\ m \in Nat /\ oldestActiveTwigID \in Nat
    BY SizeAssumption DEF RInv, FullInv, IInv, TypeOK, IsDataTree
  <2>2. (oldestActiveTwigID + 1) * L <= m
    BY DEF RInv, FileOK
  <2>3. /\ lastPrunedTwig \in Int /\ lastPrunedTwig >= -1 /\ db.oldestActiveTwigID \in Nat
        /\ lastPrunedTwig < db.oldestActiveTwigID /\ db.oldestActiveTwigID <= oldestActiveTwigID
    BY DEF RInv, PrunedOK, DbOK
  <2>. QED
    BY <2>1, <2>2, <2>3
<1>2. oldestActiveTwigID <= m
  <2>1. (oldestActiveTwigID + 1) * (L - 1) >= 0
    BY <1>1
  <2>2. (oldestActiveTwigID + 1) * (L - 1) = (oldestActiveTwigID + 1) * L - (oldestActiveTwigID + 1)
    BY <1>1
  <2>. QED
    BY <1>1, <2>1, <2>2
<1>. HIDE DEF m, s
<1>3. m + 1 \in S
  <2>1. ~Prunable(m + 1, h)
    BY <1>1, <1>2 DEF Prunable
  <2>. QED
    BY <1>1, <1>2, <2>1
<1>4. S \in SUBSET Nat
  BY <1>1
<1>5. Least(S) \in S /\ \A t \in S : Least(S) <= t
  BY <1>3, <1>4, LeastSN
<1> DEFINE l == Least(S)
<1>8. l \in (s + 1)..(m + 1)
  BY <1>5
<1>9. \A t \in (s + 1)..(m + 1) : t < l => Prunable(t, h)
  BY <1>1, <1>5, <1>8
<1>10. FirstUnprunable(s, h) = l
  BY DEF FirstUnprunable, s, m
<1>. HIDE DEF l, S
<1>11. \A t \in Nat : s < t /\ t < l => t \in (s + 1)..(m + 1)
  BY <1>1, <1>8
<1>12. l \in Nat /\ l > s
  BY <1>1, <1>8
<1>. QED
  BY <1>1, <1>9, <1>10, <1>11, <1>12 DEF s

\* What the database keeps in a step that commits nothing.
LEMMA DbFrame ==
    ASSUME RInv, [RNext]_allVars, ~CommitBatch
    PROVE  /\ db' = [currHeight |-> db'.currHeight, maxSerialNum |-> db'.maxSerialNum,
                     oldestActiveTwigID |-> db'.oldestActiveTwigID,
                     lastPrunedTwig |-> db'.lastPrunedTwig,
                     edgeNodes |-> db'.edgeNodes, isRunning |-> db'.isRunning,
                     twigHeight |-> db'.twigHeight]
           /\ db'.maxSerialNum = db.maxSerialNum /\ db'.lastPrunedTwig = db.lastPrunedTwig
           /\ db'.oldestActiveTwigID = db.oldestActiveTwigID
           /\ db'.twigHeight \in [DOMAIN db'.twigHeight -> Int]
           /\ \A t \in DOMAIN db'.twigHeight :
                 t \in DOMAIN db.twigHeight /\ db'.twigHeight[t] = db.twigHeight[t]
           /\ db'.isRunning = db.isRunning \/ BeginClose \/ Open
           /\ \/ UNCHANGED <<lostTwigs, lastPrunedTwig, prunedBefore>> /\ db'.edgeNodes = db.edgeNodes
              \/ \E h \in PruneHeights : PruneBeforeHeight(h)
<1>0. /\ db = [currHeight |-> db.currHeight, maxSerialNum |-> db.maxSerialNum,
             oldestActiveTwigID |-> db.oldestActiveTwigID, lastPrunedTwig |-> db.lastPrunedTwig,
             edgeNodes |-> db.edgeNodes, isRunning |-> db.isRunning,
             twigHeight |-> db.twigHeight]
      /\ db.twigHeight \in [DOMAIN db.twigHeight -> Int]
  BY DEF RInv, DbOK, TwigHeightsOK
<1>1. CASE db' = db
  <2>1. UNCHANGED <<lostTwigs, lastPrunedTwig, prunedBefore>> \/ \E h \in PruneHeights : PruneBeforeHeight(h)
    BY DEF RNext, TreeEndBlock, FlushEntries, FlushTwigs, BeginClose, FinishClose, Crash, Open,
       Work, allVars, recVars, pruneVars
  <2>. QED
    BY <1>0, <1>1, <2>1
<1>2. CASE BeginClose
  <2>1. db' = [db EXCEPT !.isRunning = FALSE] /\ UNCHANGED <<lostTwigs, lastPrunedTwig, prunedBefore>>
    BY <1>2 DEF BeginClose, pruneVars
  <2>. QED
    BY <1>0, <1>2, <2>1
<1>3. CASE Open
  <2>1. db' = [db EXCEPT !.isRunning = TRUE] /\ UNCHANGED <<lostTwigs, lastPrunedTwig, prunedBefore>>
    BY <1>3 DEF Open, pruneVars
  <2>. QED
    BY <1>0, <1>3, <2>1
<1>4. ASSUME NEW h \in PruneHeights, PruneBeforeHeight(h), NEW start, NEW end, PruneTwigs(start, end)
      PROVE  /\ db' = [currHeight |-> db'.currHeight, maxSerialNum |-> db'.maxSerialNum,
                     oldestActiveTwigID |-> db'.oldestActiveTwigID,
                     lastPrunedTwig |-> db'.lastPrunedTwig,
                     edgeNodes |-> db'.edgeNodes, isRunning |-> db'.isRunning,
                     twigHeight |-> db'.twigHeight]
             /\ db'.maxSerialNum = db.maxSerialNum /\ db'.lastPrunedTwig = db.lastPrunedTwig
             /\ db'.oldestActiveTwigID = db.oldestActiveTwigID
             /\ db'.isRunning = db.isRunning
             /\ db'.twigHeight \in [DOMAIN db'.twigHeight -> Int]
             /\ \A t \in DOMAIN db'.twigHeight :
                   t \in DOMAIN db.twigHeight /\ db'.twigHeight[t] = db.twigHeight[t]
  <2> DEFINE th == [t \in DOMAIN db.twigHeight \ (start..(end - 1)) |-> db.twigHeight[t]]
  <2>1. db' = [db EXCEPT !.edgeNodes = EdgePositions(end), !.twigHeight = th]
    BY <1>4 DEF PruneTwigs
  <2>2. /\ th \in [DOMAIN th -> Int]
        /\ \A t \in DOMAIN th : t \in DOMAIN db.twigHeight /\ th[t] = db.twigHeight[t]
    BY <1>0
  <2>. HIDE DEF th
  <2>. QED
    BY <1>0, <2>1, <2>2
<1>5. CASE \E h \in PruneHeights : PruneBeforeHeight(h)
  <2>1. PICK h \in PruneHeights : PruneBeforeHeight(h)
    BY <1>5
  <2>2. db' = db \/ \E start, end : PruneTwigs(start, end)
    BY <2>1 DEF PruneBeforeHeight
  <2>. QED
    BY <1>1, <1>4, <2>1, <2>2
<1>6. db' = db \/ BeginClose \/ Open \/ \E h \in PruneHeights : PruneBeforeHeight(h)
  BY DEF RNext, TreeEndBlock, FlushEntries, FlushTwigs, FinishClose, Crash, Work, allVars, recVars
<1>. QED
  BY <1>1, <1>2, <1>3, <1>5, <1>6

\* A commit makes the database one of the state in memory; the twigs it starts get the
\* height of the block, which no entry exceeds.
LEMMA CommitDb ==
    ASSUME RInv, CommitBatch
    PROVE  DbOK' /\ PrunedOK'
<1> DEFINE L == LeafCountInTwig
           m == datTree.maxSerialNum
           h == db.twigHeight
           th == [t \in DOMAIN h \cup StartedTwigs |-> IF t \in StartedTwigs THEN currHeight ELSE h[t]]
<1>0. /\ db = [currHeight |-> db.currHeight, maxSerialNum |-> db.maxSerialNum,
             oldestActiveTwigID |-> db.oldestActiveTwigID, lastPrunedTwig |-> db.lastPrunedTwig,
             edgeNodes |-> db.edgeNodes, isRunning |-> db.isRunning,
             twigHeight |-> db.twigHeight]
      /\ TwigHeightsOK(h, datTree)
  BY DEF RInv, DbOK
<1>1. /\ phase' = "filling" /\ committed' = Snapshot /\ datTree' = datTree
      /\ oldestActiveTwigID' = oldestActiveTwigID
  BY CommitBatchFrame
<1>2. db' = [db EXCEPT !.currHeight = currHeight, !.maxSerialNum = m,
                       !.oldestActiveTwigID = oldestActiveTwigID,
                       !.lastPrunedTwig = lastPrunedTwig, !.twigHeight = th]
      /\ UNCHANGED <<lostTwigs, lastPrunedTwig, prunedBefore>>
  BY DEF CommitBatch, pruneVars
<1>3. TwigHeightsOK(th, datTree)
  <2>1. currHeight \in Int /\ m \in Nat /\ L \in Nat \ {0} /\ committed.maxSerialNum \in 0..m
    BY SizeAssumption DEF RInv, FullInv, IInv, TypeOK, IsDataTree, CommittedOK
  <2>2. \A t \in DOMAIN th : t \in StartedTwigs \/ (t \in DOMAIN h /\ t \notin StartedTwigs)
    OBVIOUS
  <2>3. ASSUME NEW t \in StartedTwigs
        PROVE  /\ t \in Nat /\ t * L <= m /\ th[t] = currHeight
               /\ \A sn \in 0..(m - 1) : datTree.entryFile[sn].entry.height <= th[t]
    BY <2>1 DEF StartedTwigs, RInv, FileOK
  <2>4. ASSUME NEW t \in DOMAIN h, t \notin StartedTwigs PROVE th[t] = h[t]
    BY <2>4
  <2>5. th \in [DOMAIN th -> Int]
    BY <1>0, <2>1 DEF TwigHeightsOK
  <2>. HIDE DEF th, h, m
  <2>6. ASSUME NEW t \in DOMAIN th
        PROVE  /\ t \in Nat /\ t * L <= m
               /\ \A sn \in 0..(m - 1) : sn < t * L => datTree.entryFile[sn].entry.height <= th[t]
    <3>1. CASE t \in StartedTwigs
      BY <2>3, <3>1
    <3>2. CASE t \in DOMAIN h /\ t \notin StartedTwigs
      BY <1>0, <2>4, <3>2 DEF TwigHeightsOK, m
    <3>. QED
      BY <2>2, <3>1, <3>2
  <2>. QED
    BY <2>5, <2>6 DEF TwigHeightsOK, m
<1>. HIDE DEF th, h
<1>4. /\ db' = [currHeight |-> db'.currHeight, maxSerialNum |-> db'.maxSerialNum,
             oldestActiveTwigID |-> db'.oldestActiveTwigID, lastPrunedTwig |-> db'.lastPrunedTwig,
             edgeNodes |-> db'.edgeNodes, isRunning |-> db'.isRunning,
             twigHeight |-> db'.twigHeight]
      /\ db'.maxSerialNum = m /\ db'.oldestActiveTwigID = oldestActiveTwigID
      /\ db'.lastPrunedTwig = lastPrunedTwig /\ db'.twigHeight = th /\ db'.edgeNodes = db.edgeNodes
  BY <1>0, <1>2
<1>5. /\ Snapshot.maxSerialNum = m /\ Snapshot.activeBits = datTree.activeBits
  BY DEF Snapshot
<1>6. /\ oldestActiveTwigID \in Nat /\ (oldestActiveTwigID + 1) * L <= m
      /\ \A sn \in datTree.activeBits : sn >= oldestActiveTwigID * L
  BY DEF RInv, FullInv, IInv, TypeOK, TwigsOK, NoActiveInEvictedTwig, FileOK
<1>7. DbOK'
  BY <1>1, <1>3, <1>4, <1>5, <1>6 DEF DbOK
<1>8. PrunedOK'
  <2>1. PrunedOK /\ db.oldestActiveTwigID \in Nat
    BY DEF RInv, DbOK
  <2>. QED
    BY <1>1, <1>2, <1>4, <1>6, <2>1 DEF PrunedOK, EdgesOK
<1>. QED
  BY <1>7, <1>8


\* The oldest active twig only moves forward.
LEMMA OldestGrows ==
    ASSUME TypeOK, [Next]_vars
    PROVE  oldestActiveTwigID \in Nat /\ oldestActiveTwigID' \in Nat
           /\ oldestActiveTwigID' >= oldestActiveTwigID
<1>1. oldestActiveTwigID \in Nat
  BY DEF TypeOK
<1>2. oldestActiveTwigID' = oldestActiveTwigID + 1 \/ oldestActiveTwigID' = oldestActiveTwigID
  BY OldestTwigStep DEF EvictTwig
<1>. QED
  BY <1>1, <1>2

LEMMA DbStep ==
    ASSUME RInv, [RNext]_allVars
    PROVE  DbOK'
<1>1. CASE CommitBatch
  BY <1>1, CommitDb
<1>2. CASE ~CommitBatch
  <2>1. /\ committed' = committed
        /\ Untouched' => Untouched /\ UNCHANGED oldestActiveTwigID
    <3>1. CASE (Prepare \/ Mark \/ Sweep) /\ UNCHANGED recVars
      <4>1. TypeOK
        BY DEF RInv, FullInv, IInv
      <4>. QED
        BY <3>1, <4>1, WorkFrame DEF recVars
    <3>2. CASE UNCHANGED <<vars, committed>>
      BY <3>2 DEF vars, Untouched
    <3>. QED
      BY <1>2, <3>1, <3>2, RStepKinds
  <2>2. TwigHeightsOK(db.twigHeight, datTree')
    BY TwigHeightsFrame
  <2>3. TwigHeightsOK(db'.twigHeight, datTree')
    BY <1>2, <2>2, DbFrame DEF TwigHeightsOK
  <2>4. DbOK
    BY DEF RInv
  <2>5. /\ db' = [currHeight |-> db'.currHeight, maxSerialNum |-> db'.maxSerialNum,
                  oldestActiveTwigID |-> db'.oldestActiveTwigID,
                  lastPrunedTwig |-> db'.lastPrunedTwig,
                  edgeNodes |-> db'.edgeNodes, isRunning |-> db'.isRunning,
                  twigHeight |-> db'.twigHeight]
        /\ db'.maxSerialNum = db.maxSerialNum
        /\ db'.oldestActiveTwigID = db.oldestActiveTwigID
    BY <1>2, DbFrame
  <2>6. /\ db'.maxSerialNum = committed'.maxSerialNum
        /\ db'.oldestActiveTwigID \in Nat
        /\ (db'.oldestActiveTwigID + 1) * LeafCountInTwig <= committed'.maxSerialNum
        /\ \A sn \in committed'.activeBits : sn >= db'.oldestActiveTwigID * LeafCountInTwig
    BY <2>1, <2>4, <2>5 DEF DbOK
  <2>7. Untouched' => db'.oldestActiveTwigID = oldestActiveTwigID'
    BY <2>1, <2>4, <2>5 DEF DbOK
  <2>. QED
    BY <2>3, <2>5, <2>6, <2>7 DEF DbOK
<1>. QED
  BY <1>1, <1>2

LEMMA PrunedStep ==
    ASSUME RInv, [RNext]_allVars
    PROVE  PrunedOK'
<1> DEFINE L == LeafCountInTwig
<1>0. /\ PrunedOK /\ DbOK /\ L \in Nat \ {0} /\ TypeOK
      /\ oldestActiveTwigID \in Nat /\ oldestActiveTwigID' \in Nat
      /\ oldestActiveTwigID' >= oldestActiveTwigID
  <2>1. TypeOK
    BY DEF RInv, FullInv, IInv
  <2>. QED
    BY <2>1, SizeAssumption, RNextIsNext, OldestGrows DEF RInv
<1>1. CASE CommitBatch
  BY <1>1, CommitDb
<1>2. CASE /\ ~CommitBatch
           /\ UNCHANGED <<lostTwigs, lastPrunedTwig, prunedBefore>> /\ db'.edgeNodes = db.edgeNodes
  <2>1. \A sn \in 0..(datTree'.maxSerialNum - 1) :
            sn < (lastPrunedTwig + 1) * L => datTree'.entryFile[sn].entry.height < prunedBefore
    BY <1>0, PrunedFrame DEF PrunedOK
  <2>2. db'.lastPrunedTwig = db.lastPrunedTwig /\ db'.oldestActiveTwigID = db.oldestActiveTwigID
    BY <1>2, DbFrame
  <2>3. db.oldestActiveTwigID <= oldestActiveTwigID'
    BY <1>0 DEF PrunedOK, DbOK
  <2>. QED
    BY <1>0, <1>2, <2>1, <2>2, <2>3 DEF PrunedOK, EdgesOK
<1>3. ASSUME NEW h \in PruneHeights, PruneBeforeHeight(h), ~CommitBatch
      PROVE  PrunedOK'
  <2> DEFINE start == lastPrunedTwig + 1
             stop == FirstUnprunable(start, h)
             end == stop - 1
  <2>0. h \in Int
    BY TwigAssumption
  <2>1. /\ phase = "filling" /\ prunedBefore < h /\ prunedBefore' = h /\ UNCHANGED vars
        /\ \/ UNCHANGED <<lostTwigs, lastPrunedTwig, db>>
           \/ end - start >= MinPruneCount /\ PruneTwigs(start, end)
    BY <1>3 DEF PruneBeforeHeight
  <2>2. /\ UNCHANGED <<datTree, oldestActiveTwigID>>
        /\ db'.lastPrunedTwig = db.lastPrunedTwig /\ db'.oldestActiveTwigID = db.oldestActiveTwigID
    BY <1>3, <2>1, DbFrame DEF vars
  <2>3. \A sn \in 0..(datTree.maxSerialNum - 1) : datTree.entryFile[sn].entry.height \in Int
    BY <1>0 DEF TypeOK, IsDataTree, LogRecord, Entry
  <2>4. CASE UNCHANGED <<lostTwigs, lastPrunedTwig, db>>
    <3>1. \A sn \in 0..(datTree.maxSerialNum - 1) :
            sn < (lastPrunedTwig + 1) * L => datTree.entryFile[sn].entry.height < h
      BY <1>0, <2>0, <2>1, <2>3 DEF PrunedOK
    <3>. QED
      BY <1>0, <2>0, <2>1, <2>2, <2>4, <3>1 DEF PrunedOK, EdgesOK
  <2>5. CASE end - start >= MinPruneCount /\ PruneTwigs(start, end)
    <3>1. db.oldestActiveTwigID = oldestActiveTwigID
      BY <1>0, <2>1 DEF DbOK, Untouched
    <3>2. /\ lostTwigs' \in lostTwigs..end /\ lastPrunedTwig' = end - 1 /\ db'.edgeNodes = EdgePositions(end)
      BY <1>0, <2>5 DEF PruneTwigs, DbOK
    <3>3. end - start >= MinPruneCount /\ MinPruneCount \in Nat \ {0} /\ start \in Nat /\ stop \in Int
      BY <2>0, <2>5, LoopStops, TwigAssumption
    <3>. HIDE DEF stop
    <3>4. end > start
      BY <3>3
    <3>5. end \in Nat /\ Prunable(end, h)
      <4>1. \A t \in Nat : start < t /\ t < stop => Prunable(t, h)
        BY <2>0, LoopStops DEF stop
      <4>2. end \in Nat /\ start < end /\ end < stop
        BY <3>3, <3>4
      <4>. QED
        BY <4>1, <4>2
    <3>. HIDE DEF end
    <3>6. /\ end \in DOMAIN db.twigHeight /\ db.twigHeight[end] < h /\ db.twigHeight[end] \in Int
          /\ end < oldestActiveTwigID
      BY <1>0, <3>5 DEF Prunable, HasHeight, DbOK, TwigHeightsOK
    <3>7. \A sn \in 0..(datTree.maxSerialNum - 1) :
              sn < end * L => datTree.entryFile[sn].entry.height <= db.twigHeight[end]
      BY <1>0, <3>6 DEF DbOK, TwigHeightsOK
    <3>8. \A sn \in 0..(datTree.maxSerialNum - 1) :
              sn < (lastPrunedTwig' + 1) * L => datTree.entryFile[sn].entry.height < h
      <4>1. lastPrunedTwig' + 1 = end
        BY <3>2, <3>5
      <4>. QED
        BY <2>0, <2>3, <3>6, <3>7, <4>1
    <3>9. /\ lastPrunedTwig \in Int /\ lastPrunedTwig >= -1 /\ lostTwigs \in Nat
          /\ db.lastPrunedTwig \in Int /\ db.lastPrunedTwig <= lastPrunedTwig
      BY <1>0 DEF PrunedOK
    <3>10. /\ lastPrunedTwig' \in Int /\ lastPrunedTwig' >= -1
           /\ lastPrunedTwig' < oldestActiveTwigID
           /\ lostTwigs' \in 0..(lastPrunedTwig' + 1) /\ end = lastPrunedTwig' + 1
           /\ db.lastPrunedTwig <= lastPrunedTwig'
      BY <1>0, <3>2, <3>4, <3>5, <3>6, <3>9
    <3>11. EdgesOK'
      <4> DEFINE youngest == FullTwigs(datTree.maxSerialNum)
      <4>1. youngest \in Nat /\ end <= youngest
        <5>1. /\ datTree.maxSerialNum \in Nat /\ oldestActiveTwigID \in Nat
              /\ (oldestActiveTwigID + 1) * L <= datTree.maxSerialNum
          BY <1>0 DEF RInv, FileOK, TypeOK, IsDataTree
        <5>2. youngest \in Nat /\ oldestActiveTwigID < youngest
          BY <5>1, FullTwigsProp
        <5>. HIDE DEF youngest
        <5>. QED
          BY <3>5, <3>6, <5>1, <5>2
      <4>2. db'.edgeNodes = EdgesAt(end, youngest)
        BY <3>2 DEF EdgePositions, EdgesAt
      <4>3. db'.edgeNodes \subseteq Nat \X Nat
        BY <3>5, <4>1, <4>2, EdgesAreNodes
      <4>. HIDE DEF youngest
      <4>. QED
        BY <3>10, <4>1, <4>2, <4>3 DEF EdgesOK
    <3>. QED
      BY <1>0, <2>0, <2>1, <2>2, <3>1, <3>2, <3>8, <3>9, <3>10, <3>11 DEF PrunedOK
  <2>. QED
    BY <2>1, <2>4, <2>5
<1>. QED
  BY <1>1, <1>2, <1>3, DbFrame


-----------------------------------------------------------------------------
(* The files and the process *)

LEMMA ProcStep ==
    ASSUME RInv, [RNext]_allVars
    PROVE  ProcOK'
<1>0. ProcOK /\ CommittedOK
  BY DEF RInv
<1>1. CASE CommitBatch
  <2>1. /\ phase' = "filling" /\ proc = "running" /\ blockEnded' = FALSE
        /\ UNCHANGED <<proc, dump, quiet>>
    BY <1>1, CommitBatchFrame DEF CommitBatch
  <2>2. db'.isRunning = db.isRunning
    BY <1>1 DEF CommitBatch, RInv, DbOK
  <2>. QED
    BY <1>0, <2>1, <2>2 DEF ProcOK
<1>2. CASE (Prepare \/ Mark \/ Sweep) /\ proc = "running" /\ ~blockEnded /\ UNCHANGED recVars
  <2>1. UNCHANGED <<proc, blockEnded, db, dump, committed, quiet>>
    BY <1>2 DEF recVars
  <2>. QED
    BY <1>0, <1>2, <2>1 DEF ProcOK
<1>3. CASE TreeEndBlock
  BY <1>0, <1>3 DEF TreeEndBlock, ProcOK, vars
<1>4. CASE FlushEntries \/ FlushTwigs
  BY <1>0, <1>4 DEF FlushEntries, FlushTwigs, ProcOK, vars
<1>5. ASSUME NEW h \in PruneHeights, PruneBeforeHeight(h)
      PROVE  ProcOK'
  <2>1. /\ proc = "running" /\ proc' \in {proc, "dead"}
        /\ UNCHANGED <<vars, blockEnded, dump, committed, quiet>>
    BY <1>5 DEF PruneBeforeHeight, PruneTwigs
  <2>2. db'.isRunning = db.isRunning
    <3>1. ~BeginClose /\ ~Open
      BY <2>1 DEF BeginClose, Open
    <3>2. ~CommitBatch
      BY <1>5 DEF PruneBeforeHeight, CommitBatch, EndBlock
    <3>. QED
      BY <3>1, <3>2, DbFrame
  <2>. QED
    BY <1>0, <2>1, <2>2 DEF ProcOK, vars
<1>6. CASE BeginClose
  <2>1. ~db'.isRunning
    BY <1>6 DEF BeginClose, RInv, DbOK
  <2>. QED
    BY <1>0, <1>6, <2>1 DEF BeginClose, ProcOK, vars
<1>7. CASE FinishClose
  <2>1. committed.activeBits = datTree.activeBits
    BY <1>0, <1>7 DEF FinishClose, ProcOK, CommittedOK, Untouched, Snapshot
  <2>2. /\ proc = "closing" /\ proc' = "down" /\ dump' = <<datTree.activeBits>> /\ quiet' = TRUE
        /\ UNCHANGED <<phase, blockEnded, db, committed>>
    BY <1>7 DEF FinishClose, vars
  <2>3. dump' # <<>>
    BY <2>2
  <2>. QED
    BY <1>0, <2>1, <2>2, <2>3 DEF ProcOK
<1>8. CASE Crash
  <2>1. /\ proc \in {"running", "closing"} /\ proc' = "down"
        /\ quiet' => proc = "running"
        /\ UNCHANGED <<phase, blockEnded, db, dump, committed>>
    BY <1>8 DEF Crash, vars
  <2>. QED
    BY <1>0, <2>1 DEF ProcOK
<1>9. CASE Open
  BY <1>0, <1>9 DEF Open, ProcOK, vars
<1>10. CASE UNCHANGED allVars
  BY <1>0, <1>10 DEF allVars, vars, recVars, ProcOK
<1>. QED
  BY <1>1, <1>2, <1>3, <1>4, <1>5, <1>6, <1>7, <1>8, <1>9, <1>10 DEF RNext, Work


\* A flush that has ended has reached what the next commit counts on; a process that went
\* down quietly has left the committed entries on disk.
LEMMA DiskStep ==
    ASSUME RInv, CommittedOK', [RNext]_allVars
    PROVE  DiskOK'
<1> DEFINE m == datTree.maxSerialNum
           n == committed.maxSerialNum
<1>0. DiskOK /\ ProcOK
  BY DEF RInv
<1>1. /\ m \in Nat /\ n \in 0..m
      /\ FullTwigs(m) \in Nat /\ FullTwigs(n) \in Nat /\ FullTwigs(n) <= FullTwigs(m)
      /\ entriesOnDisk \in 0..m /\ twigsOnDisk \in 0..FullTwigs(m)
  <2>1. m \in Nat /\ n \in 0..m
    BY DEF RInv, FullInv, IInv, TypeOK, IsDataTree, CommittedOK
  <2>2. FullTwigs(m) \in Nat /\ FullTwigs(n) \in Nat /\ FullTwigs(n) <= FullTwigs(m)
    BY <2>1, FullTwigsProp
  <2>. QED
    BY <1>0, <2>1, <2>2 DEF DiskOK
<1>2. CASE CommitBatch
  <2>1. /\ datTree' = datTree /\ committed'.maxSerialNum = m /\ proc = "running"
        /\ blockEnded = TRUE /\ blockEnded' = FALSE
        /\ UNCHANGED <<proc, entriesOnDisk, entriesFlushing, tornEntry, twigsOnDisk, twigsFlushing, quiet>>
    BY <1>0, <1>2, CommitBatchFrame DEF CommitBatch, Snapshot, diskVars, DiskOK
  <2>2. ~quiet
    BY <1>0, <2>1 DEF ProcOK
  <2>3. FlushGoal' = FlushGoal
    BY <2>1 DEF FlushGoal
  <2>. QED
    BY <1>0, <1>1, <2>1, <2>2, <2>3 DEF DiskOK
<1>3. CASE (Prepare \/ Mark \/ Sweep) /\ ~blockEnded /\ UNCHANGED recVars
  <2>1. /\ UNCHANGED <<proc, blockEnded, committed, quiet>>
        /\ UNCHANGED <<entriesOnDisk, entriesFlushing, tornEntry, twigsOnDisk, twigsFlushing>>
    BY <1>3 DEF recVars, diskVars
  <2>2. /\ datTree'.maxSerialNum \in Nat /\ m <= datTree'.maxSerialNum
    BY RNextIsNext, FileGrows DEF RInv, FullInv, FileOK
  <2>3. FullTwigs(datTree'.maxSerialNum) \in Nat /\ FullTwigs(m) <= FullTwigs(datTree'.maxSerialNum)
    BY <1>1, <2>2, FullTwigsProp
  <2>4. FlushGoal' = FlushGoal
    BY <1>3, <2>1 DEF FlushGoal
  <2>5. entriesOnDisk \in 0..datTree'.maxSerialNum /\ twigsOnDisk \in 0..FullTwigs(datTree'.maxSerialNum)
    BY <1>1, <2>2, <2>3
  <2>. QED
    BY <1>0, <2>1, <2>4, <2>5 DEF DiskOK
<1>4. CASE TreeEndBlock
  BY <1>0, <1>4 DEF TreeEndBlock, DiskOK, ProcOK, vars
<1>5. CASE FlushEntries
  <2>1. /\ UNCHANGED <<datTree, committed, blockEnded, proc, tornEntry, twigsOnDisk, twigsFlushing, quiet>>
        /\ entriesOnDisk' = m /\ entriesFlushing' = FALSE /\ proc = "running"
    BY <1>5 DEF FlushEntries, vars
  <2>2. FlushGoal' = FlushGoal /\ FlushGoal <= m
    BY <1>1, <2>1 DEF FlushGoal
  <2>3. ~quiet
    BY <1>0, <2>1 DEF ProcOK
  <2>4. {blockEnded', entriesFlushing', tornEntry', twigsFlushing', quiet'} \subseteq BOOLEAN
    BY <1>0, <2>1 DEF DiskOK
  <2>5. entriesOnDisk' \in 0..m /\ twigsOnDisk' \in 0..FullTwigs(m)
    BY <1>1, <2>1
  <2>. QED
    BY <1>0, <1>1, <2>1, <2>2, <2>3, <2>4, <2>5 DEF DiskOK
<1>6. CASE FlushTwigs
  <2>1. /\ UNCHANGED <<datTree, committed, blockEnded, proc, tornEntry, entriesOnDisk, entriesFlushing, quiet>>
        /\ twigsOnDisk' = FullTwigs(m) /\ twigsFlushing' = FALSE /\ proc = "running"
    BY <1>6 DEF FlushTwigs, vars
  <2>2. FlushGoal' = FlushGoal /\ FullTwigs(FlushGoal) <= FullTwigs(m)
    BY <1>1, <2>1 DEF FlushGoal
  <2>3. ~quiet
    BY <1>0, <2>1 DEF ProcOK
  <2>4. {blockEnded', entriesFlushing', tornEntry', twigsFlushing', quiet'} \subseteq BOOLEAN
    BY <1>0, <2>1 DEF DiskOK
  <2>5. entriesOnDisk' \in 0..m /\ twigsOnDisk' \in 0..FullTwigs(m)
    BY <1>1, <2>1
  <2>. QED
    BY <1>0, <1>1, <2>1, <2>2, <2>3, <2>4, <2>5 DEF DiskOK
<1>7. ASSUME NEW h \in PruneHeights, PruneBeforeHeight(h)
      PROVE  DiskOK'
  <2>1. /\ UNCHANGED <<datTree, committed, blockEnded, quiet>>
        /\ UNCHANGED <<entriesOnDisk, entriesFlushing, tornEntry, twigsOnDisk, twigsFlushing>>
        /\ proc = "running" /\ proc' \in {proc, "dead"}
    BY <1>7 DEF PruneBeforeHeight, PruneTwigs, diskVars, vars
  <2>2. FlushGoal' = FlushGoal
    BY <2>1 DEF FlushGoal
  <2>. QED
    BY <1>0, <2>1, <2>2 DEF DiskOK
<1>8. CASE BeginClose
  <2>1. /\ UNCHANGED <<datTree, committed, blockEnded, quiet>>
        /\ UNCHANGED <<entriesOnDisk, entriesFlushing, tornEntry, twigsOnDisk, twigsFlushing>>
        /\ proc = "running" /\ proc' = "closing"
    BY <1>8 DEF BeginClose, diskVars, vars
  <2>2. FlushGoal' = FlushGoal
    BY <2>1 DEF FlushGoal
  <2>. QED
    BY <1>0, <2>1, <2>2 DEF DiskOK
<1>9. CASE FinishClose
  <2>1. n = m
    BY <1>0, <1>9 DEF FinishClose, ProcOK, RInv, CommittedOK, Untouched, Snapshot
  <2>2. /\ UNCHANGED <<datTree, committed, blockEnded, tornEntry>>
        /\ entriesOnDisk' = m /\ twigsOnDisk' = FullTwigs(m)
        /\ entriesFlushing' = FALSE /\ twigsFlushing' = FALSE /\ quiet' = TRUE
        /\ proc = "closing" /\ proc' = "down"
    BY <1>9 DEF FinishClose, vars
  <2>3. {blockEnded', entriesFlushing', tornEntry', twigsFlushing', quiet'} \subseteq BOOLEAN
    BY <1>0, <2>1, <2>2 DEF DiskOK
  <2>4. entriesOnDisk' \in 0..m /\ twigsOnDisk' \in 0..FullTwigs(m)
    BY <1>1, <2>2
  <2>. QED
    BY <1>0, <1>1, <2>1, <2>2, <2>3, <2>4 DEF DiskOK
<1>10. CASE Crash
  <2>1. /\ UNCHANGED <<datTree, committed, blockEnded>>
        /\ entriesOnDisk' \in entriesOnDisk..m /\ twigsOnDisk' \in twigsOnDisk..FullTwigs(m)
        /\ tornEntry' \in IF entriesOnDisk' < m THEN BOOLEAN ELSE {FALSE}
        /\ entriesFlushing' = FALSE /\ twigsFlushing' = FALSE
        /\ proc \in {"running", "closing"} /\ proc' = "down"
        /\ quiet' = (~entriesFlushing /\ ~twigsFlushing /\ proc = "running" /\ ~blockEnded /\ m = n)
    BY <1>10 DEF Crash, vars
  <2>2. ASSUME quiet' PROVE entriesOnDisk' = n /\ twigsOnDisk' >= FullTwigs(n) /\ ~tornEntry'
    <3>1. /\ ~entriesFlushing /\ ~twigsFlushing /\ m = n
          /\ entriesOnDisk >= n /\ twigsOnDisk >= FullTwigs(n)
      BY <1>0, <2>1, <2>2 DEF DiskOK, FlushGoal
    <3>2. entriesOnDisk' = n /\ twigsOnDisk' >= FullTwigs(n)
      BY <1>1, <2>1, <3>1
    <3>3. ~(entriesOnDisk' < m)
      BY <1>1, <3>1, <3>2
    <3>. QED
      BY <2>1, <3>2, <3>3
  <2>3. {blockEnded', entriesFlushing', tornEntry', twigsFlushing', quiet'} \subseteq BOOLEAN
    BY <1>0, <2>1 DEF DiskOK
  <2>4. entriesOnDisk' \in 0..m /\ twigsOnDisk' \in 0..FullTwigs(m)
    BY <1>1, <2>1
  <2>. QED
    BY <2>1, <2>2, <2>3, <2>4 DEF DiskOK
<1>11. CASE Open
  BY <1>0, <1>11 DEF Open, DiskOK, vars, diskVars
<1>12. CASE UNCHANGED allVars
  <2>1. FlushGoal' = FlushGoal
    BY <1>12 DEF allVars, vars, recVars, FlushGoal
  <2>. QED
    BY <1>0, <1>12, <2>1 DEF allVars, vars, recVars, diskVars, DiskOK
<1>. QED
  BY <1>2, <1>3, <1>4, <1>5, <1>6, <1>7, <1>8, <1>9, <1>10, <1>11, <1>12 DEF RNext, Work

-----------------------------------------------------------------------------
(* Opening after a quiet end *)

\* The committed entries are on disk, so is the oldest active twig.
LEMMA QuietCanScan ==
    ASSUME RInv, quiet
    PROVE  /\ CanScan
           /\ Scanned = {sn \in 0..(committed.maxSerialNum - 1) :
                            sn >= db.oldestActiveTwigID * LeafCountInTwig}
           /\ \A t \in Int : lostTwigs <= t /\ t <= db.oldestActiveTwigID => CanReadTwig(t)
<1> DEFINE n == committed.maxSerialNum
           o == db.oldestActiveTwigID
           L == LeafCountInTwig
<1>1. entriesOnDisk = n /\ twigsOnDisk >= FullTwigs(n) /\ ~tornEntry /\ twigsOnDisk \in Int
  <2>1. FullTwigs(datTree.maxSerialNum) \in Nat
    BY FullTwigsProp DEF RInv, FullInv, IInv, TypeOK, IsDataTree
  <2>. QED
    BY <2>1 DEF RInv, DiskOK
<1>2. n \in Nat /\ o \in Nat /\ (o + 1) * L <= n
  BY DEF RInv, CommittedOK, DbOK, FullInv, IInv, TypeOK, IsDataTree
<1>3. FullTwigs(n) \in Nat /\ o < FullTwigs(n)
  BY <1>2, FullTwigsProp
<1>4. lostTwigs \in Int /\ lostTwigs <= o
  <2>1. /\ lostTwigs \in 0..(lastPrunedTwig + 1) /\ lastPrunedTwig < o /\ lastPrunedTwig \in Int
    BY DEF RInv, PrunedOK
  <2>. QED
    BY <1>2, <2>1
<1>5. ASSUME NEW t \in Int, lostTwigs <= t, t <= o PROVE CanReadTwig(t)
  <2>. HIDE DEF o, n
  <2>1. t < twigsOnDisk
    BY <1>1, <1>2, <1>3, <1>5
  <2>. QED
    BY <1>5, <2>1 DEF CanReadTwig
<1>6. CanReadTwig(o)
  BY <1>2, <1>4, <1>5
<1>. QED
  BY <1>1, <1>5, <1>6 DEF CanScan, Scanned

\* The scan and the inactive twigs are all twigs from the first one RecoverTree reads; the
\* nodes above them and the edge nodes close the tree.
LEMMA QuietCanSync ==
    ASSUME RInv, quiet, Recoverable
    PROVE  (\A t \in InactiveTwigs : CanReadTwig(t)) /\ CanSyncUpperNodes
<1> DEFINE n == committed.maxSerialNum
           o == db.oldestActiveTwigID
           L == LeafCountInTwig
           start == StartingInactiveTwigID
           end == lastPrunedTwig + 1
           last == FullTwigs(n - 1)
           youngest == FullTwigs(n)
<1>1. /\ L \in Nat \ {0} /\ n \in Nat /\ o \in Nat /\ (o + 1) * L <= n /\ o * L \in Nat
      /\ entriesOnDisk = n
  <2>1. L \in Nat \ {0} /\ n \in Nat /\ o \in Nat /\ (o + 1) * L <= n
    BY SizeAssumption DEF RInv, CommittedOK, DbOK, FullInv, IInv, TypeOK, IsDataTree
  <2>2. entriesOnDisk = n
    BY DEF RInv, DiskOK
  <2>. HIDE DEF n, o, L
  <2>. QED
    BY <2>1, <2>2
<1>2. /\ 0 <= lastPrunedTwig /\ lastPrunedTwig \in Int /\ db.lastPrunedTwig = lastPrunedTwig
      /\ (lastPrunedTwig + 1) % 4 # 0 /\ lastPrunedTwig < o /\ lostTwigs \in Nat
      /\ lostTwigs <= start
  BY <1>1 DEF RInv, PrunedOK, Recoverable
<1>3. /\ start \in Nat /\ start % 2 = 0 /\ end \in Nat /\ start < o
      /\ end = start + 1 \/ (end = start + 2 /\ start % 4 = 0)
  <2>1. start = IF lastPrunedTwig > 0 /\ lastPrunedTwig % 2 = 1 THEN lastPrunedTwig - 1
                ELSE lastPrunedTwig
    BY <1>2 DEF StartingInactiveTwigID
  <2>2. CASE lastPrunedTwig > 0 /\ lastPrunedTwig % 2 = 1
    BY <1>1, <1>2, <2>1, <2>2
  <2>3. CASE ~(lastPrunedTwig > 0 /\ lastPrunedTwig % 2 = 1)
    BY <1>1, <1>2, <2>1, <2>3
  <2>. QED
    BY <2>2, <2>3
<1>4. n >= 1 /\ n - 1 \in Nat
  <2>1. (o + 1) * L = o * L + L
    BY <1>1
  <2>. QED
    BY <1>1, <2>1
<1>5. /\ last \in Nat /\ L * last <= n - 1 /\ n - 1 < L * last + L
      /\ youngest \in Nat /\ L * youngest <= n /\ n < L * youngest + L
  BY <1>1, <1>4, Quotient DEF FullTwigs
<1>6. o <= last /\ youngest \in {last, last + 1}
  <2>1. o < youngest /\ last <= youngest
    BY <1>1, <1>4, FullTwigsProp
  <2>2. ~(last + 2 <= youngest)
    <3>. SUFFICES ASSUME last + 2 <= youngest PROVE FALSE
      OBVIOUS
    <3>. HIDE DEF last, youngest, n, L
    <3>1. L * (youngest - (last + 2)) >= 0
          /\ L * (youngest - (last + 2)) = L * youngest - L * last - 2 * L
      BY <1>1, <1>5
    <3>2. L * youngest \in Int /\ L * last \in Int
      BY <1>1, <1>5
    <3>. QED
      BY <1>1, <1>5, <3>1, <3>2
  <2>. HIDE DEF last, youngest
  <2>. QED
    BY <1>1, <1>5, <2>1, <2>2
<1>7. Scanned = {sn \in 0..(n - 1) : sn >= o * L}
  BY QuietCanScan
<1>. HIDE DEF n, o, L, start, end, last, youngest
<1>8. {FullTwigs(sn) : sn \in Scanned} = o..last
  <2>1. ASSUME NEW sn \in Scanned PROVE FullTwigs(sn) \in o..last
    <3>1. sn \in Nat /\ sn <= n - 1 /\ o * L <= sn
      BY <1>1, <1>4, <1>7
    <3>2. FullTwigs(sn) \in Nat /\ FullTwigs(sn) <= last
      BY <1>4, <3>1, FullTwigsProp DEF last
    <3>3. o <= FullTwigs(sn)
      <4>1. o * L \in Nat /\ FullTwigs(o * L) <= FullTwigs(sn)
        BY <1>1, <3>1, FullTwigsProp
      <4>2. L * o = o * L /\ L * o <= o * L /\ o * L < L * o + L
        BY <1>1
      <4>3. FullTwigs(o * L) = o
        BY <1>1, <4>1, <4>2, Quotient DEF FullTwigs, L
      <4>. QED
        BY <4>1, <4>3
    <3>. QED
      BY <1>1, <1>5, <3>2, <3>3
  <2>2. ASSUME NEW t \in o..last PROVE \E sn \in Scanned : t = FullTwigs(sn)
    <3>1. t \in Nat /\ o <= t /\ t <= last
      BY <1>1, <1>5
    <3>2. L * t \in Nat /\ L * t <= n - 1 /\ o * L <= L * t
      <4>1. L * (last - t) >= 0 /\ L * (last - t) = L * last - L * t
        BY <1>1, <1>5, <3>1
      <4>2. L * (t - o) >= 0 /\ L * (t - o) = L * t - o * L
        BY <1>1, <3>1
      <4>3. L * t \in Nat /\ L * last \in Nat /\ o * L \in Nat
        BY <1>1, <1>5, <3>1
      <4>. QED
        BY <1>4, <1>5, <4>1, <4>2, <4>3
    <3>3. L * t \in Scanned
      BY <1>4, <1>7, <3>2
    <3>4. FullTwigs(L * t) = t
      <4>1. L * t <= L * t /\ L * t < L * t + L
        BY <1>1, <3>2
      <4>. QED
        BY <1>1, <3>1, <3>2, <4>1, Quotient DEF FullTwigs, L
    <3>. QED
      BY <3>3, <3>4
  <2>. QED
    BY <2>1, <2>2
<1>9. TouchedTwigs = start..last
  <2>1. InactiveTwigs = start..(o - 1)
    BY DEF InactiveTwigs, start, o
  <2>. QED
    BY <1>1, <1>3, <1>5, <1>6, <1>8, <2>1 DEF TouchedTwigs
<1>10. RecoveredYoungest = youngest
  <2>1. Scanned # {}
    <3>1. o \in o..last
      BY <1>1, <1>5, <1>6
    <3>. QED
      BY <1>8, <3>1
  <2>. QED
    BY <1>1, <2>1 DEF RecoveredYoungest, youngest
<1>11. PICK saved \in Nat : end <= saved /\ db.edgeNodes = EdgesAt(end, saved)
  BY <1>2 DEF RInv, PrunedOK, EdgesOK, end
<1>12. ASSUME NEW k \in 1..calcMaxLevel(RecoveredYoungest), NEW i \in TouchedAt(k)
       PROVE  HasChildren(k, i)
  <2>1. PICK t \in start..last : i = t \div Width[k]
    BY <1>9, <1>12 DEF TouchedAt
  <2>2. k \in Nat \ {0}
    BY <1>5, <1>10, MaxLevelProp
  <2>3. start <= last
    BY <1>1, <1>3, <1>5, <1>6
  <2>4. Closes(k, i, start, last, EdgesAt(end, saved), youngest)
    <3>1. /\ start \in Nat /\ last \in Nat /\ end \in Nat /\ youngest \in Nat /\ end <= saved
          /\ start % 2 = 0 /\ (end = start + 1 \/ (end = start + 2 /\ start % 4 = 0))
          /\ youngest \in {last, last + 1}
      BY <1>3, <1>5, <1>6, <1>11
    <3>2. Closes(k, t \div Width[k], start, last, EdgesAt(end, saved), youngest)
      BY ONLY <2>2, <2>3, <3>1, saved \in Nat, t \in start..last, UpperNodesFit
    <3>. QED
      BY <2>1, <3>2
  <2>. QED
    BY <1>9, <1>10, <1>11, <2>4 DEF HasChildren, HasNode, TouchedAt, Closes
<1>13. ASSUME NEW t \in InactiveTwigs PROVE CanReadTwig(t)
  <2>1. t \in Int /\ start <= t /\ t <= o - 1
    BY <1>1, <1>3 DEF InactiveTwigs, start, o
  <2>2. lostTwigs <= t /\ t <= db.oldestActiveTwigID
    BY <1>1, <1>2, <1>3, <2>1 DEF o
  <2>. QED
    BY <2>1, <2>2, QuietCanScan
<1>. QED
  BY <1>12, <1>13 DEF CanSyncUpperNodes

\* The scan finds a stored key last where the committed index has it.
LEMMA ScanFindsKeys ==
    ASSUME RInv, quiet, DummyKey \notin AllKeys, NEW k \in DOMAIN committed.idxTree
    PROVE  k \in ScannedKeys /\ ScannedIndex[k] = committed.idxTree[k]
<1> DEFINE n == committed.maxSerialNum
           D == db.oldestActiveTwigID * LeafCountInTwig
           i == committed.idxTree[k]
           S == {sn \in Scanned : datTree.entryFile[sn].entry.key = k}
<1>1. Scanned = {sn \in 0..(n - 1) : sn >= D}
  BY QuietCanScan
<1>2. /\ i \in committed.activeBits /\ datTree.entryFile[i].entry.key = k
      /\ \A sn \in 0..(n - 1) : datTree.entryFile[sn].entry.key = k => sn <= i
  BY DEF RInv, CommittedOK, ReadOff
<1>3. i \in 0..(n - 1) /\ i >= D
  BY <1>2 DEF RInv, CommittedOK, ReadOff, DbOK
<1>. HIDE DEF D, i, n
<1>4. i \in S /\ \A s \in S : s <= i /\ s \in Int
  BY <1>1, <1>2, <1>3
<1>5. \A m \in S : (\A s \in S : s <= m) => m = i
  BY <1>3, <1>4
<1>6. Greatest(S) = i
  BY <1>4, <1>5 DEF Greatest
<1>7. k \in ScannedKeys
  BY <1>4 DEF ScannedKeys
<1>. QED
  BY <1>6, <1>7 DEF ScannedIndex, i

\* The log of the scanned twigs deactivates what the log of the whole file does, because
\* an entry is listed by a later one.
LEMMA RecoveredBitsAre ==
    ASSUME RInv, quiet
    PROVE  RecoveredBits = committed.activeBits \cup
              {sn \in committed.pending : sn >= db.oldestActiveTwigID * LeafCountInTwig}
<1> DEFINE n == committed.maxSerialNum
           D == db.oldestActiveTwigID * LeafCountInTwig
           f == datTree.entryFile
           a == committed.activeBits
           p == committed.pending
<1>1. Scanned = {sn \in 0..(n - 1) : sn >= D}
  BY QuietCanScan
<1>2. /\ n \in Nat /\ D \in Int
      /\ a = {t \in 0..(n - 1) : ~IsListed(f, n, t) /\ t \notin p}
      /\ \A t \in p : t \in 0..(n - 1) /\ ~IsListed(f, n, t)
      /\ \A t \in a : t >= D
  <2>1. n \in Nat /\ D \in Int
    BY SizeAssumption DEF RInv, CommittedOK, DbOK, FullInv, IInv, TypeOK, IsDataTree
  <2>. QED
    BY <2>1 DEF RInv, CommittedOK, ReadOff, DbOK
<1>3. \A s \in 0..(n - 1) : \A t \in SNSet(f[s].snList) : t < s
  <2>1. n \in 0..datTree.maxSerialNum /\ datTree.maxSerialNum \in Nat /\ DOMAIN f = 0..(datTree.maxSerialNum - 1)
    BY DEF RInv, CommittedOK, FullInv, IInv, TypeOK, IsDataTree
  <2>2. \A s \in DOMAIN f : \A t \in SNSet(f[s].snList) : t < s
    BY DEF RInv, FileOK, LogOK
  <2>. HIDE DEF n, f
  <2>3. \A s \in 0..(n - 1) : s \in DOMAIN f
    BY <2>1
  <2>. QED
    BY <2>2, <2>3
<1>. HIDE DEF n, D, f, a, p
<1>4. ASSUME NEW sn \in Scanned
      PROVE  (\A later \in Scanned : sn < later => sn \notin SNSet(f[later].snList))
                 <=> ~IsListed(f, n, sn)
  <2>1. sn \in 0..(n - 1) /\ sn >= D
    BY <1>1
  <2>2. ASSUME NEW s \in 0..(n - 1), sn \in SNSet(f[s].snList)
        PROVE  s \in Scanned /\ sn < s
    <3>1. sn < s
      BY <1>3, <2>2
    <3>2. s >= D
      BY <1>2, <2>1, <3>1
    <3>. QED
      BY <1>1, <3>1, <3>2
  <2>3. \A later \in Scanned : later \in 0..(n - 1)
    BY <1>1
  <2>. QED
    BY <2>2, <2>3 DEF IsListed
<1>5. RecoveredBits = {sn \in Scanned : ~IsListed(f, n, sn)}
  <2>1. RecoveredBits = {sn \in Scanned : \A later \in Scanned :
                            sn < later => sn \notin SNSet(f[later].snList)}
    BY DEF RecoveredBits, f
  <2>. QED
    BY <1>4, <2>1
<1>6. ASSUME NEW t
      PROVE  (t \in Scanned /\ ~IsListed(f, n, t)) <=> (t \in a \/ (t \in p /\ t >= D))
  BY <1>1, <1>2
<1>7. RecoveredBits = a \cup {sn \in p : sn >= D}
  BY <1>5, <1>6
<1>. QED
  BY <1>7 DEF a, p, D

LEMMA OpenStep ==
    ASSUME RInv, Open
    PROVE  OpenedOK'
<1>1. /\ proc = "down" /\ opened' = IF db.isRunning THEN RecoverTree ELSE LoadTree
      /\ db' = [db EXCEPT !.isRunning = TRUE]
      /\ UNCHANGED <<datTree, dump, committed, quiet, lostTwigs, lastPrunedTwig>>
  BY DEF Open, vars, pruneVars
<1>2. /\ db'.oldestActiveTwigID = db.oldestActiveTwigID
      /\ db'.lastPrunedTwig = db.lastPrunedTwig
  BY <1>1 DEF RInv, DbOK
<1>3. CASE ~quiet
  BY <1>1, <1>3 DEF OpenedOK, KeepsStoredKeys, RestoresActiveBits, QuietRestartSucceeds, QuietRestart
<1>4. CASE quiet
  <2>1. CanScan /\ (db.isRunning <=> dump = <<>>)
    BY <1>1, <1>4, QuietCanScan DEF RInv, ProcOK
  <2>2. CASE dump # <<>>
    <3>1. opened' = [panic |-> FALSE, activeBits |-> dump[1], idxTree |-> ScannedIndex]
      BY <1>1, <2>1, <2>2 DEF LoadTree
    <3>2. dump[1] = committed.activeBits
      BY <2>2 DEF RInv, ProcOK
    <3>3. opened'.activeBits = committed.activeBits /\ opened'.idxTree = ScannedIndex
          /\ opened'.panic = FALSE
      BY <3>1, <3>2
    <3>4. RestoresActiveBits'
      BY <1>1, <2>2, <3>3 DEF RestoresActiveBits
    <3>5. QuietRestartSucceeds'
      BY <3>3 DEF QuietRestartSucceeds
    <3>6. DummyKey \notin AllKeys => KeepsStoredKeys'
      BY <1>1, <1>4, <3>3, ScanFindsKeys DEF KeepsStoredKeys, ScannedIndex
    <3>. QED
      BY <3>4, <3>5, <3>6 DEF OpenedOK
  <2>3. CASE dump = <<>> /\ (\A t \in InactiveTwigs : CanReadTwig(t)) /\ CanSyncUpperNodes
    <3>1. opened' = [panic |-> FALSE, activeBits |-> RecoveredBits, idxTree |-> ScannedIndex]
      BY <1>1, <2>1, <2>3 DEF RecoverTree
    <3>2. opened'.activeBits = RecoveredBits /\ opened'.idxTree = ScannedIndex
          /\ opened'.panic = FALSE
      BY <3>1
    <3>3. RestoresActiveBits'
      BY <1>1, <1>2, <1>4, <2>3, <3>2, RecoveredBitsAre DEF RestoresActiveBits
    <3>4. QuietRestartSucceeds'
      BY <3>2 DEF QuietRestartSucceeds
    <3>5. DummyKey \notin AllKeys => KeepsStoredKeys'
      BY <1>1, <1>4, <3>2, ScanFindsKeys DEF KeepsStoredKeys, ScannedIndex
    <3>. QED
      BY <3>3, <3>4, <3>5 DEF OpenedOK
  <2>4. CASE dump = <<>> /\ ~((\A t \in InactiveTwigs : CanReadTwig(t)) /\ CanSyncUpperNodes)
    <3>1. opened'.panic = TRUE
      BY <1>1, <2>1, <2>4 DEF RecoverTree, Panicked
    <3>2. ~Recoverable
      BY <1>4, <2>4, QuietCanSync
    <3>3. ~Recoverable'
      BY <1>1, <1>2, <3>2 DEF Recoverable, StartingInactiveTwigID
    <3>. QED
      BY <1>1, <1>2, <2>4, <3>1, <3>3 DEF OpenedOK, KeepsStoredKeys, RestoresActiveBits,
         QuietRestartSucceeds, QuietRestart
  <2>. QED
    BY <2>2, <2>3, <2>4
<1>. QED
  BY <1>3, <1>4

\* Nothing happens any more once the database is open again.
LEMMA OpenedStep ==
    ASSUME RInv, [RNext]_allVars
    PROVE  OpenedOK'
<1>1. CASE Open
  BY <1>1, OpenStep
<1>2. CASE UNCHANGED allVars
  <2>1. UNCHANGED <<proc, quiet, opened, committed, db, dump, lostTwigs, lastPrunedTwig>>
    BY <1>2 DEF allVars, recVars, pruneVars
  <2>2. OpenedOK
    BY DEF RInv
  <2>. QED
    BY <2>1, <2>2 DEF OpenedOK, KeepsStoredKeys, RestoresActiveBits, QuietRestartSucceeds,
       QuietRestart, Recoverable, StartingInactiveTwigID
<1>3. CASE RNext /\ ~Open
  <2>1. proc' # "opened"
    BY <1>3 DEF RNext, Work, TreeEndBlock, CommitBatch, FlushEntries, FlushTwigs,
       PruneBeforeHeight, PruneTwigs, BeginClose, FinishClose, Crash, recVars
  <2>. QED
    BY <2>1 DEF OpenedOK, KeepsStoredKeys, RestoresActiveBits, QuietRestartSucceeds, QuietRestart
<1>. QED
  BY <1>1, <1>2, <1>3


-----------------------------------------------------------------------------
(* Theorems *)

LEMMA InitRInv == RInit => RInv
<1>. SUFFICES ASSUME RInit PROVE RInv
  OBVIOUS
<1> DEFINE L == LeafCountInTwig
           m == datTree.maxSerialNum
<1>1. Init /\ FullInv /\ FileOK
  BY InitIInv, InitTwigs, InitHeights, InitFile DEF FullInv, RInit
<1>2. /\ L \in Nat \ {0} /\ m = L + 2 /\ oldestActiveTwigID = 0 /\ phase = "filling"
      /\ currHeight = -1
  BY <1>1, SizeAssumption DEF Init
<1>3. /\ Snapshot.maxSerialNum = m /\ Snapshot.activeBits = datTree.activeBits
      /\ ReadOff(Snapshot, datTree.entryFile)
  BY <1>1, SnapshotIsReadOff
<1>4. /\ db.maxSerialNum = L + 2 /\ db.oldestActiveTwigID = 0 /\ db.lastPrunedTwig = -1
      /\ db.edgeNodes = {} /\ db.isRunning = TRUE /\ db.twigHeight = [t \in {1} |-> 0]
      /\ db = [currHeight |-> db.currHeight, maxSerialNum |-> db.maxSerialNum,
             oldestActiveTwigID |-> db.oldestActiveTwigID, lastPrunedTwig |-> db.lastPrunedTwig,
             edgeNodes |-> db.edgeNodes, isRunning |-> db.isRunning,
             twigHeight |-> db.twigHeight]
  BY DEF RInit
<1>5. /\ proc = "running" /\ blockEnded = FALSE /\ committed = Snapshot /\ quiet = FALSE
      /\ entriesOnDisk = 0 /\ entriesFlushing = TRUE /\ tornEntry = FALSE
      /\ twigsOnDisk = 0 /\ twigsFlushing = TRUE /\ dump = <<>>
      /\ lostTwigs = 0 /\ lastPrunedTwig = -1 /\ prunedBefore = 0
  BY DEF RInit
<1>6. CommittedOK
  BY <1>2, <1>3, <1>5 DEF CommittedOK
<1>7. TwigHeightsOK(db.twigHeight, datTree)
  <2>1. DOMAIN db.twigHeight = {1} /\ db.twigHeight[1] = 0 /\ db.twigHeight \in [{1} -> Int]
    BY <1>4
  <2>2. 1 * L <= m /\ 1 \in Nat
    BY <1>2
  <2>3. \A sn \in 0..(m - 1) : datTree.entryFile[sn].entry.height <= 0
    <3>1. \A sn \in 0..(m - 1) : /\ datTree.entryFile[sn].entry.height <= -1
                                 /\ datTree.entryFile[sn].entry.height \in Int
      BY <1>1, <1>2 DEF FileOK, FullInv, IInv, TypeOK, IsDataTree, LogRecord, Entry
    <3>. QED
      BY <3>1
  <2>. QED
    BY <2>1, <2>2, <2>3 DEF TwigHeightsOK
<1>8. DbOK
  <2>1. \A sn \in datTree.activeBits : sn >= 0 * L
    BY <1>1, <1>2 DEF FullInv, TwigsOK, NoActiveInEvictedTwig
  <2>2. (0 + 1) * L <= m
    BY <1>2
  <2>. QED
    BY <1>2, <1>3, <1>4, <1>5, <1>7, <2>1, <2>2 DEF DbOK
<1>9. PrunedOK
  <2>1. \A sn \in 0..(m - 1) : ~(sn < (-1 + 1) * L)
    BY <1>2
  <2>. QED
    BY <1>2, <1>4, <1>5, <2>1 DEF PrunedOK, EdgesOK
<1>10. DiskOK
  <2>1. FullTwigs(m) \in Nat
    BY <1>2, FullTwigsProp
  <2>2. {blockEnded, entriesFlushing, tornEntry, twigsFlushing, quiet} \subseteq BOOLEAN
    BY <1>5
  <2>3. entriesOnDisk \in 0..m /\ twigsOnDisk \in 0..FullTwigs(m)
    BY <1>2, <1>5, <2>1
  <2>. QED
    BY <1>5, <2>2, <2>3 DEF DiskOK
<1>11. ProcOK
  BY <1>4, <1>5 DEF ProcOK
<1>12. OpenedOK
  BY <1>5 DEF OpenedOK, KeepsStoredKeys, RestoresActiveBits, QuietRestartSucceeds, QuietRestart
<1>. QED
  BY <1>1, <1>6, <1>8, <1>9, <1>10, <1>11, <1>12 DEF RInv

LEMMA NextRInv ==
    ASSUME OneOpPerKey, RInv, [RNext]_allVars
    PROVE  RInv'
<1>1. [Next]_vars /\ FullInv /\ FileOK
  BY RNextIsNext DEF RInv
<1>2. FullInv'
  BY <1>1, NextIInv, NextTwigs, NextHeights DEF FullInv
<1>3. FileOK'
  BY <1>1, <1>2, NextFile
<1>4. CommittedOK'
  BY <1>2, <1>3, CommittedStep
<1>5. DbOK' /\ PrunedOK' /\ DiskOK' /\ ProcOK' /\ OpenedOK'
  BY <1>4, DbStep, PrunedStep, DiskStep, ProcStep, OpenedStep
<1>. QED
  BY <1>2, <1>3, <1>4, <1>5 DEF RInv

\* The inductive invariant of Recovery: through crashes, commits and prunings the committed
\* state can be read off the committed part of the entry file.
THEOREM RecoveryInvariance == OneOpPerKey => (RSpec => []RInv)
<1>. SUFFICES ASSUME OneOpPerKey PROVE RSpec => []RInv
  OBVIOUS
<1>1. RInv /\ [RNext]_allVars => RInv'
  BY NextRInv
<1>. QED
  BY <1>1, InitRInv, PTL DEF RSpec

\* Type correctness of the durable state: the files never run ahead of the tree, pruning
\* never of the oldest active twig, and the database is of the last commit.
THEOREM DurableTypeCorrect == OneOpPerKey => (RSpec => []RTypeOK)
<1>1. RInv => RTypeOK
  <2>. SUFFICES ASSUME RInv PROVE RTypeOK
    OBVIOUS
  <2>1. /\ proc \in {"running", "closing", "down", "opened", "dead"}
        /\ dump # <<>> => dump = <<committed.activeBits>>
    BY DEF RInv, ProcOK
  <2>2. /\ entriesOnDisk \in 0..datTree.maxSerialNum
        /\ twigsOnDisk \in 0..FullTwigs(datTree.maxSerialNum)
        /\ {blockEnded, entriesFlushing, tornEntry, twigsFlushing, quiet} \subseteq BOOLEAN
    BY DEF RInv, DiskOK
  <2>3. /\ lostTwigs \in 0..(lastPrunedTwig + 1)
        /\ db.lastPrunedTwig <= lastPrunedTwig /\ lastPrunedTwig < oldestActiveTwigID
        /\ db.edgeNodes \subseteq Nat \X Nat
    <3>1. oldestActiveTwigID \in Int /\ db.oldestActiveTwigID \in Int
      BY DEF RInv, FullInv, IInv, TypeOK, DbOK
    <3>. QED
      BY <3>1 DEF RInv, PrunedOK, EdgesOK
  <2>4. db.maxSerialNum = committed.maxSerialNum /\ db.twigHeight \in [DOMAIN db.twigHeight -> Int]
    BY DEF RInv, DbOK, TwigHeightsOK
  <2>5. dump = <<>> \/ dump[1] \subseteq Nat
    <3>1. committed.activeBits \subseteq Nat
      BY DEF RInv, CommittedOK, ReadOff
    <3>. QED
      BY <2>1, <3>1
  <2>. QED
    BY <2>1, <2>2, <2>3, <2>4, <2>5 DEF RTypeOK
<1>. QED
  BY <1>1, RecoveryInvariance, PTL

\* A restart between two blocks restores the active bits, from the dump or from the log.
THEOREM ActiveBitsAreRestored == OneOpPerKey => (RSpec => []RestoresActiveBits)
<1>1. RInv => RestoresActiveBits
  BY DEF RInv, OpenedOK
<1>. QED
  BY <1>1, RecoveryInvariance, PTL

\* A restart between two blocks finds every stored key where it was, if no key of the
\* client is the one the dummy entries carry.
THEOREM KeysAreKept ==
    OneOpPerKey /\ DummyKey \notin AllKeys => (RSpec => []KeepsStoredKeys)
<1>. SUFFICES ASSUME OneOpPerKey, DummyKey \notin AllKeys PROVE RSpec => []KeepsStoredKeys
  OBVIOUS
<1>1. RInv => KeepsStoredKeys
  BY DEF RInv, OpenedOK
<1>. QED
  BY <1>1, RecoveryInvariance, PTL

\* A restart between two blocks succeeds after Close, and after a crash if the committed
\* pruning is the last one, did not end at a multiple of four, and has left the twigs
\* RecoverTree starts from: then syncNodesByLevel finds every child, however far the tree
\* has grown since the edge nodes were saved.
THEOREM QuietRestartsSucceed == OneOpPerKey => (RSpec => []QuietRestartSucceeds)
<1>1. RInv => QuietRestartSucceeds
  BY DEF RInv, OpenedOK
<1>. QED
  BY <1>1, RecoveryInvariance, PTL

\* PruneBeforeHeight only drops dead entries written before the height it was given.
THEOREM PruningIsSafe == OneOpPerKey => (RSpec => []PrunedIsDeadAndOld)
<1>1. RInv => PrunedIsDeadAndOld
  <2>. SUFFICES ASSUME RInv, NEW sn \in DOMAIN datTree.entryFile,
                       sn < (lastPrunedTwig + 1) * LeafCountInTwig
                PROVE  /\ sn \notin datTree.activeBits
                       /\ datTree.entryFile[sn].entry.height < prunedBefore
    BY DEF PrunedIsDeadAndOld
  <2> DEFINE L == LeafCountInTwig
             p == lastPrunedTwig + 1
             o == oldestActiveTwigID
  <2>1. sn \in 0..(datTree.maxSerialNum - 1) /\ sn \in Int
    BY DEF RInv, FullInv, IInv, TypeOK, IsDataTree
  <2>2. datTree.entryFile[sn].entry.height < prunedBefore
    BY <2>1 DEF RInv, PrunedOK
  <2>3. L \in Nat \ {0} /\ p \in Int /\ o \in Int /\ p <= o
    <3>1. o \in Int /\ db.oldestActiveTwigID \in Int
      BY DEF RInv, FullInv, IInv, TypeOK, DbOK
    <3>. QED
      BY <3>1, SizeAssumption DEF RInv, PrunedOK
  <2>4. sn < p * L
    OBVIOUS
  <2>. HIDE DEF p, o, L
  <2>5. L * (o - p) >= 0
    BY <2>3
  <2>6. L * (o - p) = o * L - p * L
    BY <2>3
  <2>7. sn < o * L /\ ~(sn >= o * L)
    <3>1. o * L \in Int /\ p * L \in Int
      BY <2>3
    <3>. QED
      BY <2>1, <2>4, <2>5, <2>6, <3>1
  <2>8. sn \notin datTree.activeBits
    BY <2>7 DEF RInv, FullInv, TwigsOK, NoActiveInEvictedTwig, o, L
  <2>. QED
    BY <2>2, <2>8
<1>. QED
  BY <1>1, RecoveryInvariance, PTL


=============================================================================
