------------------------- MODULE OnvaKV_refinement -------------------------
(***************************************************************************)
(* What OnvaKV does over time, on top of the inductive invariant: the      *)
(* twigs that are given up are empty, every entry that takes the place of  *)
(* another one continues its history, and the whole of it implements the   *)
(* block-atomic map of KVBlockSpec.                                        *)
(***************************************************************************)
EXTENDS OnvaKV_proofs, FiniteSetTheorems

-----------------------------------------------------------------------------
(* Twigs *)

\* The number of the twig a serial number belongs to.
LEMMA TwigOf ==
    ASSUME NEW L \in Nat \ {0}, NEW t \in Nat, NEW sn \in Nat,
           sn >= t * L, sn \div L # t
    PROVE  sn >= (t + 1) * L
<1>1. sn = L * (sn \div L) + (sn % L) /\ sn % L \in 0..(L - 1) /\ sn \div L \in Int
  OBVIOUS
<1> DEFINE q == sn \div L
           r == sn % L
<1>. HIDE DEF q, r
<1>2. q \in Int /\ sn = L * q + r /\ r \in 0..(L - 1)
  BY <1>1 DEF q, r
<1>3. q # t
  BY DEF q
<1>4. q >= t + 1
  <2>1. ASSUME q < t PROVE FALSE
    <3>1. L * (t - q) >= L
      BY <1>2, <2>1
    <3>2. L * (t - q) = t * L - L * q
      BY <1>2
    <3>. QED
      BY <1>2, <3>1, <3>2
  <2>. QED
    BY <1>2, <1>3, <2>1
<1>5. L * (q - (t + 1)) >= 0
  BY <1>2, <1>4
<1>6. L * (q - (t + 1)) = L * q - (t + 1) * L
  BY <1>2
<1>. QED
  BY <1>2, <1>5, <1>6

\* Compaction is only needed when the oldest active twig is full.
LEMMA CompactionNeedsFullTwig ==
    ASSUME TypeOK, IsFiniteSet(StoredKeys), NeedCompaction
    PROVE  (oldestActiveTwigID + 1) * LeafCountInTwig <= datTree.maxSerialNum
<1> DEFINE A == ActiveCount
           R == KeptEntriesToActiveEntriesRatio
           S == StartReapThres
           L == LeafCountInTwig
           o == oldestActiveTwigID
           m == datTree.maxSerialNum
<1>1. /\ A \in Nat /\ R \in Nat \ {0} /\ S \in Nat /\ L \in Nat \ {0} /\ o \in Nat /\ m \in Nat
      /\ R * (S + 1) >= L
  BY FS_CardinalityType, SizeAssumption DEF TypeOK, IsDataTree, ActiveCount, StoredKeys
<1>2. m - o * L > A * R /\ A > S
  BY DEF NeedCompaction, NumOfKeptEntries
<1>. HIDE DEF A, R, S, L, o, m
<1>3. R * (A - (S + 1)) >= 0
  BY <1>1, <1>2
<1>4. R * (A - (S + 1)) = A * R - R * (S + 1)
  BY <1>1
<1>5. A * R >= R * (S + 1)
  BY <1>1, <1>3, <1>4
<1>6. (o + 1) * L = o * L + L
  BY <1>1
<1>7. o * L \in Int /\ A * R \in Int /\ R * (S + 1) \in Int
  BY <1>1
<1>8. (o + 1) * L <= m
  BY <1>1, <1>2, <1>5, <1>6, <1>7
<1>. QED
  BY <1>8 DEF o, L, m

\* What the second loop and compaction do to the data tree: serial numbers only grow, and
\* what becomes active has a new one.
LEMMA ActiveBitsGrowAtTheEnd ==
    ASSUME IInv, [Next]_vars
    PROVE  /\ datTree.maxSerialNum \in Nat /\ datTree'.maxSerialNum \in Nat
           /\ datTree'.maxSerialNum >= datTree.maxSerialNum
           /\ \A sn \in datTree'.activeBits :
                 sn \in datTree.activeBits \/ (sn \in Nat /\ sn >= datTree.maxSerialNum)
<1>0. TypeOK /\ ActiveIffIndexed /\ StoredOK /\ datTree.maxSerialNum \in Nat
  BY DEF IInv, TypeOK, IsDataTree
<1>1. CASE datTree' = datTree
  BY <1>0, <1>1
<1>2. ASSUME NEW k, datTree' = WithoutKey(k)
      PROVE  /\ datTree'.maxSerialNum \in Nat /\ datTree'.maxSerialNum >= datTree.maxSerialNum
             /\ \A sn \in datTree'.activeBits : sn \in datTree.activeBits
  BY <1>0, <1>2, WithoutKeyProp
<1>3. ASSUME NEW k, NEW e \in Entry, e.serialNum = WithoutKey(k).maxSerialNum,
             datTree' = AppendEntry(WithoutKey(k), e)
      PROVE  /\ datTree'.maxSerialNum \in Nat /\ datTree'.maxSerialNum >= datTree.maxSerialNum
             /\ \A sn \in datTree'.activeBits :
                   sn \in datTree.activeBits \/ (sn \in Nat /\ sn >= datTree.maxSerialNum)
  <2> DEFINE d == WithoutKey(k)
  <2>1. /\ IsDataTree(d) /\ d.maxSerialNum \in Nat /\ d.maxSerialNum >= datTree.maxSerialNum
        /\ \A sn \in d.activeBits : sn \in datTree.activeBits
    BY <1>0, WithoutKeyProp
  <2>2. e.serialNum = d.maxSerialNum /\ datTree' = AppendEntry(d, e)
    BY <1>3
  <2>. HIDE DEF d
  <2>3. /\ datTree'.maxSerialNum = d.maxSerialNum + 1
        /\ datTree'.activeBits = d.activeBits \cup {d.maxSerialNum}
    BY <2>1, <2>2, AppendEntryProp
  <2>. QED
    BY <1>0, <2>1, <2>3
<1>. QED
  BY <1>0, <1>1, <1>2, <1>3, DataTreeStep

\* The index changes by one key at a time.
LEMMA IndexStep ==
    ASSUME IInv, [Next]_vars
    PROVE  \/ StoredKeys' = StoredKeys
           \/ \E k : StoredKeys' = StoredKeys \cup {k}
           \/ \E k : StoredKeys' = StoredKeys \ {k}
<1>0. TypeOK /\ ActiveIffIndexed /\ StoredOK
  BY DEF IInv
<1>1. CASE SweepEntry
  <2>1. PICK k : SweptAway(k) \/ Rewritten(k) \/ PassedOver(k)
    BY <1>1, SweptEntry
  <2>2. CASE SweptAway(k)
    BY <2>2 DEF SweptAway, IndexDelete, StoredKeys
  <2>3. CASE Rewritten(k)
    BY <2>3 DEF Rewritten, IndexSet, StoredKeys
  <2>4. CASE PassedOver(k)
    BY <2>4 DEF PassedOver, StoredKeys
  <2>. QED
    BY <2>1, <2>2, <2>3, <2>4
<1>2. CASE ReapEntry
  <2>1. PICK k, sn : idxTree' = IndexSet(k, sn)
    BY <1>2 DEF ReapEntry
  <2>. QED
    BY <2>1 DEF IndexSet, StoredKeys
<1>3. CASE Prepare \/ Mark \/ UNCHANGED vars
  BY <1>3 DEF Prepare, Mark, PrepareForUpdate, PrepareForDeletion, StoreHotEntry, StoreNextKey,
     BeginWrite, Set, Delete, vars, storeVars, StoredKeys
<1>4. CASE Gather \/ LinkEntry \/ EndLinking \/ EndSweeping \/ StartReaping \/ EvictTwig \/ EndBlock
  BY <1>4 DEF Gather, LinkEntry, EndLinking, EndSweeping, StartReaping, EvictTwig, EndBlock,
     storeVars, StoredKeys
<1>. QED
  BY <1>1, <1>2, <1>3, <1>4 DEF Next, EndWrite

LEMMA InitTwigs == Init => TwigsOK
<1>. SUFFICES ASSUME Init PROVE TwigsOK
  OBVIOUS
<1>1. LeafCountInTwig \in Nat \ {0}
  BY SizeAssumption
<1>2. StoredKeys = {StartKey} \cup {EndKey}
  BY DEF Init, StoredKeys
<1>3. IsFiniteSet(StoredKeys)
  BY <1>2, FS_Singleton, FS_AddElement
<1>4. /\ oldestActiveTwigID = 0 /\ phase = "filling"
      /\ datTree.activeBits = {LeafCountInTwig, LeafCountInTwig + 1}
      /\ datTree.maxSerialNum = LeafCountInTwig + 2
  BY DEF Init
<1>. QED
  BY <1>1, <1>3, <1>4 DEF TwigsOK, NoActiveInEvictedTwig

\* A step that leaves the oldest active twig where it is.
LEMMA TwigsStep ==
    ASSUME IInv, TwigsOK, [Next]_vars, oldestActiveTwigID' = oldestActiveTwigID,
           phase' = "reaping" => phase = "reaping" \/ NeedCompaction
    PROVE  TwigsOK'
<1> DEFINE L == LeafCountInTwig
           o == oldestActiveTwigID
           m == datTree.maxSerialNum
<1>1. TypeOK /\ L \in Nat \ {0} /\ o \in Nat /\ m \in Nat /\ datTree.activeBits \subseteq Nat
  BY SizeAssumption DEF IInv, TypeOK, IsDataTree
<1>2. IsFiniteSet(StoredKeys)'
  BY IndexStep, FS_AddElement, FS_RemoveElement DEF TwigsOK
<1>3. /\ m' \in Nat /\ m' >= m
      /\ \A sn \in datTree'.activeBits : sn \in datTree.activeBits \/ (sn \in Nat /\ sn >= m)
  BY ActiveBitsGrowAtTheEnd
<1>4. o * L <= m /\ (\A sn \in datTree.activeBits : sn >= o * L) /\ o * L \in Int /\ (o + 1) * L \in Int
  BY <1>1 DEF TwigsOK, NoActiveInEvictedTwig
<1>5. phase' = "reaping" => (o + 1) * L <= m
  BY <1>1, CompactionNeedsFullTwig DEF TwigsOK
<1>6. o' = o
  OBVIOUS
<1>. HIDE DEF L, o, m
<1>7. o * L <= m' /\ \A sn \in datTree'.activeBits : sn >= o * L
  BY <1>1, <1>3, <1>4
<1>8. phase' = "reaping" => (o + 1) * L <= m'
  BY <1>1, <1>3, <1>4, <1>5
<1>. QED
  BY <1>2, <1>6, <1>7, <1>8 DEF TwigsOK, NoActiveInEvictedTwig, L, o, m

LEMMA NextTwigs ==
    ASSUME IInv, TwigsOK, [Next]_vars
    PROVE  TwigsOK'
<1>1. CASE EvictTwig
  <2> DEFINE L == LeafCountInTwig
             o == oldestActiveTwigID
  <2>1. L \in Nat \ {0} /\ o \in Nat /\ datTree.activeBits \subseteq Nat
    BY SizeAssumption DEF IInv, TypeOK, IsDataTree
  <2>2. /\ phase = "reaping" /\ phase' = "compacting" /\ o' = o + 1
        /\ UNCHANGED <<idxTree, datTree>>
        /\ \A sn \in datTree.activeBits : sn \div L # o
    BY <1>1 DEF EvictTwig, ActiveInOldestTwig
  <2>3. \A sn \in datTree.activeBits : sn >= o * L
    BY DEF TwigsOK, NoActiveInEvictedTwig
  <2>4. \A sn \in datTree.activeBits : sn >= (o + 1) * L
    BY <2>1, <2>2, <2>3, TwigOf
  <2>5. (o + 1) * L <= datTree.maxSerialNum
    BY <2>2 DEF TwigsOK
  <2>6. IsFiniteSet(StoredKeys)'
    BY <2>2 DEF TwigsOK, StoredKeys
  <2>. QED
    BY <2>2, <2>4, <2>5, <2>6 DEF TwigsOK, NoActiveInEvictedTwig
<1>2. CASE ~EvictTwig
  <2>1. /\ oldestActiveTwigID' = oldestActiveTwigID
        /\ phase' = "reaping" => phase = "reaping" \/ NeedCompaction
    <3>1. CASE Prepare \/ Mark \/ UNCHANGED vars
      BY <3>1 DEF Prepare, Mark, PrepareForUpdate, PrepareForDeletion, StoreHotEntry,
         StoreNextKey, BeginWrite, Set, Delete, vars, storeVars
    <3>2. CASE EndWrite
      BY <1>2, <3>2 DEF EndWrite, Gather, LinkEntry, EndLinking, SweepEntry, EndSweeping,
         StartReaping, ReapEntry, EndBlock, storeVars
    <3>. QED
      BY <3>1, <3>2 DEF Next
  <2>. QED
    BY <2>1, TwigsStep
<1>. QED
  BY <1>1, <1>2

-----------------------------------------------------------------------------
(* Heights *)

\* What a step that leaves index and data tree alone sees of them.
LEMMA StoreFrame ==
    ASSUME UNCHANGED <<idxTree, datTree>>
    PROVE  StoredKeys' = StoredKeys /\ \A k : ReadEntry(k)' = ReadEntry(k)
BY DEF StoredKeys, ReadEntry

\* A hot entry has the height of the entry it copies.
LEMMA HotHeight ==
    ASSUME IInv, NEW k \in AllKeys, NEW h, HotEntryOK(k, h)
    PROVE  h.entry.height = CommittedEntry(k).height
<1> DEFINE c == CommittedEntry(k)
<1>1. c \in Entry
  BY CommittedHotType DEF IInv
<1>. HIDE DEF c
<1>2. CASE h = MakeHot(c)
  BY <1>2 DEF MakeHot, c
<1>3. CASE h = [MakeHot(c) EXCEPT !.op = OpDelete]
  BY <1>3 DEF MakeHot, c
<1>4. CASE h = [MakeHot(c) EXCEPT !.op = OpInsertOrChange, !.entry.value = batch[k]]
  <2>1. h.entry = [c EXCEPT !.value = batch[k]]
    BY <1>4 DEF MakeHot
  <2>. QED
    BY <1>1, <2>1 DEF Entry, c
<1>. QED
  BY <1>2, <1>3, <1>4 DEF HotEntryOK, c

LEMMA InitHeights == Init => HeightsOK
<1>. SUFFICES ASSUME Init PROVE HeightsOK
  OBVIOUS
<1> DEFINE L == LeafCountInTwig
<1>1. L \in Nat \ {0}
  BY SizeAssumption
<1>2. StoredKeys = {StartKey, EndKey} /\ phase = "filling" /\ currHeight = -1
  BY DEF Init, StoredKeys
<1>3. ASSUME NEW k \in StoredKeys PROVE idxTree[k] \in L..(L + 1)
  BY <1>1, <1>2 DEF Init
<1>4. ASSUME NEW sn \in L..(L + 1) PROVE datTree.entryFile[sn].entry.height = -1
  <2>1. datTree.entryFile = InitialEntryFile /\ sn \in 0..(L + 1) /\ ~(sn < L)
    BY <1>1 DEF Init
  <2>2. datTree.entryFile[sn].entry = GuardEntry(IF sn = L THEN StartKey ELSE EndKey, sn)
    BY <2>1 DEF InitialEntryFile
  <2>. QED
    BY <2>2 DEF GuardEntry
<1>5. \A k \in StoredKeys : ReadEntry(k).height = -1
  BY <1>3, <1>4 DEF ReadEntry
<1>. QED
  BY <1>2, <1>5 DEF HeightsOK

\* The heights after a step that leaves index and data tree alone and caches nothing new.
LEMMA HeightsFrame ==
    ASSUME IInv, HeightsOK, UNCHANGED <<idxTree, datTree, cachedEntries, todo>>,
           currHeight' \in Int, currHeight' >= currHeight,
           phase' \in {"marking", "linking"} =>
              phase \in {"marking", "linking"} \/ currHeight' > currHeight,
           phase' \in {"linking", "sweeping"} => phase' = phase /\ currHeight' = currHeight
    PROVE  HeightsOK'
<1>1. StoredKeys' = StoredKeys /\ \A k : ReadEntry(k)' = ReadEntry(k)
  BY StoreFrame
<1>2. currHeight \in Int /\ \A k \in StoredKeys : ReadEntry(k).height \in Int
  BY StoredEntry DEF IInv, TypeOK, Entry
<1>3. \A k \in StoredKeys : ReadEntry(k).height <= currHeight'
  BY <1>2 DEF HeightsOK
<1>4. phase' \in {"marking", "linking"} => \A k \in StoredKeys : ReadEntry(k).height < currHeight'
  BY <1>2 DEF HeightsOK
<1>5. CASE phase' \in {"linking", "sweeping"}
  <2>1. Pending' = Pending
    BY <1>5 DEF Pending
  <2>. QED
    BY <1>1, <1>5, <2>1 DEF HeightsOK
<1>6. CASE phase' \notin {"linking", "sweeping"}
  BY <1>1, <1>3, <1>4, <1>6 DEF HeightsOK
<1>. QED
  BY <1>5, <1>6

LEMMA GatherHeights ==
    ASSUME IInv, HeightsOK, Gather
    PROVE  HeightsOK'
<1> DEFINE C == DOMAIN k2heMap \cup k2nkMap
<1>1. /\ phase = "marking" /\ phase' = "linking"
      /\ cachedEntries' = [k \in C |-> IF k \in DOMAIN k2heMap THEN k2heMap[k] ELSE MakeHintHotEntry(k)]
      /\ UNCHANGED <<currHeight, idxTree, datTree>>
  BY DEF Gather, storeVars
<1>2. StoredKeys' = StoredKeys /\ \A k : ReadEntry(k)' = ReadEntry(k)
  BY <1>1, StoreFrame
<1>3. Pending' = C
  BY <1>1 DEF Pending
<1>4. ASSUME NEW k \in C, cachedEntries'[k].entry.serialNum >= 0
      PROVE  cachedEntries'[k].entry.height = ReadEntry(k).height
  <2>1. CASE k \in DOMAIN k2heMap
    <3>1. k \in AllKeys /\ HotEntryOK(k, k2heMap[k]) /\ cachedEntries'[k] = k2heMap[k]
      BY <1>1, <2>1 DEF IInv, TypeOK, FillingOK
    <3>2. k \notin StoredKeys => k2heMap[k].entry.serialNum = InsertedSN
      BY <3>1, HotFacts
    <3>3. k \in StoredKeys
      BY <1>4, <3>1, <3>2 DEF InsertedSN
    <3>. QED
      BY <3>1, <3>3, HotHeight DEF CommittedEntry
  <2>2. CASE k \notin DOMAIN k2heMap
    <3>1. cachedEntries'[k] = MakeHintHotEntry(k)
      BY <1>1, <2>2
    <3>2. cachedEntries'[k].entry.serialNum = HintSN
      BY <3>1 DEF MakeHintHotEntry, MakeHot
    <3>. QED
      BY <1>4, <3>2 DEF HintSN
  <2>. QED
    BY <2>1, <2>2
<1>. QED
  BY <1>1, <1>2, <1>3, <1>4 DEF HeightsOK

LEMMA LinkEntryHeights ==
    ASSUME IInv, HeightsOK, LinkEntry
    PROVE  HeightsOK'
<1>1. /\ phase = "linking" /\ phase' = "linking"
      /\ UNCHANGED <<currHeight, idxTree, datTree>>
  BY DEF LinkEntry, storeVars
<1>2. StoredKeys' = StoredKeys /\ \A k : ReadEntry(k)' = ReadEntry(k)
  BY <1>1, StoreFrame
<1>3. /\ DOMAIN cachedEntries' = DOMAIN cachedEntries
      /\ \A j \in DOMAIN cachedEntries :
            Relinked(j, cachedEntries'[j], cachedEntries[j], FinalKeys)
  BY LinkEntryStep
<1>4. Pending = DOMAIN cachedEntries /\ Pending' = DOMAIN cachedEntries
  BY <1>1, <1>3 DEF Pending
<1>5. \A j \in DOMAIN cachedEntries :
         /\ cachedEntries'[j].entry.serialNum = cachedEntries[j].entry.serialNum
         /\ cachedEntries'[j].entry.height = cachedEntries[j].entry.height
  BY <1>3 DEF Relinked
<1>. QED
  BY <1>1, <1>2, <1>4, <1>5 DEF HeightsOK

\* A step of the second loop: what it appends is a later version of what it replaces.
LEMMA SweepEntryHeights ==
    ASSUME IInv, HeightsOK, SweepEntry
    PROVE  /\ HeightsOK'
           /\ \A j \in StoredKeys \cap StoredKeys' : idxTree'[j] # idxTree[j] =>
                 /\ ReadEntry(j)'.lastHeight = ReadEntry(j).height
                 /\ ReadEntry(j).height < ReadEntry(j)'.height
<1>1. /\ phase = "sweeping" /\ phase' = "sweeping" /\ UNCHANGED <<currHeight, cachedEntries>>
  BY DEF SweepEntry
<1>2. PICK k \in todo : todo' = todo \ {k} /\ (SweptAway(k) \/ Rewritten(k) \/ PassedOver(k))
  BY SweptEntry
<1>3. TypeOK /\ ActiveIffIndexed /\ StoredOK /\ k \in AllKeys /\ currHeight \in Int
  BY <1>1, SweepFacts DEF IInv, TypeOK
<1>4. /\ \A j \in StoredKeys : ReadEntry(j).height <= currHeight
      /\ \A j \in todo \cap StoredKeys : ReadEntry(j).height < currHeight
      /\ \A j \in todo : cachedEntries[j].entry.serialNum >= 0 =>
            cachedEntries[j].entry.height = ReadEntry(j).height
  BY <1>1 DEF HeightsOK, Pending
<1>5. ASSUME \A j \in StoredKeys' : ReadEntry(j)'.height <= currHeight,
             \A j \in todo' : /\ j \in StoredKeys' => j \in StoredKeys
                              /\ cachedEntries[j].entry.serialNum >= 0 => j \in StoredKeys,
             \A j \in StoredKeys : j # k => ReadEntry(j)' = ReadEntry(j)
      PROVE  HeightsOK'
  <2>1. Pending' = todo'
    BY <1>1 DEF Pending
  <2>2. \A j \in todo' \cap StoredKeys' : ReadEntry(j)'.height < currHeight
    BY <1>2, <1>4, <1>5
  <2>3. \A j \in todo' : cachedEntries[j].entry.serialNum >= 0 =>
            cachedEntries[j].entry.height = ReadEntry(j)'.height
    BY <1>2, <1>4, <1>5
  <2>. QED
    BY <1>1, <1>5, <2>1, <2>2, <2>3 DEF HeightsOK
<1>6. \A j \in todo : cachedEntries[j].entry.serialNum >= 0 => j \in StoredKeys
  BY <1>1 DEF IInv, SweepingOK, CachedOK
<1>7. CASE SweptAway(k)
  <2>1. /\ StoredKeys' = StoredKeys \ {k}
        /\ \A j \in StoredKeys : j # k => idxTree'[j] = idxTree[j] /\ ReadEntry(j)' = ReadEntry(j)
    BY <1>3, <1>7, RemoveEntry DEF SweptAway, WithoutKey
  <2>2. HeightsOK'
    BY <1>2, <1>4, <1>5, <1>6, <2>1
  <2>. QED
    BY <2>1, <2>2
<1>8. CASE Rewritten(k)
  <2> DEFINE h == cachedEntries[k]
  <2>1. PICK e \in Entry :
              /\ e.key = k /\ e.height = currHeight /\ e.lastHeight = h.entry.height
              /\ e.serialNum = WithoutKey(k).maxSerialNum
              /\ datTree' = AppendEntry(WithoutKey(k), e)
              /\ idxTree' = IndexSet(k, WithoutKey(k).maxSerialNum)
    BY <1>8 DEF Rewritten
  <2>2. /\ StoredKeys' = StoredKeys \cup {k}
        /\ ReadEntry(k)' = e
        /\ \A j \in StoredKeys : j # k => idxTree'[j] = idxTree[j] /\ ReadEntry(j)' = ReadEntry(j)
    BY <1>3, <2>1, ReplaceEntry
  <2>3. \A j \in StoredKeys' : ReadEntry(j)'.height <= currHeight
    BY <1>3, <1>4, <2>1, <2>2
  <2>4. HeightsOK'
    BY <1>2, <1>5, <1>6, <2>2, <2>3
  <2>5. ASSUME k \in StoredKeys
        PROVE  e.lastHeight = ReadEntry(k).height /\ ReadEntry(k).height < e.height
    <3>1. h.entry.serialNum >= 0
      <4>1. IsInserted(h) => k \notin StoredKeys
        BY <1>1, <1>2, <1>3, CachedFacts, SweepFacts
      <4>. QED
        BY <1>8, <2>5, <4>1 DEF Rewritten
    <3>. QED
      BY <1>2, <1>4, <2>1, <2>5, <3>1
  <2>. QED
    BY <2>2, <2>4, <2>5
<1>9. CASE PassedOver(k)
  <2>1. UNCHANGED <<idxTree, datTree>>
    BY <1>9 DEF PassedOver
  <2>2. StoredKeys' = StoredKeys /\ \A j : ReadEntry(j)' = ReadEntry(j)
    BY <2>1, StoreFrame
  <2>3. HeightsOK'
    BY <1>2, <1>4, <1>5, <1>6, <2>2
  <2>. QED
    BY <2>1, <2>3
<1>. QED
  BY <1>2, <1>7, <1>8, <1>9

\* Compaction moves entries and changes none: the new one differs in its serial number.
LEMMA ReapedCopy ==
    ASSUME IInv, ReapEntry
    PROVE  \E k \in StoredKeys :
              /\ StoredKeys' = StoredKeys
              /\ ReadEntry(k)' = [ReadEntry(k) EXCEPT !.serialNum = idxTree'[k]]
              /\ ReadEntry(k) \in Entry /\ idxTree'[k] \in Nat
              /\ \A j \in StoredKeys : j # k => idxTree'[j] = idxTree[j] /\ ReadEntry(j)' = ReadEntry(j)
<1>1. PICK k \in StoredKeys :
        /\ datTree' = AppendEntry(WithoutKey(k),
                         [ReadEntry(k) EXCEPT !.serialNum = WithoutKey(k).maxSerialNum])
        /\ idxTree' = IndexSet(k, WithoutKey(k).maxSerialNum)
  BY ReapedEntry
<1>2. TypeOK /\ ActiveIffIndexed /\ StoredOK
  BY DEF IInv
<1> DEFINE m == WithoutKey(k).maxSerialNum
           e == [ReadEntry(k) EXCEPT !.serialNum = m]
<1>3. m \in Nat /\ idxTree'[k] = m
  BY <1>1, <1>2, WithoutKeyProp DEF IndexSet
<1>4. ReadEntry(k) \in Entry /\ ReadEntry(k).key = k /\ k \in AllKeys
  BY <1>2, StoredEntry
<1>5. e \in Entry /\ e.key = k /\ e.serialNum = m
  <2>. HIDE DEF m
  <2>. QED
    BY <1>3, <1>4 DEF Entry
<1>6. datTree' = AppendEntry(WithoutKey(k), e) /\ e.serialNum = WithoutKey(k).maxSerialNum
  BY <1>1, <1>5
<1>. HIDE DEF e
<1>7. /\ StoredKeys' = StoredKeys \cup {k}
      /\ ReadEntry(k)' = e
      /\ \A j \in StoredKeys : j # k => idxTree'[j] = idxTree[j] /\ ReadEntry(j)' = ReadEntry(j)
  BY <1>1, <1>2, <1>4, <1>5, <1>6, ReplaceEntry
<1>. QED
  BY <1>3, <1>4, <1>7 DEF e

LEMMA NextHeights ==
    ASSUME IInv, HeightsOK, [Next]_vars
    PROVE  HeightsOK'
<1>0. currHeight \in Int
  BY DEF IInv, TypeOK
<1>1. CASE Prepare
  <2>1. UNCHANGED <<phase, currHeight, idxTree, datTree, cachedEntries, todo>>
    BY <1>1 DEF Prepare, PrepareForUpdate, PrepareForDeletion, StoreHotEntry,
       StoreNextKey, storeVars
  <2>. QED
    BY <1>0, <2>1, HeightsFrame
<1>2. CASE Mark
  <2>1. /\ UNCHANGED <<idxTree, datTree, cachedEntries, todo>> /\ phase' = "marking"
        /\ \/ phase = "marking" /\ currHeight' = currHeight
           \/ currHeight' = currHeight + 1
    BY <1>2 DEF Mark, BeginWrite, Set, Delete, storeVars
  <2>. QED
    BY <1>0, <2>1, HeightsFrame
<1>3. CASE EndLinking
  <2>1. /\ phase = "linking" /\ phase' = "sweeping" /\ todo' = DOMAIN cachedEntries
        /\ UNCHANGED <<currHeight, idxTree, datTree, cachedEntries>>
    BY <1>3 DEF EndLinking, storeVars
  <2>2. StoredKeys' = StoredKeys /\ \A k : ReadEntry(k)' = ReadEntry(k)
    BY <2>1, StoreFrame
  <2>. QED
    BY <2>1, <2>2 DEF HeightsOK, Pending
<1>4. CASE EndSweeping \/ StartReaping \/ EvictTwig
  BY <1>0, <1>4, HeightsFrame DEF EndSweeping, StartReaping, EvictTwig, storeVars
<1>5. CASE ReapEntry
  <2>1. phase = "reaping" /\ phase' = "reaping" /\ currHeight' = currHeight
    BY <1>5 DEF ReapEntry
  <2>2. PICK k \in StoredKeys :
              /\ StoredKeys' = StoredKeys
              /\ ReadEntry(k)' = [ReadEntry(k) EXCEPT !.serialNum = idxTree'[k]]
              /\ ReadEntry(k) \in Entry
              /\ \A j \in StoredKeys : j # k => ReadEntry(j)' = ReadEntry(j)
    BY <1>5, ReapedCopy
  <2>3. ReadEntry(k)'.height = ReadEntry(k).height
    BY <2>2 DEF Entry
  <2>4. \A j \in StoredKeys' : ReadEntry(j)'.height <= currHeight
    BY <2>2, <2>3 DEF HeightsOK
  <2>. QED
    BY <2>1, <2>4 DEF HeightsOK
<1>6. CASE EndBlock
  <2>1. /\ phase' = "filling" /\ UNCHANGED <<currHeight, idxTree, datTree>>
    BY <1>6 DEF EndBlock, storeVars
  <2>2. StoredKeys' = StoredKeys /\ \A k : ReadEntry(k)' = ReadEntry(k)
    BY <2>1, StoreFrame
  <2>. QED
    BY <2>1, <2>2 DEF HeightsOK
<1>7. CASE UNCHANGED vars
  <2>1. UNCHANGED <<phase, currHeight, idxTree, datTree, cachedEntries, todo>>
    BY <1>7 DEF vars
  <2>. QED
    BY <1>0, <2>1, HeightsFrame
<1>. QED
  BY <1>1, <1>2, <1>3, <1>4, <1>5, <1>6, <1>7, GatherHeights, LinkEntryHeights,
     SweepEntryHeights DEF Next, EndWrite


-----------------------------------------------------------------------------
(* The invariant, and what it says of single steps *)

\* The index and the data tree change together: in the second loop and in compaction.
LEMMA OnlySweepAndReapWrite ==
    ASSUME [Next]_vars, ~SweepEntry, ~ReapEntry
    PROVE  UNCHANGED <<idxTree, datTree>>
<1>1. CASE Prepare \/ Mark \/ UNCHANGED vars
  BY <1>1 DEF Prepare, Mark, PrepareForUpdate, PrepareForDeletion, StoreHotEntry,
     StoreNextKey, BeginWrite, Set, Delete, vars, storeVars
<1>2. CASE EndWrite
  BY <1>2 DEF EndWrite, Gather, LinkEntry, EndLinking, EndSweeping, StartReaping, EvictTwig,
     EndBlock, storeVars
<1>. QED
  BY <1>1, <1>2 DEF Next

\* The inductive invariant with what it says of twigs and heights: eviction finds the
\* oldest twig full and empty of live entries, and a block rewrites older entries only.
THEOREM FullInvariance == OneOpPerKey => (Spec => []FullInv)
<1>. SUFFICES ASSUME OneOpPerKey PROVE Spec => []FullInv
  OBVIOUS
<1>1. Init => FullInv
  BY InitIInv, InitTwigs, InitHeights DEF FullInv
<1>2. FullInv /\ [Next]_vars => FullInv'
  BY NextIInv, NextTwigs, NextHeights DEF FullInv
<1>. QED
  BY <1>1, <1>2, PTL DEF Spec

\* Eviction loses nothing: no live entry is in a twig before the oldest active one, so the
\* entries EvictTwig and the pruning of old twigs drop are dead.
THEOREM EvictedTwigsAreDead == OneOpPerKey => (Spec => []NoActiveInEvictedTwig)
<1>1. FullInv => NoActiveInEvictedTwig
  BY DEF FullInv, TwigsOK
<1>. QED
  BY <1>1, FullInvariance, PTL

\* The list of serial numbers an entry carries is at most one longer than
\* DeactivedSNListMaxLen, whatever the blocks delete: EntryToBytes has one byte for it.
THEOREM SNListsFit == OneOpPerKey => (Spec => []SNListFits)
BY LogIsComplete, PTL

\* No version is skipped: what takes the place of a stored entry is a copy of it made by
\* compaction, or a later version whose LastHeight is the height of the one it replaces.
THEOREM VersionsAreChained == OneOpPerKey => (Spec => VersionStep)
<1>. SUFFICES ASSUME OneOpPerKey PROVE Spec => VersionStep
  OBVIOUS
<1> DEFINE Chained ==
      \A k \in DOMAIN idxTree \cap DOMAIN idxTree' :
          LET old == ReadEntry(k)
              new == datTree'.entryFile[idxTree'[k]].entry
          IN  idxTree'[k] # idxTree[k] =>
                 \/ new = [old EXCEPT !.serialNum = idxTree'[k]]
                 \/ new.lastHeight = old.height /\ old.height < new.height
<1>1. FullInv /\ [Next]_vars => [Chained]_vars
  <2>. SUFFICES ASSUME FullInv, [Next]_vars PROVE Chained
    OBVIOUS
  <2>1. IInv /\ HeightsOK
    BY DEF FullInv
  <2>2. CASE SweepEntry
    BY <2>1, <2>2, SweepEntryHeights DEF StoredKeys, ReadEntry
  <2>3. CASE ReapEntry
    BY <2>1, <2>3, ReapedCopy DEF StoredKeys, ReadEntry
  <2>4. CASE ~SweepEntry /\ ~ReapEntry
    BY <2>4, OnlySweepAndReapWrite
  <2>. QED
    BY <2>2, <2>3, <2>4
<1>. QED
  BY <1>1, FullInvariance, PTL DEF Spec, VersionStep


-----------------------------------------------------------------------------
(* Refinement: the block-atomic map *)

\* The stored pairs a step may show: the outcome of a request that is not yet written, or
\* what the index and the entry file hold.
StoredValue(k) == IF k \in StoredKeys THEN ReadEntry(k).value ELSE NoValue

LEMMA AbstractStoreIs ==
    AbstractStore = [k \in Keys |->
        IF Unwritten(k) THEN Outcome(cachedEntries[k]) ELSE StoredValue(k)]
BY DEF AbstractStore, StoredValue, StoredKeys

\* To show that a step leaves the abstract map alone, compare its values key by key.
LEMMA AbstractStoreSame ==
    ASSUME \A k \in Keys :
              (IF Unwritten(k) THEN Outcome(cachedEntries[k]) ELSE StoredValue(k))'
                 = IF Unwritten(k) THEN Outcome(cachedEntries[k]) ELSE StoredValue(k)
    PROVE  AbstractStore' = AbstractStore
BY DEF AbstractStore, StoredValue, StoredKeys

\* Outside the loops of update() the map is what is stored.
LEMMA NothingUnwritten ==
    ASSUME phase \notin {"linking", "sweeping"} \/ (phase = "sweeping" /\ todo = {})
    PROVE  \A k : ~Unwritten(k)
BY DEF Unwritten

LEMMA InitRefines ==
    ASSUME Init
    PROVE  Abstract!SpecInit
<1>1. phase = "filling" /\ StoredKeys = {StartKey, EndKey} /\ batch = [k \in Keys |-> NoOp]
  BY DEF Init, StoredKeys
<1>2. \A k \in Keys : ~Unwritten(k) /\ StoredValue(k) = NoValue
  BY <1>1, KeyAssumption DEF Unwritten, StoredValue
<1>3. AbstractStore = [k \in Keys |-> NoValue]
  BY <1>2, AbstractStoreIs
<1>. QED
  BY <1>1, <1>3 DEF Abstract!SpecInit

\* A step outside the two loops that writes nothing leaves the map alone.
LEMMA IdleStep ==
    ASSUME UNCHANGED <<idxTree, datTree>>,
           phase \notin {"linking", "sweeping"} \/ (phase = "sweeping" /\ todo = {}),
           phase' \notin {"linking", "sweeping"} \/ (phase' = "sweeping" /\ todo' = {})
    PROVE  AbstractStore' = AbstractStore
<1>1. StoredKeys' = StoredKeys /\ \A k : ReadEntry(k)' = ReadEntry(k)
  BY StoreFrame
<1>2. \A k \in Keys : StoredValue(k)' = StoredValue(k)
  BY <1>1 DEF StoredValue
<1>3. \A k : ~Unwritten(k)
  BY NothingUnwritten
<1>4. \A k : ~Unwritten(k)'
  BY DEF Unwritten
<1>. QED
  BY <1>2, <1>3, <1>4, AbstractStoreSame

\* Gather, where EndWrite takes over the requests, is the commit of the abstract map: every
\* hot entry carries the last request for its key, and a request that left no hot entry
\* deletes what is not there.
LEMMA GatherRefines ==
    ASSUME IInv, Gather
    PROVE  Abstract!SpecCommitBlock
<1> DEFINE C == DOMAIN k2heMap \cup k2nkMap
<1>1. /\ phase = "marking" /\ phase' = "linking"
      /\ cachedEntries' = [k \in C |-> IF k \in DOMAIN k2heMap THEN k2heMap[k] ELSE MakeHintHotEntry(k)]
      /\ UNCHANGED <<idxTree, datTree>>
      /\ batch' = [k \in Keys |-> NoOp]
  BY DEF Gather, storeVars
<1>2. StoredKeys' = StoredKeys /\ \A k : ReadEntry(k)' = ReadEntry(k)
  BY <1>1, StoreFrame
<1>3. \A k : StoredValue(k)' = StoredValue(k)
  BY <1>2 DEF StoredValue
<1>4. \A k \in Keys : ~Unwritten(k) /\ AbstractStore[k] = StoredValue(k)
  BY <1>1, AbstractStoreIs DEF Unwritten
<1>5. \A k : Unwritten(k)' <=> k \in C /\ cachedEntries'[k].op # OpNone
  BY <1>1 DEF Unwritten
<1>6. ASSUME NEW k \in Keys
      PROVE  (IF Unwritten(k)' THEN Outcome(cachedEntries'[k]) ELSE StoredValue(k))
                = IF batch[k] = NoOp THEN AbstractStore[k] ELSE batch[k]
  <2>0. k \in AllKeys
    BY DEF AllKeys
  <2>1. CASE k \in DOMAIN k2heMap
    <3> DEFINE h == k2heMap[k]
    <3>1. cachedEntries'[k] = h /\ HotEntryOK(k, h)
      BY <1>1, <2>1 DEF IInv, FillingOK
    <3>2. /\ h.op = OpInsertOrChange => h.entry.value = batch[k] /\ h.entry.value \in Values
          /\ h.op = OpDelete => batch[k] = NoValue
          /\ h.op = OpNone => batch[k] = NoOp
          /\ h.op \in {OpNone, OpInsertOrChange, OpDelete}
      BY <2>0, <3>1, HotFacts DEF HotEntry
    <3>. HIDE DEF h
    <3>3. Unwritten(k)' <=> h.op # OpNone
      BY <1>5, <2>1, <3>1
    <3>4. CASE h.op = OpInsertOrChange
      BY <3>1, <3>2, <3>3, <3>4, ValueAssumption DEF Outcome, OpNone, OpInsertOrChange, OpDelete
    <3>5. CASE h.op = OpDelete
      BY <3>1, <3>2, <3>3, <3>5, ValueAssumption DEF Outcome, OpNone, OpDelete
    <3>6. CASE h.op = OpNone
      BY <1>4, <3>2, <3>3, <3>6
    <3>. QED
      BY <3>2, <3>4, <3>5, <3>6
  <2>2. CASE k \notin DOMAIN k2heMap
    <3>1. ~Unwritten(k)'
      <4>1. k \in C => cachedEntries'[k].op = OpNone
        BY <1>1, <2>2 DEF MakeHintHotEntry, MakeHot
      <4>. QED
        BY <1>5, <4>1
    <3>2. batch[k] # NoOp => batch[k] = NoValue /\ k \notin StoredKeys
      BY <1>1, <2>2 DEF IInv, FillingOK
    <3>. QED
      BY <1>4, <3>1, <3>2 DEF StoredValue
  <2>. QED
    BY <2>1, <2>2
<1>7. AbstractStore' = [k \in Keys |-> IF Unwritten(k)' THEN Outcome(cachedEntries'[k]) ELSE StoredValue(k)]
  <2>1. AbstractStore' = [k \in Keys |->
          IF Unwritten(k)' THEN Outcome(cachedEntries'[k])
          ELSE IF k \in StoredKeys' THEN ReadEntry(k)'.value ELSE NoValue]
    BY DEF AbstractStore, StoredKeys, Outcome
  <2>. QED
    BY <1>2, <2>1 DEF StoredValue
<1>8. AbstractStore' = [k \in Keys |-> IF batch[k] = NoOp THEN AbstractStore[k] ELSE batch[k]]
  BY <1>6, <1>7
<1>. QED
  BY <1>1, <1>8 DEF Abstract!SpecCommitBlock

\* The first loop touches neither the requests nor what is stored.
LEMMA LinkEntryRefines ==
    ASSUME IInv, LinkEntry
    PROVE  AbstractStore' = AbstractStore
<1>1. phase = "linking" /\ phase' = "linking" /\ UNCHANGED <<idxTree, datTree>>
  BY DEF LinkEntry, storeVars
<1>2. StoredKeys' = StoredKeys /\ \A k : ReadEntry(k)' = ReadEntry(k)
  BY <1>1, StoreFrame
<1>3. /\ DOMAIN cachedEntries' = DOMAIN cachedEntries
      /\ \A j \in DOMAIN cachedEntries :
            Relinked(j, cachedEntries'[j], cachedEntries[j], FinalKeys)
  BY LinkEntryStep
<1>4. \A j \in DOMAIN cachedEntries :
         /\ cachedEntries'[j].op = cachedEntries[j].op
         /\ cachedEntries'[j].entry.value = cachedEntries[j].entry.value
  BY <1>3 DEF Relinked
<1>5. ASSUME NEW k \in Keys
      PROVE  /\ Unwritten(k)' <=> Unwritten(k)
             /\ Unwritten(k) => Outcome(cachedEntries[k])' = Outcome(cachedEntries[k])
             /\ StoredValue(k)' = StoredValue(k)
  BY <1>1, <1>2, <1>3, <1>4 DEF Unwritten, Outcome, StoredValue
<1>. QED
  BY <1>5, AbstractStoreSame

\* Between the loops: what was unwritten still is.
LEMMA EndLinkingRefines ==
    ASSUME IInv, EndLinking
    PROVE  AbstractStore' = AbstractStore
<1>1. /\ phase = "linking" /\ phase' = "sweeping" /\ todo' = DOMAIN cachedEntries
      /\ UNCHANGED <<idxTree, datTree, cachedEntries>>
  BY DEF EndLinking, storeVars
<1>2. StoredKeys' = StoredKeys /\ \A k : ReadEntry(k)' = ReadEntry(k)
  BY <1>1, StoreFrame
<1>3. ASSUME NEW k \in Keys
      PROVE  /\ Unwritten(k)' <=> Unwritten(k)
             /\ Outcome(cachedEntries[k])' = Outcome(cachedEntries[k])
             /\ StoredValue(k)' = StoredValue(k)
  BY <1>1, <1>2 DEF Unwritten, Outcome, StoredValue
<1>. QED
  BY <1>3, AbstractStoreSame

\* A step of the second loop writes the outcome of the request for its key, and nothing
\* else: afterwards the stored pair is what the abstract map already said.
LEMMA SweepEntryRefines ==
    ASSUME IInv, SweepEntry
    PROVE  AbstractStore' = AbstractStore
<1>1. /\ phase = "sweeping" /\ phase' = "sweeping" /\ cachedEntries' = cachedEntries
  BY DEF SweepEntry
<1>2. PICK k \in todo : todo' = todo \ {k} /\ (SweptAway(k) \/ Rewritten(k) \/ PassedOver(k))
  BY SweptEntry
<1>3. TypeOK /\ ActiveIffIndexed /\ StoredOK /\ k \in AllKeys /\ CachedOK(todo)
  BY <1>1, SweepFacts DEF IInv
<1> DEFINE h == cachedEntries[k]
<1>4. ASSUME NEW j \in Keys, j # k PROVE Unwritten(j)' <=> Unwritten(j)
  BY <1>1, <1>2, <1>4 DEF Unwritten
<1>5. ~Unwritten(k)' /\ (Unwritten(k) <=> h.op # OpNone)
  BY <1>1, <1>2 DEF Unwritten
<1>6. ASSUME \A j \in StoredKeys : j # k => ReadEntry(j)' = ReadEntry(j),
             \A j : j # k => (j \in StoredKeys' <=> j \in StoredKeys),
             k \in Keys => StoredValue(k)' = IF h.op # OpNone THEN Outcome(h) ELSE StoredValue(k)
      PROVE  AbstractStore' = AbstractStore
  <2>1. \A j \in Keys : j # k => StoredValue(j)' = StoredValue(j)
    BY <1>6 DEF StoredValue
  <2>2. \A j : Outcome(cachedEntries[j])' = Outcome(cachedEntries[j])
    BY <1>1 DEF Outcome
  <2>3. ASSUME NEW j \in Keys
        PROVE  (IF Unwritten(j) THEN Outcome(cachedEntries[j]) ELSE StoredValue(j))'
                 = IF Unwritten(j) THEN Outcome(cachedEntries[j]) ELSE StoredValue(j)
    <3>1. CASE j = k
      BY <1>5, <1>6, <3>1
    <3>2. CASE j # k
      BY <1>4, <2>1, <2>2, <3>2
    <3>. QED
      BY <3>1, <3>2
  <2>. QED
    BY <2>3, AbstractStoreSame
<1>7. CASE SweptAway(k)
  <2>1. /\ StoredKeys' = StoredKeys \ {k}
        /\ \A j \in StoredKeys : j # k => ReadEntry(j)' = ReadEntry(j)
    BY <1>3, <1>7, RemoveEntry DEF SweptAway, WithoutKey
  <2>2. h.op = OpDelete
    BY <1>7 DEF SweptAway, IsRemoval
  <2>3. StoredValue(k)' = Outcome(h) /\ h.op # OpNone
    BY <2>1, <2>2 DEF StoredValue, Outcome, OpDelete, OpNone
  <2>. QED
    BY <1>6, <2>1, <2>3
<1>8. CASE Rewritten(k)
  <2>1. PICK e \in Entry :
              /\ e.key = k /\ e.value = h.entry.value
              /\ e.serialNum = WithoutKey(k).maxSerialNum
              /\ datTree' = AppendEntry(WithoutKey(k), e)
              /\ idxTree' = IndexSet(k, WithoutKey(k).maxSerialNum)
    BY <1>8 DEF Rewritten
  <2>2. /\ StoredKeys' = StoredKeys \cup {k}
        /\ ReadEntry(k)' = e
        /\ \A j \in StoredKeys : j # k => ReadEntry(j)' = ReadEntry(j)
    BY <1>3, <2>1, ReplaceEntry
  <2>3. StoredValue(k)' = h.entry.value
    BY <2>1, <2>2 DEF StoredValue
  <2>4. /\ h.op # OpDelete
        /\ h.op = OpNone => h.entry.serialNum >= 0
    BY <1>8 DEF Rewritten, IsInserted, OpInsertOrChange, OpDelete, OpNone
  <2>5. h.op = OpNone => k \in StoredKeys /\ h.entry.value = ReadEntry(k).value
    BY <1>2, <1>3, <2>4 DEF CachedOK
  <2>6. StoredValue(k)' = IF h.op # OpNone THEN Outcome(h) ELSE StoredValue(k)
    BY <2>3, <2>4, <2>5 DEF Outcome, StoredValue
  <2>. QED
    BY <1>6, <2>2, <2>6
<1>9. CASE PassedOver(k)
  <2>1. UNCHANGED <<idxTree, datTree>> /\ ~h.isModified
    BY <1>9 DEF PassedOver
  <2>2. StoredKeys' = StoredKeys /\ \A j : ReadEntry(j)' = ReadEntry(j)
    BY <2>1, StoreFrame
  <2>3. StoredValue(k)' = StoredValue(k)
    BY <2>2 DEF StoredValue
  <2>4. h.op = OpNone \/ IsFakeInserted(h)
    BY <1>1, <1>2, <2>1 DEF IInv, SweepingOK
  <2>5. ASSUME IsFakeInserted(h) PROVE h.entry.value = NoValue /\ k \notin StoredKeys
    <3>1. h.entry.value = NoValue /\ h.entry.serialNum = InsertedSN
      BY <2>5 DEF IsFakeInserted
    <3>2. h.entry.serialNum < 0 /\ ~IsHintHotEntry(h)
      BY <3>1 DEF IsHintHotEntry, InsertedSN, HintSN
    <3>3. k \notin StoredKeys
      BY <1>2, <1>3, <3>2, CachedFacts, SweepFacts, <1>1
    <3>. QED
      BY <3>1, <3>3
  <2>6. StoredValue(k)' = IF h.op # OpNone THEN Outcome(h) ELSE StoredValue(k)
    BY <2>3, <2>4, <2>5 DEF Outcome, StoredValue
  <2>. QED
    BY <1>6, <2>2, <2>6
<1>. QED
  BY <1>2, <1>7, <1>8, <1>9

\* Compaction copies entries and keeps every value.
LEMMA ReapEntryRefines ==
    ASSUME IInv, ReapEntry
    PROVE  AbstractStore' = AbstractStore
<1>1. phase = "reaping" /\ phase' = "reaping"
  BY DEF ReapEntry
<1>2. PICK k \in StoredKeys :
              /\ StoredKeys' = StoredKeys
              /\ ReadEntry(k)' = [ReadEntry(k) EXCEPT !.serialNum = idxTree'[k]]
              /\ ReadEntry(k) \in Entry
              /\ \A j \in StoredKeys : j # k => ReadEntry(j)' = ReadEntry(j)
  BY ReapedCopy
<1>3. ReadEntry(k)'.value = ReadEntry(k).value
  BY <1>2 DEF Entry
<1>4. \A j \in Keys : StoredValue(j)' = StoredValue(j)
  BY <1>2, <1>3 DEF StoredValue
<1>5. \A j \in Keys : ~Unwritten(j) /\ ~Unwritten(j)'
  BY <1>1 DEF Unwritten
<1>. QED
  BY <1>4, <1>5, AbstractStoreSame

LEMMA NextRefines ==
    ASSUME IInv, [Next]_vars
    PROVE  [Abstract!SpecNext]_(Abstract!specVars)
<1>1. CASE Prepare
  <2>1. UNCHANGED <<phase, idxTree, datTree, cachedEntries, todo, batch>>
    BY <1>1 DEF Prepare, PrepareForUpdate, PrepareForDeletion, StoreHotEntry, StoreNextKey, storeVars
  <2>2. AbstractStore' = AbstractStore
    BY <2>1 DEF AbstractStore, Unwritten, Outcome, ReadEntry
  <2>. QED
    BY <2>1, <2>2 DEF Abstract!specVars
<1>2. CASE BeginWrite
  <2>1. phase = "filling" /\ phase' = "marking" /\ UNCHANGED <<idxTree, datTree, batch>>
    BY <1>2 DEF BeginWrite
  <2>2. AbstractStore' = AbstractStore
    BY <2>1, IdleStep
  <2>. QED
    BY <2>1, <2>2 DEF Abstract!specVars
<1>3. ASSUME NEW k \in Keys, NEW v \in Values, Set(k, v) PROVE Abstract!SpecSet(k, v)
  <2>1. phase = "marking" /\ phase' = "marking" /\ UNCHANGED <<idxTree, datTree>>
        /\ batch' = [batch EXCEPT ![k] = v]
    BY <1>3 DEF Set, storeVars
  <2>2. AbstractStore' = AbstractStore
    BY <2>1, IdleStep
  <2>. QED
    BY <2>1, <2>2 DEF Abstract!SpecSet
<1>4. ASSUME NEW k \in Keys, Delete(k) PROVE Abstract!SpecDelete(k)
  <2>1. phase = "marking" /\ phase' = "marking" /\ UNCHANGED <<idxTree, datTree>>
        /\ batch' = [batch EXCEPT ![k] = NoValue]
    BY <1>4 DEF Delete, storeVars
  <2>2. AbstractStore' = AbstractStore
    BY <2>1, IdleStep
  <2>. QED
    BY <2>1, <2>2 DEF Abstract!SpecDelete
<1>5. CASE LinkEntry \/ EndLinking \/ SweepEntry \/ ReapEntry
  <2>1. batch' = batch
    BY <1>5 DEF LinkEntry, EndLinking, SweepEntry, ReapEntry
  <2>2. AbstractStore' = AbstractStore
    BY <1>5, LinkEntryRefines, EndLinkingRefines, SweepEntryRefines, ReapEntryRefines
  <2>. QED
    BY <2>1, <2>2 DEF Abstract!specVars
<1>6. CASE EndSweeping \/ StartReaping \/ EvictTwig \/ EndBlock
  <2>1. /\ UNCHANGED <<idxTree, datTree, batch>>
        /\ phase \notin {"linking", "sweeping"} \/ (phase = "sweeping" /\ todo = {})
        /\ phase' \notin {"linking", "sweeping"}
    BY <1>6 DEF EndSweeping, StartReaping, EvictTwig, EndBlock, storeVars
  <2>2. AbstractStore' = AbstractStore
    BY <2>1, IdleStep
  <2>. QED
    BY <2>1, <2>2 DEF Abstract!specVars
<1>7. CASE UNCHANGED vars
  <2>1. UNCHANGED <<phase, idxTree, datTree, cachedEntries, todo, batch>>
    BY <1>7 DEF vars
  <2>2. AbstractStore' = AbstractStore
    BY <2>1 DEF AbstractStore, Unwritten, Outcome, ReadEntry
  <2>. QED
    BY <2>1, <2>2 DEF Abstract!specVars
<1>8. CASE Gather
  BY <1>8, GatherRefines DEF Abstract!SpecNext
<1>9. CASE Mark
  BY <1>2, <1>3, <1>4, <1>9 DEF Mark, Abstract!SpecNext
<1>. QED
  BY <1>1, <1>5, <1>6, <1>7, <1>8, <1>9 DEF Next, EndWrite

\* OnvaKV implements the block-atomic map: whatever the goroutines prepare and however the
\* loops, the dummies and compaction interleave with them, the stored pairs change once per
\* block, by exactly the requests made in it.
THEOREM RefinesKVBlockSpec == OneOpPerKey => (Spec => ImplementsKVBlockSpec)
<1>. SUFFICES ASSUME OneOpPerKey PROVE Spec => ImplementsKVBlockSpec
  OBVIOUS
<1>1. Init => Abstract!SpecInit
  BY InitRefines
<1>2. IInv /\ [Next]_vars => [Abstract!SpecNext]_(Abstract!specVars)
  BY NextRefines
<1>. QED
  BY <1>1, <1>2, Invariance, PTL DEF Spec, ImplementsKVBlockSpec, Abstract!SpecKV


=============================================================================
