--------------------------- MODULE OnvaKV_proofs ---------------------------
EXTENDS OnvaKVInv, TLAPS, WellFoundedInduction

-----------------------------------------------------------------------------
(* Order *)

\* A non-empty set of keys has a least member, and Least picks it.
LEMMA LeastProp ==
    ASSUME NEW S \in SUBSET AllKeys, S # {}
    PROVE  Least(S) \in S /\ \A i \in S : Least(S) <= i
<1>1. \E m \in S : \A i \in S : m <= i
  BY KeyOrderAssumption
<1>. QED
  BY <1>1 DEF Least

\* A non-empty set of keys has a greatest member, and Greatest picks it.
LEMMA GreatestProp ==
    ASSUME NEW S \in SUBSET AllKeys, S # {}
    PROVE  Greatest(S) \in S /\ \A i \in S : i <= Greatest(S)
<1>1. \E m \in S : \A i \in S : i <= m
  BY KeyOrderAssumption
<1>. QED
  BY <1>1 DEF Greatest

LEMMA KeysAreInts == AllKeys \subseteq Int
  BY KeyAssumption DEF AllKeys

\* The successor of k in S: in S, above k, with nothing of S between.
LEMMA SuccProp ==
    ASSUME NEW S \in SUBSET AllKeys, NEW k \in AllKeys, Above(S, k) # {}
    PROVE  /\ SuccOf(S, k) \in S
           /\ k < SuccOf(S, k)
           /\ \A i \in S : k < i => SuccOf(S, k) <= i
<1>1. Above(S, k) \in SUBSET AllKeys
  BY DEF Above
<1>. QED
  BY <1>1, LeastProp DEF SuccOf, Above

LEMMA PredProp ==
    ASSUME NEW S \in SUBSET AllKeys, NEW k \in AllKeys, Below(S, k) # {}
    PROVE  /\ PredOf(S, k) \in S
           /\ PredOf(S, k) < k
           /\ \A i \in S : i < k => i <= PredOf(S, k)
<1>1. Below(S, k) \in SUBSET AllKeys
  BY DEF Below
<1>. QED
  BY <1>1, GreatestProp DEF PredOf, Below

\* These properties determine the successor and the predecessor.
LEMMA SuccUnique ==
    ASSUME NEW S \in SUBSET AllKeys, NEW k \in AllKeys, NEW m \in S,
           k < m, \A i \in S : k < i => m <= i
    PROVE  Above(S, k) # {} /\ SuccOf(S, k) = m
<1>1. Above(S, k) # {}
  BY DEF Above
<1>2. /\ SuccOf(S, k) \in S
      /\ k < SuccOf(S, k)
      /\ \A i \in S : k < i => SuccOf(S, k) <= i
  BY <1>1, SuccProp
<1>3. m \in Int /\ SuccOf(S, k) \in Int
  BY <1>2, KeysAreInts
<1>4. SuccOf(S, k) <= m /\ m <= SuccOf(S, k)
  BY <1>2
<1>. QED
  BY <1>1, <1>3, <1>4

LEMMA PredUnique ==
    ASSUME NEW S \in SUBSET AllKeys, NEW k \in AllKeys, NEW m \in S,
           m < k, \A i \in S : i < k => i <= m
    PROVE  Below(S, k) # {} /\ PredOf(S, k) = m
<1>1. Below(S, k) # {}
  BY DEF Below
<1>2. /\ PredOf(S, k) \in S
      /\ PredOf(S, k) < k
      /\ \A i \in S : i < k => i <= PredOf(S, k)
  BY <1>1, PredProp
<1>3. m \in Int /\ PredOf(S, k) \in Int
  BY <1>2, KeysAreInts
<1>4. PredOf(S, k) <= m /\ m <= PredOf(S, k)
  BY <1>2
<1>. QED
  BY <1>1, <1>3, <1>4

\* A non-empty set of serial numbers has a least member.
LEMMA LeastSN ==
    ASSUME NEW S \in SUBSET Nat, S # {}
    PROVE  Least(S) \in S /\ \A i \in S : Least(S) <= i
<1> DEFINE R == OpToRel(<, Nat)
<1>0. IsWellFoundedOn(R, Nat)
  BY NatLessThanWellFounded
<1>. HIDE DEF R
<1>1. PICK x \in S : \A y \in S : ~ (<<y, x>> \in R)
  BY <1>0, WFMin
<1>2. \A y \in S : ~ (y < x)
  BY <1>1, Zenon DEF OpToRel, R
<1>3. \A y \in S : x <= y
  BY <1>2
<1>. QED
  BY <1>3 DEF Least

-----------------------------------------------------------------------------
(* The data tree *)

\* Appending the next entry keeps the file and extends it by one active entry.
LEMMA AppendEntryProp ==
    ASSUME NEW d, IsDataTree(d), NEW e \in Entry, e.serialNum = d.maxSerialNum
    PROVE  LET d2 == AppendEntry(d, e)
           IN  /\ IsDataTree(d2)
               /\ d2.maxSerialNum = d.maxSerialNum + 1
               /\ d2.activeBits = d.activeBits \cup {d.maxSerialNum}
               /\ d2.entryFile[d.maxSerialNum].entry = e
               /\ \A sn \in 0..(d.maxSerialNum - 1) : d2.entryFile[sn] = d.entryFile[sn]
<1> DEFINE m == d.maxSerialNum
           d2 == AppendEntry(d, e)
           rec == [entry |-> e, snList |-> d.deactivedSNList]
<1>1. /\ m \in Nat /\ d.entryFile \in [0..(m - 1) -> LogRecord]
      /\ d.activeBits \in SUBSET (0..(m - 1)) /\ d.deactivedSNList \in Seq(0..(m-1))
  BY DEF IsDataTree
<1>2. d2 = [entryFile |-> [sn \in 0..m |-> IF sn = m THEN rec ELSE d.entryFile[sn]],
            activeBits |-> d.activeBits \cup {m},
            deactivedSNList |-> <<>>, maxSerialNum |-> m + 1]
  <2>1. DOMAIN d.entryFile \cup {e.serialNum} = 0..m
    BY <1>1
  <2>. QED
    BY <2>1 DEF AppendEntry
<1>3. rec \in LogRecord
  <2>1. d.deactivedSNList \in Seq(Nat)
    BY <1>1
  <2>. QED BY <2>1 DEF LogRecord
<1>4. IsDataTree(d2)
  <2>1. (m + 1) - 1 = m /\ m + 1 \in Nat
    <3>1. m \in Nat
      BY <1>1, Zenon
    <3>. QED
      BY ONLY <3>1
  <2>2. [sn \in 0..m |-> IF sn = m THEN rec ELSE d.entryFile[sn]] \in [0..m -> LogRecord]
    BY <1>1, <1>3
  <2>3. d.activeBits \cup {m} \in SUBSET (0..m)
    BY <1>1
  <2>4. <<>> \in Seq(0..m)
    OBVIOUS
  <2>. QED
    BY <1>2, <2>1, <2>2, <2>3, <2>4 DEF IsDataTree
<1>. HIDE DEF rec
<1>. QED
  BY <1>1, <1>2, <1>4 DEF rec

\* DeactiviateEntry clears one active bit and rewrites no entry, dummy or not.
LEMMA ClearBitProp ==
    ASSUME NEW d, IsDataTree(d), NEW sn \in 0..(d.maxSerialNum - 1)
    PROVE  LET d2 == ClearBit(d, sn)
           IN  /\ IsDataTree(d2)
               /\ d2.maxSerialNum = d.maxSerialNum
               /\ d2.activeBits = d.activeBits \ {sn}
               /\ d2.entryFile = d.entryFile
<1>1. ClearBit(d, sn) = [entryFile |-> d.entryFile, activeBits |-> d.activeBits \ {sn},
         deactivedSNList |-> Append(d.deactivedSNList, sn), maxSerialNum |-> d.maxSerialNum]
  BY DEF ClearBit
<1>2. Append(d.deactivedSNList, sn) \in Seq(0..(d.maxSerialNum - 1))
  BY DEF IsDataTree
<1>. QED
  BY <1>1, <1>2 DEF IsDataTree


\* DeactiviateEntry clears exactly one active bit and rewrites no stored entry; the
\* serial number counter moves only if a dummy was needed.
LEMMA DeactiviateEntryProp ==
    ASSUME NEW d, IsDataTree(d), NEW sn \in 0..(d.maxSerialNum - 1)
    PROVE  LET d2 == DeactiviateEntry(d, sn)
           IN  /\ IsDataTree(d2)
               /\ d2.maxSerialNum >= d.maxSerialNum
               /\ d2.activeBits = d.activeBits \ {sn}
               /\ \A s \in 0..(d.maxSerialNum - 1) : d2.entryFile[s] = d.entryFile[s]
<1> DEFINE d1 == ClearBit(d, sn)
           m == d.maxSerialNum
           dummy == DummyEntry(m)
           d3 == AppendEntry(d1, dummy)
<1>0. m \in Nat /\ d.activeBits \subseteq 0..(m - 1)
  BY DEF IsDataTree
<1>1. /\ IsDataTree(d1) /\ d1.maxSerialNum = m
      /\ d1.activeBits = d.activeBits \ {sn} /\ d1.entryFile = d.entryFile
  BY ClearBitProp
<1>. HIDE DEF d1
<1>2. CASE Len(d1.deactivedSNList) > DeactivedSNListMaxLen
  <2>1. dummy \in Entry /\ dummy.serialNum = d1.maxSerialNum
    BY <1>0, <1>1 DEF DummyEntry, Entry
  <2>2. /\ IsDataTree(d3) /\ d3.maxSerialNum = m + 1
        /\ d3.activeBits = d1.activeBits \cup {m}
        /\ \A s \in 0..(m - 1) : d3.entryFile[s] = d1.entryFile[s]
    BY <1>1, <2>1, AppendEntryProp
  <2>. HIDE DEF d3, dummy
  <2>3. m \in 0..(d3.maxSerialNum - 1)
    BY <1>0, <2>2
  <2>4. /\ IsDataTree(ClearBit(d3, m)) /\ ClearBit(d3, m).maxSerialNum = m + 1
        /\ ClearBit(d3, m).activeBits = d3.activeBits \ {m}
        /\ ClearBit(d3, m).entryFile = d3.entryFile
    BY <2>2, <2>3, ClearBitProp
  <2>5. DeactiviateEntry(d, sn) = ClearBit(d3, m)
    BY <1>1, <1>2 DEF DeactiviateEntry, d1, d3, dummy
  <2>6. (d1.activeBits \cup {m}) \ {m} = d1.activeBits
    BY <1>0, <1>1
  <2>. QED
    BY <1>0, <1>1, <2>2, <2>4, <2>5, <2>6
<1>3. CASE ~ (Len(d1.deactivedSNList) > DeactivedSNListMaxLen)
  <2>1. DeactiviateEntry(d, sn) = d1
    BY <1>3 DEF DeactiviateEntry, d1
  <2>. QED
    BY <1>0, <1>1, <2>1
<1>. QED
  BY <1>2, <1>3

-----------------------------------------------------------------------------
(* The initial state *)

LEMMA InitialFile ==
    /\ InitialEntryFile \in [0..(LeafCountInTwig + 1) -> LogRecord]
    /\ InitialEntryFile[LeafCountInTwig].entry = GuardEntry(StartKey, LeafCountInTwig)
    /\ InitialEntryFile[LeafCountInTwig + 1].entry = GuardEntry(EndKey, LeafCountInTwig + 1)
<1>1. ASSUME NEW sn \in 0..(LeafCountInTwig + 1)
      PROVE  InitialEntryFile[sn] \in LogRecord
  <2>1. DummyEntry(sn) \in Entry
    BY DEF DummyEntry, Entry
  <2>2. GuardEntry(IF sn = LeafCountInTwig THEN StartKey ELSE EndKey, sn) \in Entry
    BY DEF GuardEntry, Entry, AllKeys
  <2>3. (IF sn \in 1..LeafCountInTwig THEN <<sn - 1>> ELSE <<>>) \in Seq(Nat)
    BY SizeAssumption
  <2>. QED
    BY <2>1, <2>2, <2>3 DEF InitialEntryFile, LogRecord
<1>2. InitialEntryFile \in [0..(LeafCountInTwig + 1) -> LogRecord]
  BY <1>1 DEF InitialEntryFile
<1>3. LeafCountInTwig \in 0..(LeafCountInTwig + 1) /\ LeafCountInTwig + 1 \in 0..(LeafCountInTwig + 1)
  BY SizeAssumption
<1>. QED
  BY <1>2, <1>3, SizeAssumption DEF InitialEntryFile

LEMMA InitIInv == Init => IInv
<1>. SUFFICES ASSUME Init PROVE IInv
  OBVIOUS
<1>0. LeafCountInTwig \in Nat \ {0} /\ StartKey \in AllKeys /\ EndKey \in AllKeys /\ StartKey # EndKey
  BY SizeAssumption, KeyAssumption DEF AllKeys
<1>1. /\ StoredKeys = {StartKey, EndKey}
      /\ idxTree[StartKey] = LeafCountInTwig /\ idxTree[EndKey] = LeafCountInTwig + 1
      /\ datTree.entryFile = InitialEntryFile
      /\ datTree.activeBits = {LeafCountInTwig, LeafCountInTwig + 1}
      /\ datTree.maxSerialNum = LeafCountInTwig + 2
      /\ datTree.deactivedSNList = <<>>
  BY <1>0 DEF Init, StoredKeys
<1>2. ReadEntry(StartKey) = GuardEntry(StartKey, LeafCountInTwig)
      /\ ReadEntry(EndKey) = GuardEntry(EndKey, LeafCountInTwig + 1)
  BY <1>1, InitialFile DEF ReadEntry
<1>3. TypeOK
  <2>1. IsDataTree(datTree)
    <3>1. (LeafCountInTwig + 2) - 1 = LeafCountInTwig + 1 /\ LeafCountInTwig + 2 \in Nat
      BY <1>0
    <3>2. {LeafCountInTwig, LeafCountInTwig + 1} \in SUBSET (0..(LeafCountInTwig + 1))
      BY <1>0
    <3>3. <<>> \in Seq(0..(LeafCountInTwig + 1))
      OBVIOUS
    <3>4. datTree = [entryFile |-> InitialEntryFile,
                  activeBits |-> {LeafCountInTwig, LeafCountInTwig + 1},
                  deactivedSNList |-> <<>>,
                  maxSerialNum |-> LeafCountInTwig + 2]
      BY DEF Init
    <3>. QED
      BY <3>1, <3>2, <3>3, <3>4, InitialFile DEF IsDataTree
  <2>2. /\ DOMAIN idxTree \subseteq AllKeys
        /\ idxTree \in [DOMAIN idxTree -> Nat]
    BY <1>0, <1>1 DEF Init, StoredKeys
  <2>3. task \in [Workers -> TaskType]
    BY DEF Init, TaskType, Idle
  <2>4. /\ k2heMap = [k \in {} |-> 0] /\ cachedEntries = [k \in {} |-> 0]
    BY DEF Init
  <2>5. /\ phase \in {"filling", "marking", "linking", "sweeping", "compacting", "reaping"}
        /\ currHeight \in Int /\ oldestActiveTwigID \in Nat
        /\ k2nkMap \subseteq AllKeys /\ forUpdate \subseteq Keys /\ forDeletion \subseteq Keys
        /\ todo \subseteq DOMAIN cachedEntries
        /\ batch \in [Keys -> Values \cup {NoValue, NoOp}]
    BY DEF Init
  <2>. QED
    BY <2>1, <2>2, <2>3, <2>4, <2>5 DEF TypeOK
<1>4. ActiveIffIndexed
  BY <1>0, <1>1, InitialFile DEF ActiveIffIndexed, GuardEntry, StoredKeys
<1>5. StoredOK
  BY <1>0, <1>1, <1>2 DEF StoredOK, GuardEntry
<1>6. LinkedList
  <2>1. SuccOf({StartKey, EndKey}, StartKey) = EndKey
    BY <1>0, SuccUnique, KeyAssumption
  <2>. QED
    BY <1>0, <1>1, <1>2, <2>1 DEF LinkedList, GuardEntry, StoredKeys, SuccOf
<1>7. TasksOK
  BY DEF Init, TasksOK
<1>8. FillingOK
  <2>1. WillBeHot = {} /\ WillBeNext = {}
    BY DEF Init, Idle, WillBeHot, WillBeNext
  <2>. QED
    BY <2>1 DEF Init, FillingOK, Closed, Idle
<1>9. LinkingOK /\ SweepingOK
  BY DEF Init, LinkingOK, SweepingOK
<1>. QED
  BY <1>3, <1>4, <1>5, <1>6, <1>7, <1>8, <1>9 DEF IInv

-----------------------------------------------------------------------------
(* What is stored, and its neighbours *)

\* The entry of an indexed key is an entry of that key.
LEMMA StoredEntry ==
    ASSUME TypeOK, ActiveIffIndexed, StoredOK, NEW k \in StoredKeys
    PROVE  /\ k \in AllKeys
           /\ idxTree[k] \in 0..(datTree.maxSerialNum - 1)
           /\ datTree.entryFile[idxTree[k]] \in LogRecord
           /\ ReadEntry(k) \in Entry
           /\ ReadEntry(k).key = k
           /\ ReadEntry(k).serialNum = idxTree[k]
           /\ idxTree[k] \in Nat
           /\ ReadEntry(k).nextKey \in AllKeys
           /\ CommittedEntry(k) = ReadEntry(k)
<1>1. k \in AllKeys /\ idxTree[k] \in Nat
  BY DEF TypeOK, StoredKeys
<1>2. idxTree[k] \in 0..(datTree.maxSerialNum - 1)
  BY DEF TypeOK, ActiveIffIndexed, IsDataTree, StoredKeys
<1>3. datTree.entryFile[idxTree[k]] \in LogRecord
  BY <1>2 DEF TypeOK, IsDataTree
<1>4. ReadEntry(k) \in Entry
  BY <1>3 DEF LogRecord, ReadEntry
<1>5. ReadEntry(k).key = k /\ ReadEntry(k).serialNum = idxTree[k]
  BY DEF ActiveIffIndexed, ReadEntry, StoredKeys
<1>6. ReadEntry(k).nextKey \in AllKeys
  BY DEF StoredOK
<1>. QED
  BY <1>1, <1>2, <1>3, <1>4, <1>5, <1>6 DEF CommittedEntry

LEMMA CommittedHotType ==
    ASSUME TypeOK, ActiveIffIndexed, StoredOK, NEW k \in AllKeys
    PROVE  /\ CommittedEntry(k) \in Entry
           /\ CommittedEntry(k).key = k
           /\ MakeHot(CommittedEntry(k)) \in HotEntry
           /\ MakeHot(CommittedEntry(k)).entry = CommittedEntry(k)
           /\ k \in StoredKeys => CommittedEntry(k).serialNum = idxTree[k] /\ idxTree[k] \in Nat
           /\ k \notin StoredKeys => CommittedEntry(k) = InsertedEntry(k)
<1>1. CommittedEntry(k) \in Entry /\ CommittedEntry(k).key = k
  <2>1. CASE k \in StoredKeys
    BY <2>1, StoredEntry
  <2>2. CASE k \notin StoredKeys
    BY <2>2 DEF CommittedEntry, InsertedEntry, Entry, InsertedSN
  <2>. QED BY <2>1, <2>2
<1>2. MakeHot(CommittedEntry(k)) \in HotEntry /\ MakeHot(CommittedEntry(k)).entry = CommittedEntry(k)
  BY <1>1 DEF MakeHot, HotEntry, OpNone
<1>3. k \in StoredKeys => CommittedEntry(k).serialNum = idxTree[k] /\ idxTree[k] \in Nat
  BY StoredEntry
<1>. QED
  BY <1>1, <1>2, <1>3 DEF CommittedEntry

\* Outside the sweep the neighbours of a key in the index are where NextKey says.
LEMMA StoredNeighbours ==
    ASSUME IInv, phase # "sweeping", NEW k \in Keys
    PROVE  /\ k \in AllKeys /\ StoredKeys \in SUBSET AllKeys
           /\ Below(StoredKeys, k) # {} /\ Above(StoredKeys, k) # {}
           /\ PredOf(StoredKeys, k) \in StoredKeys
           /\ PredOf(StoredKeys, k) < k
           /\ ReadEntry(PredOf(StoredKeys, k)).nextKey = SuccOf(StoredKeys, PredOf(StoredKeys, k))
           /\ SuccOf(StoredKeys, PredOf(StoredKeys, k)) \in StoredKeys
           /\ SuccOf(StoredKeys, k) \in StoredKeys
           /\ k \in StoredKeys => ReadEntry(k).nextKey = SuccOf(StoredKeys, k)
<1>1. k \in AllKeys /\ StoredKeys \in SUBSET AllKeys /\ StartKey \in StoredKeys /\ EndKey \in StoredKeys
  BY DEF AllKeys, StoredKeys, IInv, TypeOK, StoredOK
<1>2. Below(StoredKeys, k) # {} /\ Above(StoredKeys, k) # {}
  BY <1>1, KeyAssumption DEF Below, Above
<1>3. /\ PredOf(StoredKeys, k) \in StoredKeys
      /\ PredOf(StoredKeys, k) < k
  BY <1>1, <1>2, PredProp
<1>4. SuccOf(StoredKeys, k) \in StoredKeys
  BY <1>1, <1>2, SuccProp
<1> DEFINE p == PredOf(StoredKeys, k)
<1>5. p \in AllKeys /\ p \in Int /\ k \in Int /\ EndKey \in Int /\ k < EndKey
  BY <1>1, <1>3, KeysAreInts, KeyAssumption
<1>6. p # EndKey /\ p < EndKey
  BY <1>3, <1>5
<1>. HIDE DEF p
<1>7. Above(StoredKeys, p) # {}
  BY <1>1, <1>6 DEF Above
<1>8. SuccOf(StoredKeys, p) \in StoredKeys
  BY <1>1, <1>5, <1>7, SuccProp
<1>9. \A i \in StoredKeys \ {EndKey} : ReadEntry(i).nextKey = SuccOf(StoredKeys, i)
  BY DEF IInv, LinkedList, SuccOf, StoredKeys
<1>10. k # EndKey
  BY <1>5
<1>. QED
  BY <1>1, <1>2, <1>3, <1>4, <1>6, <1>8, <1>9, <1>10 DEF p

-----------------------------------------------------------------------------
(* The filling phase *)

\* Steps of the filling phase leave everything stored as it is.
LEMMA FillFrame ==
    ASSUME IInv, phase = "filling",
           UNCHANGED <<phase, storeVars, cachedEntries, todo, batch>>
    PROVE  /\ ActiveIffIndexed' /\ StoredOK' /\ LinkedList' /\ LinkingOK' /\ SweepingOK'
           /\ TasksOK'
           /\ StoredKeys' = StoredKeys
           /\ \A k : CommittedEntry(k)' = CommittedEntry(k)
<1>1. UNCHANGED <<idxTree, datTree>>
  BY DEF storeVars
<1>2. StoredKeys' = StoredKeys /\ \A k : ReadEntry(k)' = ReadEntry(k)
  BY <1>1 DEF StoredKeys, ReadEntry
<1>3. \A k : CommittedEntry(k)' = CommittedEntry(k)
  BY <1>2 DEF CommittedEntry
<1>4. ActiveIffIndexed'
  BY <1>1 DEF IInv, ActiveIffIndexed
<1>5. StoredOK'
  BY <1>2 DEF IInv, StoredOK
<1>6. LinkedList'
  BY <1>1, <1>2 DEF IInv, LinkedList
<1>7. LinkingOK' /\ SweepingOK'
  BY DEF LinkingOK, SweepingOK
<1>8. TasksOK'
  BY DEF TasksOK
<1>. QED
  BY <1>2, <1>3, <1>4, <1>5, <1>6, <1>7, <1>8

\* A Prepare call adds the keys it is going to store.
LEMMA TaskStart ==
    ASSUME TypeOK, NEW w \in Workers, task[w] = Idle, NEW t \in TaskType,
           task' = [task EXCEPT ![w] = t], UNCHANGED <<k2heMap, k2nkMap>>
    PROVE  /\ WillBeHot' = WillBeHot \cup
                {k \in AllKeys : \E i \in 1..Len(t.he) : t.he[i].entry.key = k}
           /\ WillBeNext' = WillBeNext \cup t.nk
           /\ task' \in [Workers -> TaskType]
           /\ task'[w] = t
           /\ \A v \in Workers : v # w => task'[v] = task[v]
<1>1. task \in [Workers -> TaskType]
  BY DEF TypeOK
<1>2. /\ task' \in [Workers -> TaskType] /\ task'[w] = t
      /\ \A v \in Workers : v # w => task'[v] = task[v]
  BY <1>1
<1>3. Len(task[w].he) = 0 /\ task[w].nk = {}
  BY DEF Idle
<1>4. WillBeNext' = WillBeNext \cup t.nk
  BY <1>2, <1>3 DEF WillBeNext
<1>5. WillBeHot' = WillBeHot \cup
                {k \in AllKeys : \E i \in 1..Len(t.he) : t.he[i].entry.key = k}
  BY <1>2, <1>3 DEF WillBeHot
<1>. QED
  BY <1>2, <1>4, <1>5


\* What a Prepare call must bring along so that the hot entries stay closed: fu and fd
\* are the keys it prepares for update and for deletion, t its stores.
KeysOf(t) == {j \in AllKeys : \E i \in 1..Len(t.he) : t.he[i].entry.key = j}
BringsNeighbours(t, fu, fd) ==
    /\ t \in TaskType
    /\ \A i \in 1..Len(t.he) :
          /\ t.he[i].entry.key \in AllKeys
          /\ t.he[i] = MakeHot(CommittedEntry(t.he[i].entry.key))
    /\ t.nk \subseteq StoredKeys
    /\ fu \subseteq Keys /\ fd \subseteq Keys
    /\ fu \subseteq KeysOf(t) /\ KeysOf(t) \ StoredKeys \subseteq fu
    /\ \A j \in fu \ StoredKeys : /\ PredOf(StoredKeys, j) \in KeysOf(t)
                                  /\ SuccOf(StoredKeys, PredOf(StoredKeys, j)) \in t.nk
    /\ \A j \in fd \cap StoredKeys : /\ j \in KeysOf(t) /\ PredOf(StoredKeys, j) \in KeysOf(t)
                                     /\ SuccOf(StoredKeys, j) \in t.nk

LEMMA PrepareStep ==
    ASSUME IInv, phase = "filling", NEW w \in Workers, task[w] = Idle, NEW t, NEW fu, NEW fd,
           BringsNeighbours(t, fu, fd),
           task' = [task EXCEPT ![w] = t],
           forUpdate' = forUpdate \cup fu, forDeletion' = forDeletion \cup fd,
           UNCHANGED <<phase, storeVars, k2heMap, k2nkMap, cachedEntries, todo, batch>>
    PROVE  IInv'
<1> DEFINE hot == KeysOf(t)
<1>0. /\ t \in TaskType
      /\ \A i \in 1..Len(t.he) :
          /\ t.he[i].entry.key \in AllKeys
          /\ t.he[i] = MakeHot(CommittedEntry(t.he[i].entry.key))
      /\ t.nk \subseteq StoredKeys
      /\ fu \subseteq Keys /\ fd \subseteq Keys
      /\ fu \subseteq hot /\ hot \ StoredKeys \subseteq fu
      /\ \A j \in fu \ StoredKeys : /\ PredOf(StoredKeys, j) \in hot
                                  /\ SuccOf(StoredKeys, PredOf(StoredKeys, j)) \in t.nk
      /\ \A j \in fd \cap StoredKeys : /\ j \in hot /\ PredOf(StoredKeys, j) \in hot
                                     /\ SuccOf(StoredKeys, j) \in t.nk
  BY DEF BringsNeighbours
<1>1. /\ ActiveIffIndexed' /\ StoredOK' /\ LinkedList' /\ LinkingOK' /\ SweepingOK'
      /\ TasksOK'
      /\ StoredKeys' = StoredKeys
      /\ \A j : CommittedEntry(j)' = CommittedEntry(j)
  BY FillFrame
<1>2. /\ WillBeHot' = WillBeHot \cup hot
      /\ WillBeNext' = WillBeNext \cup t.nk
      /\ task' \in [Workers -> TaskType]
      /\ task'[w] = t
      /\ \A v \in Workers : v # w => task'[v] = task[v]
  BY <1>0, TaskStart DEF IInv, KeysOf
<1>. HIDE DEF hot
<1>3. TypeOK'
  <2>1. forUpdate' \subseteq Keys /\ forDeletion' \subseteq Keys
    BY <1>0 DEF IInv, TypeOK
  <2>. QED
    BY <1>2, <2>1 DEF IInv, TypeOK, storeVars
<1>4. FillingOK'
  <2>1. \A j \in DOMAIN k2heMap' : HotEntryOK(j, k2heMap[j])'
    <3>1. \A j \in DOMAIN k2heMap : HotEntryOK(j, k2heMap[j])
      BY DEF IInv, FillingOK
    <3>. QED
      BY <3>1, <1>1 DEF HotEntryOK
  <2>2. ASSUME NEW v \in Workers, NEW i \in 1..Len(task'[v].he)
        PROVE  LET h == task'[v].he[i]
               IN  h.entry.key \in AllKeys /\ h = MakeHot(CommittedEntry(h.entry.key))
    <3>1. CASE v = w
      BY <1>0, <1>2, <3>1
    <3>2. CASE v # w
      BY <1>2, <3>2 DEF IInv, FillingOK
    <3>. QED
      BY <3>1, <3>2
  <2>3. (WillBeNext \subseteq StoredKeys)'
    BY <1>0, <1>1, <1>2 DEF IInv, FillingOK
  <2>4. Closed(WillBeHot, WillBeNext)'
    <3>1. Closed(WillBeHot, WillBeNext)
      BY DEF IInv, FillingOK
    <3>2. /\ (WillBeHot \cup hot) \ StoredKeys \subseteq forUpdate \cup fu
          /\ forUpdate \cup fu \subseteq WillBeHot \cup hot
      BY <1>0, <3>1 DEF Closed
    <3>3. ASSUME NEW j \in (forUpdate \cup fu) \ StoredKeys
          PROVE  /\ PredOf(StoredKeys, j) \in WillBeHot \cup hot
                 /\ SuccOf(StoredKeys, PredOf(StoredKeys, j)) \in WillBeNext \cup t.nk
      BY <1>0, <3>1 DEF Closed
    <3>4. ASSUME NEW j \in (forDeletion \cup fd) \cap StoredKeys
          PROVE  /\ j \in WillBeHot \cup hot /\ PredOf(StoredKeys, j) \in WillBeHot \cup hot
                 /\ SuccOf(StoredKeys, j) \in WillBeNext \cup t.nk
      BY <1>0, <3>1 DEF Closed
    <3>. QED
      BY <1>1, <1>2, <3>2, <3>3, <3>4 DEF Closed
  <2>5. /\ \A j \in Keys \ DOMAIN k2heMap :
              batch[j] # NoOp => batch[j] = NoValue /\ j \notin StoredKeys
        /\ batch = [j \in Keys |-> NoOp]
        /\ cachedEntries = <<>> /\ todo = {}
    BY DEF IInv, FillingOK
  <2>. QED
    BY <1>1, <2>1, <2>2, <2>3, <2>4, <2>5 DEF FillingOK
<1>. QED
  BY <1>1, <1>3, <1>4 DEF IInv

LEMMA PrepareForUpdateIInv ==
    ASSUME IInv, NEW w \in Workers, NEW k \in Keys, PrepareForUpdate(w, k)
    PROVE  IInv'
<1>0. /\ phase = "filling" /\ task[w] = Idle
      /\ UNCHANGED <<phase, storeVars, k2heMap, k2nkMap, cachedEntries, todo, batch>>
      /\ forUpdate' = forUpdate \cup {k} /\ forDeletion' = forDeletion \cup {}
  BY DEF PrepareForUpdate
<1>1. k \in AllKeys
  BY DEF AllKeys
<1>a. TypeOK /\ ActiveIffIndexed /\ StoredOK
  BY DEF IInv
<1>2. CASE k \in StoredKeys
  <2> DEFINE h == MakeHot(CommittedEntry(k))
             t == [he |-> <<h>>, nk |-> {}]
             hot == KeysOf(t)
  <2>1. task' = [task EXCEPT ![w] = t]
    BY <1>2, <1>a, StoredEntry DEF PrepareForUpdate, StoredKeys
  <2>2. h \in HotEntry /\ h.entry.key = k /\ h = MakeHot(CommittedEntry(h.entry.key))
    BY <1>1, <1>a, CommittedHotType
  <2>. HIDE DEF h
  <2>3. t \in TaskType /\ Len(t.he) = 1 /\ t.he[1] = h /\ t.nk = {}
    BY <2>2 DEF TaskType
  <2>4. hot = {k}
    BY <1>1, <2>2, <2>3 DEF KeysOf
  <2>5. \A i \in 1..Len(t.he) :
                /\ t.he[i].entry.key \in AllKeys
                /\ t.he[i] = MakeHot(CommittedEntry(t.he[i].entry.key))
    BY <1>1, <2>2, <2>3
  <2>. HIDE DEF t
  <2>20. BringsNeighbours(t, {k}, {})
    BY <1>2, <2>3, <2>4, <2>5 DEF BringsNeighbours
  <2>. QED
    BY <1>0, <2>1, <2>20, PrepareStep
<1>3. CASE k \notin StoredKeys
  <2> DEFINE p == PredOf(StoredKeys, k)
             h1 == MakeHot(CommittedEntry(k))
             h2 == MakeHot(CommittedEntry(p))
             t == [he |-> <<h1, h2>>, nk |-> {SuccOf(StoredKeys, p)}]
             hot == KeysOf(t)
  <2>1. /\ p \in StoredKeys /\ ReadEntry(p).nextKey = SuccOf(StoredKeys, p)
        /\ SuccOf(StoredKeys, p) \in StoredKeys
    BY <1>0, StoredNeighbours
  <2>2. p \in AllKeys /\ CommittedEntry(p) = ReadEntry(p) /\ SuccOf(StoredKeys, p) \in AllKeys
    BY <1>a, <2>1, StoredEntry
  <2>3. task' = [task EXCEPT ![w] = t]
    <3>1. CommittedEntry(k) = InsertedEntry(k)
      BY <1>3 DEF CommittedEntry
    <3>2. GetPrevEntry(k) = ReadEntry(p)
      BY DEF GetPrevEntry, PredOf, StoredKeys
    <3>. QED
      BY <1>3, <2>1, <2>2, <3>1, <3>2 DEF PrepareForUpdate, StoredKeys
  <2>4. h1 \in HotEntry /\ h1.entry.key = k /\ h1 = MakeHot(CommittedEntry(h1.entry.key))
    BY <1>1, <1>a, CommittedHotType
  <2>5. h2 \in HotEntry /\ h2.entry.key = p /\ h2 = MakeHot(CommittedEntry(h2.entry.key))
    BY <2>2, <1>a, CommittedHotType
  <2>. HIDE DEF h1, h2, p
  <2>6. t \in TaskType /\ Len(t.he) = 2 /\ t.he[1] = h1 /\ t.he[2] = h2
        /\ t.nk = {SuccOf(StoredKeys, p)}
    BY <2>2, <2>4, <2>5 DEF TaskType
  <2>7. hot = {k, p}
    BY <1>1, <2>2, <2>4, <2>5, <2>6 DEF KeysOf
  <2>8. \A i \in 1..Len(t.he) :
                /\ t.he[i].entry.key \in AllKeys
                /\ t.he[i] = MakeHot(CommittedEntry(t.he[i].entry.key))
    BY <1>1, <2>2, <2>4, <2>5, <2>6
  <2>. HIDE DEF t
  <2>10. p = PredOf(StoredKeys, k)
    BY DEF p
  <2>20. BringsNeighbours(t, {k}, {})
    BY <1>3, <2>1, <2>6, <2>7, <2>8, <2>10 DEF BringsNeighbours
  <2>. QED
    BY <1>0, <2>3, <2>20, PrepareStep
<1>. QED
  BY <1>2, <1>3

LEMMA PrepareForDeletionIInv ==
    ASSUME IInv, NEW w \in Workers, NEW k \in Keys, PrepareForDeletion(w, k)
    PROVE  IInv'
<1>0. /\ phase = "filling" /\ task[w] = Idle
      /\ UNCHANGED <<phase, storeVars, k2heMap, k2nkMap, cachedEntries, todo, batch>>
      /\ forUpdate' = forUpdate \cup {} /\ forDeletion' = forDeletion \cup {k}
  BY DEF PrepareForDeletion
<1>1. k \in AllKeys
  BY DEF AllKeys
<1>a. TypeOK /\ ActiveIffIndexed /\ StoredOK
  BY DEF IInv
<1>2. CASE k \notin StoredKeys
  <2> DEFINE hot == KeysOf(Idle)
  <2>1. Idle \in TaskType /\ Len(Idle.he) = 0 /\ Idle.nk = {}
    BY DEF Idle, TaskType
  <2>2. task' = [task EXCEPT ![w] = Idle]
    BY <1>0, <1>2 DEF PrepareForDeletion, StoredKeys, IInv, TypeOK
  <2>3. hot = {}
    BY <2>1 DEF KeysOf
  <2>5. \A i \in 1..Len(Idle.he) :
                /\ Idle.he[i].entry.key \in AllKeys
                /\ Idle.he[i] = MakeHot(CommittedEntry(Idle.he[i].entry.key))
    BY <2>1
  <2>20. BringsNeighbours(Idle, {}, {k})
    BY <1>2, <2>1, <2>3, <2>5 DEF BringsNeighbours
  <2>. QED
    BY <1>0, <2>2, <2>20, PrepareStep
<1>3. CASE k \in StoredKeys
  <2> DEFINE p == PredOf(StoredKeys, k)
             h1 == MakeHot(CommittedEntry(k))
             h2 == MakeHot(CommittedEntry(p))
             t == [he |-> <<h1, h2>>, nk |-> {SuccOf(StoredKeys, k)}]
             hot == KeysOf(t)
  <2>1. /\ p \in StoredKeys /\ ReadEntry(k).nextKey = SuccOf(StoredKeys, k)
        /\ SuccOf(StoredKeys, k) \in StoredKeys
    BY <1>0, <1>3, StoredNeighbours
  <2>2. /\ p \in AllKeys /\ CommittedEntry(p) = ReadEntry(p) /\ SuccOf(StoredKeys, k) \in AllKeys
        /\ CommittedEntry(k) = ReadEntry(k)
    BY <1>a, <1>3, <2>1, StoredEntry
  <2>3. task' = [task EXCEPT ![w] = t]
    <3>2. GetPrevEntry(k) = ReadEntry(p)
      BY DEF GetPrevEntry, PredOf, StoredKeys
    <3>. QED
      BY <1>3, <2>1, <2>2, <3>2 DEF PrepareForDeletion, StoredKeys
  <2>4. h1 \in HotEntry /\ h1.entry.key = k /\ h1 = MakeHot(CommittedEntry(h1.entry.key))
    BY <1>1, <1>a, CommittedHotType
  <2>5. h2 \in HotEntry /\ h2.entry.key = p /\ h2 = MakeHot(CommittedEntry(h2.entry.key))
    BY <2>2, <1>a, CommittedHotType
  <2>. HIDE DEF h1, h2, p
  <2>6. t \in TaskType /\ Len(t.he) = 2 /\ t.he[1] = h1 /\ t.he[2] = h2
        /\ t.nk = {SuccOf(StoredKeys, k)}
    BY <2>2, <2>4, <2>5 DEF TaskType
  <2>7. hot = {k, p}
    BY <1>1, <2>2, <2>4, <2>5, <2>6 DEF KeysOf
  <2>8. \A i \in 1..Len(t.he) :
                /\ t.he[i].entry.key \in AllKeys
                /\ t.he[i] = MakeHot(CommittedEntry(t.he[i].entry.key))
    BY <1>1, <2>2, <2>4, <2>5, <2>6
  <2>. HIDE DEF t
  <2>10. p = PredOf(StoredKeys, k)
    BY DEF p
  <2>20. BringsNeighbours(t, {}, {k})
    BY <1>3, <2>1, <2>6, <2>7, <2>8, <2>10 DEF BringsNeighbours
  <2>. QED
    BY <1>0, <2>3, <2>20, PrepareStep
<1>. QED
  BY <1>2, <1>3


LEMMA StoreHotEntryIInv ==
    ASSUME IInv, NEW w \in Workers, StoreHotEntry(w)
    PROVE  IInv'
<1> DEFINE t == task[w]
           h == Head(t.he)
           key == h.entry.key
<1>0. /\ UNCHANGED <<phase, storeVars, k2nkMap, forUpdate, forDeletion, cachedEntries, todo, batch>>
      /\ t.he # <<>>
      /\ k2heMap' = [k \in DOMAIN k2heMap \cup {key} |-> IF k = key THEN h ELSE k2heMap[k]]
      /\ task' = [task EXCEPT ![w].he = Tail(@)]
  BY DEF StoreHotEntry
<1>1. phase = "filling"
  BY <1>0 DEF IInv, TasksOK, Idle
<1>2. /\ t \in TaskType /\ t.he \in Seq(HotEntry) /\ t.nk \subseteq AllKeys
  BY DEF IInv, TypeOK, TaskType
<1>3. /\ Len(t.he) \in Nat /\ Len(t.he) >= 1 /\ h = t.he[1] /\ h \in HotEntry
      /\ Tail(t.he) \in Seq(HotEntry) /\ Len(Tail(t.he)) = Len(t.he) - 1
      /\ \A i \in 1..(Len(t.he) - 1) : Tail(t.he)[i] = t.he[i + 1]
  BY <1>0, <1>2
<1>4. /\ task' \in [Workers -> TaskType]
      /\ task'[w].he = Tail(t.he) /\ task'[w].nk = t.nk
      /\ \A v \in Workers : v # w => task'[v] = task[v]
  BY <1>0, <1>2, <1>3 DEF IInv, TypeOK, TaskType
<1>s. /\ \A i \in 1..Len(task'[w].he) :
            i + 1 \in 1..Len(task[w].he) /\ task'[w].he[i] = task[w].he[i + 1]
      /\ \A i \in 1..Len(task[w].he) : i # 1 =>
            i - 1 \in 1..Len(task'[w].he) /\ task'[w].he[i - 1] = task[w].he[i]
  <2>1. Len(task'[w].he) = Len(task[w].he) - 1
    BY <1>3, <1>4
  <2>2. \A i \in 1..(Len(task[w].he) - 1) : task'[w].he[i] = task[w].he[i + 1]
    BY <1>3, <1>4
  <2>3. Len(task[w].he) \in Nat
    BY <1>3
  <2> DEFINE n == Len(task[w].he)
             a == task'[w].he
             b == task[w].he
  <2>. HIDE DEF n, a, b
  <2>4. /\ \A i \in 1..(n - 1) : i + 1 \in 1..n /\ a[i] = b[i + 1]
        /\ \A i \in 1..n : i # 1 => i - 1 \in 1..(n - 1) /\ a[i - 1] = b[i]
    <3>1. n \in Nat /\ \A i \in 1..(n - 1) : a[i] = b[i + 1]
      BY <2>2, <2>3 DEF n, a, b
    <3>2. ASSUME NEW i \in 1..n, i # 1
          PROVE  i - 1 \in 1..(n - 1) /\ a[i - 1] = b[i]
      <4>1. i - 1 \in 1..(n - 1) /\ (i - 1) + 1 = i
        BY <3>1, <3>2
      <4>. QED
        BY <3>1, <4>1
    <3>. QED
      BY <3>1, <3>2
  <2>. QED
    BY <2>1, <2>4 DEF n, a, b
<1>. HIDE DEF h
<1>5. key \in AllKeys /\ h = MakeHot(CommittedEntry(key))
  BY <1>1, <1>3 DEF IInv, FillingOK
<1>6. /\ ActiveIffIndexed' /\ StoredOK' /\ LinkedList' /\ LinkingOK' /\ SweepingOK'
      /\ TasksOK'
      /\ StoredKeys' = StoredKeys
      /\ \A j : CommittedEntry(j)' = CommittedEntry(j)
  BY <1>0, <1>1, FillFrame
<1>7. TypeOK'
  <2>1. /\ DOMAIN k2heMap' \subseteq AllKeys
        /\ k2heMap' \in [DOMAIN k2heMap' -> HotEntry]
    BY <1>0, <1>3, <1>5 DEF IInv, TypeOK
  <2>. QED
    BY <1>0, <1>4, <2>1 DEF IInv, TypeOK, storeVars
<1>8. /\ WillBeNext' = WillBeNext
      /\ WillBeHot' = WillBeHot
  <2>1. WillBeNext' = WillBeNext
    BY <1>0, <1>4 DEF WillBeNext
  <2>2. ASSUME NEW k, k \in WillBeHot PROVE k \in WillBeHot'
    <3>1. CASE k \in DOMAIN k2heMap
      BY <1>0, <3>1 DEF WillBeHot
    <3>2. CASE k \notin DOMAIN k2heMap
      <4>1. PICK v \in Workers : \E i \in 1..Len(task[v].he) : task[v].he[i].entry.key = k
        BY <2>2, <3>2 DEF WillBeHot
      <4>2. PICK i \in 1..Len(task[v].he) : task[v].he[i].entry.key = k
        BY <4>1
      <4>3. k \in AllKeys
        BY <2>2, <3>2 DEF WillBeHot
      <4>4. CASE v = w /\ i = 1
        BY <1>0, <1>3, <4>2, <4>4 DEF WillBeHot
      <4>5. CASE v = w /\ i # 1
        <5>1. i - 1 \in 1..Len(task'[w].he) /\ task'[w].he[i - 1] = task[w].he[i]
          BY <1>s, <4>5
        <5>. QED
          BY <4>2, <4>3, <4>5, <5>1 DEF WillBeHot
      <4>6. CASE v # w
        BY <1>4, <4>2, <4>3, <4>6 DEF WillBeHot
      <4>. QED
        BY <4>4, <4>5, <4>6
    <3>. QED
      BY <3>1, <3>2
  <2>3. ASSUME NEW k, k \in WillBeHot' PROVE k \in WillBeHot
    <3>1. CASE k \in DOMAIN k2heMap'
      <4>1. k \in DOMAIN k2heMap \/ k = key
        BY <1>0, <3>1
      <4>2. CASE k = key
        <5>1. 1 \in 1..Len(task[w].he) /\ task[w].he[1].entry.key = k
          BY <1>3, <4>2
        <5>. QED
          BY <1>5, <4>2, <5>1 DEF WillBeHot
      <4>. QED
        BY <4>1, <4>2 DEF WillBeHot
    <3>2. CASE k \notin DOMAIN k2heMap'
      <4>1. PICK v \in Workers : \E i \in 1..Len(task'[v].he) : task'[v].he[i].entry.key = k
        BY <2>3, <3>2 DEF WillBeHot
      <4>2. PICK i \in 1..Len(task'[v].he) : task'[v].he[i].entry.key = k
        BY <4>1
      <4>3. k \in AllKeys
        BY <2>3, <3>2 DEF WillBeHot
      <4>5. CASE v = w
        <5>1. i + 1 \in 1..Len(task[w].he) /\ task'[w].he[i] = task[w].he[i + 1]
          BY <1>s, <4>5
        <5>. QED
          BY <4>2, <4>3, <4>5, <5>1 DEF WillBeHot
      <4>6. CASE v # w
        BY <1>4, <4>2, <4>3, <4>6 DEF WillBeHot
      <4>. QED
        BY <4>5, <4>6
    <3>. QED
      BY <3>1, <3>2
  <2>. QED
    BY <2>1, <2>2, <2>3
<1>9. FillingOK'
  <2>0. batch = [j \in Keys |-> NoOp]
    BY <1>1 DEF IInv, FillingOK
  <2>1. ASSUME NEW j \in DOMAIN k2heMap' PROVE HotEntryOK(j, k2heMap[j])'
    <3>1. CASE j = key
      <4>1. k2heMap'[j] = MakeHot(CommittedEntry(j))
        BY <1>0, <1>5, <3>1
      <4>2. k2heMap'[j].isModified = FALSE /\ k2heMap'[j].isTouchedByNext = FALSE
        BY <4>1 DEF MakeHot
      <4>3. j \in Keys => batch'[j] = NoOp
        BY <1>0, <2>0
      <4>4. k2heMap'[j] = MakeHot(CommittedEntry(j)')
        BY <1>6, <4>1
      <4>. QED
        BY <4>2, <4>3, <4>4 DEF HotEntryOK
    <3>2. CASE j # key
      <4>1. j \in DOMAIN k2heMap /\ k2heMap'[j] = k2heMap[j]
        BY <1>0, <3>2
      <4>2. HotEntryOK(j, k2heMap[j])
        BY <1>1, <4>1 DEF IInv, FillingOK
      <4>. QED
        BY <1>0, <1>6, <4>1, <4>2 DEF HotEntryOK
    <3>. QED
      BY <3>1, <3>2
  <2>2. ASSUME NEW v \in Workers, NEW i \in 1..Len(task'[v].he)
        PROVE  LET g == task'[v].he[i]
               IN  g.entry.key \in AllKeys /\ g = MakeHot(CommittedEntry(g.entry.key))
    <3>1. CASE v = w
      <4>1. i + 1 \in 1..Len(task[w].he) /\ task'[w].he[i] = task[w].he[i + 1]
        BY <1>s, <3>1
      <4>. QED
        BY <1>1, <3>1, <4>1 DEF IInv, FillingOK
    <3>2. CASE v # w
      BY <1>1, <1>4, <3>2 DEF IInv, FillingOK
    <3>. QED
      BY <3>1, <3>2
  <2>3. (WillBeNext \subseteq StoredKeys)'
    BY <1>1, <1>6, <1>8 DEF IInv, FillingOK
  <2>4. Closed(WillBeHot, WillBeNext)'
    <3>1. Closed(WillBeHot, WillBeNext)
      BY <1>1 DEF IInv, FillingOK
    <3>. QED
      BY <1>0, <1>6, <1>8, <3>1 DEF Closed
  <2>5. /\ \A j \in Keys : batch[j] = NoOp
        /\ cachedEntries = <<>> /\ todo = {}
    BY <1>1, <2>0 DEF IInv, FillingOK
  <2>. QED
    BY <1>0, <1>1, <1>6, <2>0, <2>1, <2>2, <2>3, <2>4, <2>5 DEF FillingOK
<1>. QED
  BY <1>6, <1>7, <1>9 DEF IInv

LEMMA StoreNextKeyIInv ==
    ASSUME IInv, NEW w \in Workers, StoreNextKey(w)
    PROVE  IInv'
<1>0. /\ UNCHANGED <<phase, storeVars, k2heMap, forUpdate, forDeletion, cachedEntries, todo, batch>>
      /\ task[w].he = <<>> /\ task[w].nk # {}
      /\ k2nkMap' = k2nkMap \cup task[w].nk
      /\ task' = [task EXCEPT ![w] = Idle]
  BY DEF StoreNextKey
<1>1. phase = "filling"
  BY <1>0 DEF IInv, TasksOK, Idle
<1>2. Idle \in TaskType /\ Len(Idle.he) = 0 /\ Idle.nk = {}
  BY DEF Idle, TaskType
<1>3. /\ task' \in [Workers -> TaskType] /\ task'[w] = Idle
      /\ \A v \in Workers : v # w => task'[v] = task[v]
  BY <1>0, <1>2 DEF IInv, TypeOK
<1>4. task[w].nk \subseteq AllKeys /\ Len(task[w].he) = 0
  BY <1>0 DEF IInv, TypeOK, TaskType
<1>6. /\ ActiveIffIndexed' /\ StoredOK' /\ LinkedList' /\ LinkingOK' /\ SweepingOK'
      /\ TasksOK'
      /\ StoredKeys' = StoredKeys
      /\ \A j : CommittedEntry(j)' = CommittedEntry(j)
  BY <1>0, <1>1, FillFrame
<1>7. TypeOK'
  BY <1>0, <1>3, <1>4 DEF IInv, TypeOK, storeVars
<1>8. /\ WillBeNext' = WillBeNext
      /\ WillBeHot' = WillBeHot
  <2>1. WillBeNext' = WillBeNext
    BY <1>0, <1>2, <1>3 DEF WillBeNext
  <2>2. WillBeHot' = WillBeHot
    BY <1>0, <1>2, <1>3, <1>4 DEF WillBeHot
  <2>. QED
    BY <2>1, <2>2
<1>9. FillingOK'
  <2>1. \A j \in DOMAIN k2heMap' : HotEntryOK(j, k2heMap[j])'
    <3>1. \A j \in DOMAIN k2heMap : HotEntryOK(j, k2heMap[j])
      BY <1>1 DEF IInv, FillingOK
    <3>. QED
      BY <3>1, <1>0, <1>6 DEF HotEntryOK
  <2>2. ASSUME NEW v \in Workers, NEW i \in 1..Len(task'[v].he)
        PROVE  LET g == task'[v].he[i]
               IN  g.entry.key \in AllKeys /\ g = MakeHot(CommittedEntry(g.entry.key))
    <3>1. CASE v = w
      BY <1>2, <1>3, <3>1
    <3>2. CASE v # w
      BY <1>1, <1>3, <3>2 DEF IInv, FillingOK
    <3>. QED
      BY <3>1, <3>2
  <2>3. (WillBeNext \subseteq StoredKeys)'
    BY <1>1, <1>6, <1>8 DEF IInv, FillingOK
  <2>4. Closed(WillBeHot, WillBeNext)'
    <3>1. Closed(WillBeHot, WillBeNext)
      BY <1>1 DEF IInv, FillingOK
    <3>. QED
      BY <1>0, <1>6, <1>8, <3>1 DEF Closed
  <2>5. /\ \A j \in Keys \ DOMAIN k2heMap :
              batch[j] # NoOp => batch[j] = NoValue /\ j \notin StoredKeys
        /\ batch = [j \in Keys |-> NoOp]
        /\ cachedEntries = <<>> /\ todo = {}
    BY <1>1 DEF IInv, FillingOK
  <2>. QED
    BY <1>0, <1>1, <1>6, <2>1, <2>2, <2>3, <2>4, <2>5 DEF FillingOK
<1>. QED
  BY <1>6, <1>7, <1>9 DEF IInv

-----------------------------------------------------------------------------
(* The marking phase *)

LEMMA BeginWriteIInv ==
    ASSUME IInv, BeginWrite
    PROVE  IInv'
<1>0. /\ phase = "filling" /\ phase' = "marking" /\ currHeight' = currHeight + 1
      /\ \A w \in Workers : task[w] = Idle
      /\ UNCHANGED <<oldestActiveTwigID, idxTree, datTree, k2heMap, k2nkMap, task, forUpdate,
                     forDeletion, cachedEntries, todo, batch>>
  BY DEF BeginWrite, fillVars
<1>1. StoredKeys' = StoredKeys /\ \A k : ReadEntry(k)' = ReadEntry(k)
  BY <1>0 DEF StoredKeys, ReadEntry
<1>2. \A k : CommittedEntry(k)' = CommittedEntry(k)
  BY <1>1 DEF CommittedEntry
<1>3. TypeOK'
  BY <1>0 DEF IInv, TypeOK
<1>4. ActiveIffIndexed' /\ StoredOK' /\ LinkedList'
  BY <1>0, <1>1 DEF IInv, ActiveIffIndexed, StoredOK, LinkedList
<1>5. TasksOK' /\ LinkingOK' /\ SweepingOK'
  BY <1>0 DEF TasksOK, LinkingOK, SweepingOK
<1>6. FillingOK'
  <2>1. WillBeHot' = WillBeHot /\ WillBeNext' = WillBeNext
    BY <1>0 DEF WillBeHot, WillBeNext
  <2>2. \A k \in DOMAIN k2heMap' : HotEntryOK(k, k2heMap[k])'
    <3>1. \A k \in DOMAIN k2heMap : HotEntryOK(k, k2heMap[k])
      BY <1>0 DEF IInv, FillingOK
    <3>. QED
      BY <1>0, <1>2, <3>1 DEF HotEntryOK
  <2>3. Closed(WillBeHot, WillBeNext)'
    <3>1. Closed(WillBeHot, WillBeNext)
      BY <1>0 DEF IInv, FillingOK
    <3>. QED
      BY <1>0, <1>1, <2>1, <3>1 DEF Closed
  <2>4. Len(Idle.he) = 0
    BY DEF Idle
  <2>. QED
    BY <1>0, <1>1, <2>1, <2>2, <2>3, <2>4 DEF IInv, FillingOK
<1>. QED
  BY <1>3, <1>4, <1>5, <1>6 DEF IInv

\* Marking a hot entry with the first request for its key.
LEMMA MarkStep ==
    ASSUME IInv, phase = "marking", NEW k \in Keys, batch[k] = NoOp,
           NEW v \in Values \cup {NoValue},
           batch' = [batch EXCEPT ![k] = v],
           DOMAIN k2heMap' = DOMAIN k2heMap,
           k2heMap' \in [DOMAIN k2heMap -> HotEntry],
           \A j \in DOMAIN k2heMap : j # k => k2heMap'[j] = k2heMap[j],
           k \in DOMAIN k2heMap => HotEntryOK(k, k2heMap[k])',
           k \notin DOMAIN k2heMap => v = NoValue /\ k \notin StoredKeys,
           UNCHANGED <<phase, storeVars, k2nkMap, task, forUpdate, forDeletion, cachedEntries, todo>>
    PROVE  IInv'
<1>0. UNCHANGED <<currHeight, oldestActiveTwigID, idxTree, datTree>>
  BY DEF storeVars
<1>1. StoredKeys' = StoredKeys /\ \A j : ReadEntry(j)' = ReadEntry(j)
  BY <1>0 DEF StoredKeys, ReadEntry
<1>2. \A j : CommittedEntry(j)' = CommittedEntry(j)
  BY <1>1 DEF CommittedEntry
<1>b. /\ batch \in [Keys -> Values \cup {NoValue, NoOp}]
      /\ batch' \in [Keys -> Values \cup {NoValue, NoOp}] /\ batch'[k] = v
      /\ \A j \in Keys : j # k => batch'[j] = batch[j]
  BY DEF IInv, TypeOK
<1>3. TypeOK'
  BY <1>0, <1>b DEF IInv, TypeOK
<1>4. ActiveIffIndexed' /\ StoredOK' /\ LinkedList'
  BY <1>0, <1>1 DEF IInv, ActiveIffIndexed, StoredOK, LinkedList
<1>5. TasksOK' /\ LinkingOK' /\ SweepingOK'
  BY <1>0 DEF IInv, TasksOK, LinkingOK, SweepingOK
<1>6. FillingOK'
  <2>1. WillBeHot' = WillBeHot /\ WillBeNext' = WillBeNext
    BY DEF WillBeHot, WillBeNext
  <2>2. ASSUME NEW j \in DOMAIN k2heMap' PROVE HotEntryOK(j, k2heMap[j])'
    <3>1. CASE j = k
      BY <3>1
    <3>2. CASE j # k
      <4>1. HotEntryOK(j, k2heMap[j]) /\ k2heMap'[j] = k2heMap[j]
        BY <3>2 DEF IInv, FillingOK
      <4>2. j \in Keys => batch'[j] = batch[j]
        BY <1>b, <3>2
      <4>3. j \in forUpdate \/ j \in forDeletion => j \in Keys
        BY DEF IInv, TypeOK
      <4>. QED
        BY <1>2, <4>1, <4>2, <4>3 DEF HotEntryOK
    <3>. QED
      BY <3>1, <3>2
  <2>3. Closed(WillBeHot, WillBeNext)'
    <3>1. Closed(WillBeHot, WillBeNext)
      BY DEF IInv, FillingOK
    <3>. QED
      BY <1>1, <2>1, <3>1 DEF Closed
  <2>4. Len(Idle.he) = 0 /\ \A w \in Workers : task'[w] = Idle
    BY DEF Idle, IInv, TasksOK
  <2>5. ASSUME NEW j \in Keys \ DOMAIN k2heMap, batch'[j] # NoOp
        PROVE  batch'[j] = NoValue /\ j \notin StoredKeys
    BY <1>b, <2>5 DEF IInv, FillingOK
  <2>. QED
    BY <1>1, <2>1, <2>2, <2>3, <2>4, <2>5 DEF IInv, FillingOK
<1>. QED
  BY <1>3, <1>4, <1>5, <1>6 DEF IInv


\* Once the goroutines are joined, what was promised is in the maps.
LEMMA MarkingHot ==
    ASSUME IInv, phase = "marking"
    PROVE  /\ WillBeHot = DOMAIN k2heMap /\ WillBeNext = k2nkMap
           /\ Closed(DOMAIN k2heMap, k2nkMap)
           /\ k2nkMap \subseteq StoredKeys
           /\ \A k \in DOMAIN k2heMap : HotEntryOK(k, k2heMap[k])
<1>1. \A w \in Workers : task[w].nk = {} /\ 1..Len(task[w].he) = {}
  BY DEF IInv, TasksOK, Idle
<1>a. WillBeHot = DOMAIN k2heMap
  BY <1>1, Zenon DEF WillBeHot
<1>b. WillBeNext = k2nkMap
  BY <1>1 DEF WillBeNext
<1>2. WillBeHot = DOMAIN k2heMap /\ WillBeNext = k2nkMap
  BY <1>a, <1>b
<1>. QED
  BY <1>2 DEF IInv, FillingOK

LEMMA UnmarkedHot ==
    ASSUME IInv, phase = "marking", NEW k \in Keys, k \in DOMAIN k2heMap, batch[k] = NoOp
    PROVE  k2heMap[k] = MakeHot(CommittedEntry(k))
<1>1. HotEntryOK(k, k2heMap[k])
  BY MarkingHot
<1>. QED
  BY <1>1, ValueAssumption DEF HotEntryOK

LEMMA SetIInv ==
    ASSUME OneOpPerKey, IInv, NEW k \in Keys, NEW v \in Values, Set(k, v)
    PROVE  IInv'
<1>0. /\ phase = "marking" /\ k \in forUpdate /\ batch[k] = NoOp
      /\ k2heMap' = [k2heMap EXCEPT ![k] =
                    [@ EXCEPT !.op = OpInsertOrChange, !.entry.value = v]]
      /\ batch' = [batch EXCEPT ![k] = v]
      /\ UNCHANGED <<phase, storeVars, k2nkMap, task, forUpdate, forDeletion, cachedEntries, todo>>
  BY DEF Set
<1>1. k \in DOMAIN k2heMap /\ k \in AllKeys
  BY <1>0, MarkingHot DEF Closed, AllKeys
<1>2. k2heMap[k] = MakeHot(CommittedEntry(k))
  BY <1>0, <1>1, UnmarkedHot
<1>3. k2heMap \in [DOMAIN k2heMap -> HotEntry] /\ batch \in [Keys -> Values \cup {NoValue, NoOp}]
  BY DEF IInv, TypeOK
<1> DEFINE h == [MakeHot(CommittedEntry(k)) EXCEPT !.op = OpInsertOrChange, !.entry.value = v]
<1>4. h \in HotEntry /\ h.isModified = FALSE /\ h.isTouchedByNext = FALSE
  <2>1. CommittedEntry(k) \in Entry
    BY <1>1, CommittedHotType DEF IInv
  <2>. QED
    BY <2>1 DEF MakeHot, HotEntry, Entry, OpInsertOrChange, OpNone
<1>5. k2heMap' = [k2heMap EXCEPT ![k] = h]
  BY <1>0, <1>2, Zenon
<1>6. /\ DOMAIN k2heMap' = DOMAIN k2heMap
      /\ k2heMap' \in [DOMAIN k2heMap -> HotEntry]
      /\ \A j \in DOMAIN k2heMap : j # k => k2heMap'[j] = k2heMap[j]
      /\ k2heMap'[k] = h
  <2>. HIDE DEF h
  <2>. QED
    BY <1>1, <1>3, <1>4, <1>5
<1>7. HotEntryOK(k, k2heMap[k])'
  <2>1. CommittedEntry(k)' = CommittedEntry(k)
    BY <1>0 DEF CommittedEntry, ReadEntry, StoredKeys, storeVars
  <2>2. batch'[k] = v /\ k \in forUpdate'
    BY <1>0, <1>3
  <2>3. k2heMap'[k] = [MakeHot(CommittedEntry(k)') EXCEPT !.op = OpInsertOrChange, !.entry.value = batch'[k]]
    BY <1>6, <2>1, <2>2
  <2>4. k2heMap'[k].isModified = FALSE /\ k2heMap'[k].isTouchedByNext = FALSE
    BY <1>4, <1>6
  <2>. QED
    BY <2>2, <2>3, <2>4 DEF HotEntryOK
<1>. QED
  BY <1>0, <1>1, <1>6, <1>7, MarkStep

LEMMA DeleteIInv ==
    ASSUME OneOpPerKey, IInv, NEW k \in Keys, Delete(k)
    PROVE  IInv'
<1>0. /\ phase = "marking" /\ k \in forDeletion /\ batch[k] = NoOp
      /\ k2heMap' = IF k \in DOMAIN k2heMap
                  THEN [k2heMap EXCEPT ![k].op = OpDelete]
                  ELSE k2heMap
      /\ batch' = [batch EXCEPT ![k] = NoValue]
      /\ UNCHANGED <<phase, storeVars, k2nkMap, task, forUpdate, forDeletion, cachedEntries, todo>>
  BY DEF Delete
<1>3. k2heMap \in [DOMAIN k2heMap -> HotEntry] /\ batch \in [Keys -> Values \cup {NoValue, NoOp}]
  BY DEF IInv, TypeOK
<1>1. CASE k \in DOMAIN k2heMap
  <2>1. k \in AllKeys /\ CommittedEntry(k) \in Entry
    BY CommittedHotType DEF AllKeys, IInv
  <2>2. k2heMap[k] = MakeHot(CommittedEntry(k))
    BY <1>0, <1>1, UnmarkedHot
  <2> DEFINE h == [MakeHot(CommittedEntry(k)) EXCEPT !.op = OpDelete]
  <2>4. h \in HotEntry /\ h.isModified = FALSE /\ h.isTouchedByNext = FALSE
    BY <2>1 DEF MakeHot, HotEntry, OpDelete, OpNone
  <2>5. k2heMap' = [k2heMap EXCEPT ![k] = h]
    BY <1>0, <1>1, <1>3, <2>2 DEF MakeHot
  <2>6. /\ DOMAIN k2heMap' = DOMAIN k2heMap
        /\ k2heMap' \in [DOMAIN k2heMap -> HotEntry]
        /\ \A j \in DOMAIN k2heMap : j # k => k2heMap'[j] = k2heMap[j]
        /\ k2heMap'[k] = h
    <3>. HIDE DEF h
    <3>. QED
      BY <1>1, <1>3, <2>4, <2>5
  <2>7. HotEntryOK(k, k2heMap[k])'
    <3>1. CommittedEntry(k)' = CommittedEntry(k)
      BY <1>0 DEF CommittedEntry, ReadEntry, StoredKeys, storeVars
    <3>2. batch'[k] = NoValue /\ k \in forDeletion'
      BY <1>0, <1>3
    <3>3. k2heMap'[k] = [MakeHot(CommittedEntry(k)') EXCEPT !.op = OpDelete]
      BY <2>6, <3>1
    <3>4. k2heMap'[k].isModified = FALSE /\ k2heMap'[k].isTouchedByNext = FALSE
      BY <2>4, <2>6
    <3>. QED
      BY <3>2, <3>3, <3>4 DEF HotEntryOK
  <2>. QED
    BY <1>0, <1>1, <2>6, <2>7, MarkStep
<1>2. CASE k \notin DOMAIN k2heMap
  <2>1. k \notin StoredKeys
    BY <1>0, <1>2, MarkingHot DEF Closed
  <2>. QED
    BY <1>0, <1>2, <1>3, <2>1, MarkStep
<1>. QED
  BY <1>1, <1>2

-----------------------------------------------------------------------------
(* Linking *)

\* What is known of a hot entry when the marking phase ends.
LEMMA HotFacts ==
    ASSUME IInv, NEW k \in AllKeys, NEW h, HotEntryOK(k, h)
    PROVE  /\ h \in HotEntry
           /\ h.entry.key = k
           /\ ~h.isModified /\ ~h.isTouchedByNext
           /\ h.entry.nextKey = CommittedEntry(k).nextKey
           /\ h.entry.serialNum = CommittedEntry(k).serialNum
           /\ k \in StoredKeys => h.entry.serialNum = idxTree[k] /\ h.entry.serialNum >= 0
           /\ k \notin StoredKeys => /\ h.entry.serialNum = InsertedSN
                                     /\ h.op = OpInsertOrChange <=> h.entry.value # NoValue
           /\ h.op = OpInsertOrChange => /\ k \in forUpdate /\ h.entry.value \in Values
                                         /\ h.entry.value = batch[k]
           /\ h.op = OpDelete => k \in forDeletion /\ batch[k] = NoValue
           /\ h.op # OpInsertOrChange => h.entry = CommittedEntry(k)
           /\ h.op = OpNone /\ k \in Keys => batch[k] = NoOp
<1> DEFINE c == CommittedEntry(k)
<1>1. /\ c \in Entry /\ c.key = k /\ MakeHot(c) \in HotEntry
      /\ k \in StoredKeys => c.serialNum = idxTree[k] /\ idxTree[k] \in Nat
      /\ k \notin StoredKeys => c = InsertedEntry(k)
  BY CommittedHotType DEF IInv
<1>2. k \notin StoredKeys => c.serialNum = InsertedSN /\ c.value = NoValue
  BY <1>1 DEF InsertedEntry
<1>. HIDE DEF c
<1>3. CASE h = MakeHot(c) /\ (k \in Keys => batch[k] = NoOp)
  <2>1. h.entry = c /\ h.op = OpNone /\ h.isModified = FALSE /\ h.isTouchedByNext = FALSE
    BY <1>3 DEF MakeHot
  <2>. QED
    BY <1>1, <1>2, <1>3, <2>1 DEF c, OpNone, OpInsertOrChange, OpDelete
<1>4. CASE /\ k \in forDeletion /\ batch[k] = NoValue
           /\ h = [MakeHot(c) EXCEPT !.op = OpDelete]
  <2>1. h = [entry |-> c, op |-> OpDelete, isModified |-> FALSE, isTouchedByNext |-> FALSE]
    BY <1>4 DEF MakeHot
  <2>2. h.entry = c /\ h.op = OpDelete /\ h.isModified = FALSE /\ h.isTouchedByNext = FALSE
    BY <2>1
  <2>3. h \in HotEntry
    BY <1>1, <2>1 DEF HotEntry, OpDelete
  <2>. QED
    BY <1>1, <1>2, <1>4, <2>2, <2>3 DEF c, OpNone, OpInsertOrChange, OpDelete
<1>5. CASE /\ k \in forUpdate /\ batch[k] \in Values
           /\ h = [MakeHot(c) EXCEPT !.op = OpInsertOrChange, !.entry.value = batch[k]]
  <2>1. h = [entry |-> [c EXCEPT !.value = batch[k]], op |-> OpInsertOrChange,
             isModified |-> FALSE, isTouchedByNext |-> FALSE]
    BY <1>5 DEF MakeHot
  <2>2. /\ h.entry = [c EXCEPT !.value = batch[k]]
        /\ h.op = OpInsertOrChange /\ h.isModified = FALSE /\ h.isTouchedByNext = FALSE
    BY <2>1
  <2>3. /\ h.entry \in Entry /\ h.entry.key = c.key /\ h.entry.value = batch[k]
        /\ h.entry.nextKey = c.nextKey /\ h.entry.serialNum = c.serialNum
    BY <1>1, <1>5, <2>2 DEF Entry
  <2>4. h \in HotEntry
    BY <2>1, <2>2, <2>3 DEF HotEntry, OpInsertOrChange
  <2>5. h.entry.value # NoValue
    BY <1>5, <2>3, ValueAssumption
  <2>. QED
    BY <1>1, <1>2, <1>5, <2>2, <2>3, <2>4, <2>5 DEF c, OpNone, OpInsertOrChange, OpDelete
<1>. QED
  BY <1>3, <1>4, <1>5 DEF HotEntryOK, c

LEMMA GatherIInv ==
    ASSUME IInv, Gather
    PROVE  IInv'
<1> DEFINE C == DOMAIN k2heMap \cup k2nkMap
<1>0. /\ phase = "marking" /\ phase' = "linking"
      /\ cachedEntries' = [k \in C |-> IF k \in DOMAIN k2heMap THEN k2heMap[k] ELSE MakeHintHotEntry(k)]
      /\ todo' = C /\ batch' = [k \in Keys |-> NoOp]
      /\ UNCHANGED <<currHeight, oldestActiveTwigID, idxTree, datTree, k2heMap, k2nkMap, task,
                     forUpdate, forDeletion>>
  BY DEF Gather, storeVars, fillVars
<1>1. StoredKeys' = StoredKeys /\ \A k : ReadEntry(k)' = ReadEntry(k)
  BY <1>0 DEF StoredKeys, ReadEntry
<1>2. /\ DOMAIN k2heMap \subseteq AllKeys /\ k2nkMap \subseteq StoredKeys /\ StoredKeys \subseteq AllKeys
      /\ Closed(DOMAIN k2heMap, k2nkMap)
      /\ \A k \in DOMAIN k2heMap : HotEntryOK(k, k2heMap[k])
  BY <1>0, MarkingHot DEF IInv, TypeOK, StoredKeys
<1>3. C \subseteq AllKeys /\ DOMAIN cachedEntries' = C
  BY <1>0, <1>2
<1>4. ASSUME NEW k \in C, k \notin DOMAIN k2heMap
      PROVE  LET h == cachedEntries'[k]
             IN  /\ h \in HotEntry /\ h.entry.key = k /\ h.entry.serialNum = HintSN
                 /\ h.op = OpNone /\ h.isModified = FALSE /\ h.isTouchedByNext = FALSE
                 /\ ~(h.entry.serialNum >= 0) /\ h.entry.serialNum # InsertedSN
                 /\ k \in StoredKeys
  <2>1. cachedEntries'[k] = MakeHintHotEntry(k) /\ k \in AllKeys /\ k \in StoredKeys
    BY <1>0, <1>2, <1>3, <1>4
  <2>. QED
    BY <2>1 DEF MakeHintHotEntry, MakeHot, HotEntry, Entry, HintSN, InsertedSN, OpNone
<1>5. ASSUME NEW k \in DOMAIN k2heMap
      PROVE  cachedEntries'[k] = k2heMap[k] /\ k \in AllKeys /\ HotEntryOK(k, cachedEntries'[k])
  BY <1>0, <1>2
<1>6. TypeOK'
  <2>1. ASSUME NEW k \in C PROVE cachedEntries'[k] \in HotEntry
    BY <1>4, <1>5, HotFacts
  <2>2. cachedEntries' \in [C -> HotEntry]
    BY <1>0, <2>1
  <2>3. batch' \in [Keys -> Values \cup {NoValue, NoOp}]
    BY <1>0
  <2>. QED
    BY <1>0, <1>3, <2>2, <2>3 DEF IInv, TypeOK
<1>7. ActiveIffIndexed' /\ StoredOK' /\ LinkedList'
  BY <1>0, <1>1 DEF IInv, ActiveIffIndexed, StoredOK, LinkedList
<1>8. TasksOK' /\ FillingOK' /\ SweepingOK'
  BY <1>0 DEF IInv, TasksOK, FillingOK, SweepingOK
<1>9. LinkingOK'
  <2>1. CachedOK(C)'
    <3>1. ASSUME NEW k \in C
          PROVE LET h == cachedEntries'[k]
                IN  /\ h.entry.key = k
                    /\ h.entry.serialNum >= 0 => k \in StoredKeys /\ h.entry.serialNum = idxTree[k]
                    /\ h.entry.serialNum < 0 =>
                          \/ /\ IsHintHotEntry(h) /\ k \in StoredKeys
                             /\ h.op = OpNone /\ ~h.isTouchedByNext /\ ~h.isModified
                          \/ /\ h.entry.serialNum = InsertedSN /\ k \notin StoredKeys
                             /\ h.op = OpInsertOrChange <=> h.entry.value # NoValue
                             /\ h.op # OpInsertOrChange => ~h.isTouchedByNext /\ ~h.isModified
                    /\ h.op = OpInsertOrChange => h.entry.value \in Values
                    /\ h.op # OpNone => k \in Keys
                    /\ h.op = OpNone /\ h.entry.serialNum >= 0 => h.entry.value = ReadEntry(k).value
      <4>1. CASE k \notin DOMAIN k2heMap
        <5> DEFINE h == cachedEntries'[k]
        <5>1. /\ h.entry.key = k /\ h.entry.serialNum = HintSN /\ ~(h.entry.serialNum >= 0)
              /\ h.op = OpNone /\ h.isModified = FALSE /\ h.isTouchedByNext = FALSE
              /\ k \in StoredKeys
          BY <1>4, <4>1
        <5>2. OpNone # OpInsertOrChange
          BY DEF OpNone, OpInsertOrChange
        <5>. HIDE DEF h
        <5>3. h.op # OpInsertOrChange /\ ~h.isModified /\ ~h.isTouchedByNext /\ IsHintHotEntry(h)
          BY <5>1, <5>2, Zenon DEF IsHintHotEntry
        <5>. QED
          BY <5>1, <5>3, Zenon DEF h
      <4>2. CASE k \in DOMAIN k2heMap
        <5> DEFINE h == cachedEntries'[k]
        <5>1. HotEntryOK(k, h) /\ k \in AllKeys
          BY <1>5, <4>2
        <5>. HIDE DEF h
        <5>2. /\ h \in HotEntry
              /\ h.entry.key = k
              /\ ~h.isModified /\ ~h.isTouchedByNext
              /\ k \in StoredKeys => h.entry.serialNum = idxTree[k] /\ h.entry.serialNum >= 0
              /\ k \notin StoredKeys => /\ h.entry.serialNum = InsertedSN
                                        /\ h.op = OpInsertOrChange <=> h.entry.value # NoValue
              /\ h.op = OpInsertOrChange => k \in forUpdate /\ h.entry.value \in Values
              /\ h.op = OpDelete => k \in forDeletion
              /\ h.op # OpInsertOrChange => h.entry = CommittedEntry(k)
          BY <5>1, HotFacts
        <5>3. h.op \in {OpNone, OpInsertOrChange, OpDelete} /\ forUpdate \subseteq Keys /\ forDeletion \subseteq Keys
          BY <5>2 DEF HotEntry, IInv, TypeOK
        <5>4. k \in StoredKeys => CommittedEntry(k) = ReadEntry(k)
          BY DEF CommittedEntry
        <5>5. h.entry.serialNum >= 0 => k \in StoredKeys
          BY <5>2 DEF InsertedSN
        <5>6. OpNone # OpInsertOrChange /\ OpDelete # OpInsertOrChange /\ OpNone # OpDelete
          BY DEF OpNone, OpInsertOrChange, OpDelete
        <5>7. h.op # OpNone => k \in Keys
          BY <5>2, <5>3
        <5>8. h.op = OpNone /\ h.entry.serialNum >= 0 => h.entry.value = ReadEntry(k).value
          BY <5>2, <5>4, <5>5, <5>6
        <5>9. h.entry.serialNum < 0 => k \notin StoredKeys
          BY <5>2, <5>3 DEF HotEntry, Entry
        <5>. QED
          BY <5>2, <5>5, <5>7, <5>8, <5>9, Zenon DEF h
      <4>. QED
        BY <4>1, <4>2
    <3>. QED
      BY <3>1, <1>0, <1>1 DEF CachedOK
  <2>2. ASSUME NEW k \in C, cachedEntries'[k].entry.serialNum = InsertedSN
        PROVE  /\ PredOf(StoredKeys, k) \in C
               /\ ~IsHintHotEntry(cachedEntries'[PredOf(StoredKeys, k)])
               /\ SuccOf(StoredKeys, PredOf(StoredKeys, k)) \in C
    <3>1. k \in DOMAIN k2heMap /\ k \notin StoredKeys
      <4>1. k \in DOMAIN k2heMap
        BY <1>4, <2>2
      <4>. QED
        BY <1>5, <2>2, <4>1, HotFacts DEF InsertedSN
    <3>2. k \in forUpdate /\ PredOf(StoredKeys, k) \in DOMAIN k2heMap
          /\ SuccOf(StoredKeys, PredOf(StoredKeys, k)) \in k2nkMap
      BY <1>2, <3>1 DEF Closed
    <3> DEFINE p == PredOf(StoredKeys, k)
    <3>3. p \in StoredKeys
      <4>1. k \in Keys
        BY <3>2 DEF IInv, TypeOK
      <4>. QED
        BY <1>0, <4>1, StoredNeighbours
    <3>4. cachedEntries'[p].entry.serialNum >= 0
      BY <1>5, <3>2, <3>3, HotFacts
    <3>. QED
      BY <3>2, <3>4 DEF IsHintHotEntry, HintSN
  <2>3. ASSUME NEW k \in C, IsRemoval(cachedEntries'[k])
        PROVE  /\ PredOf(StoredKeys, k) \in C
               /\ ~IsHintHotEntry(cachedEntries'[PredOf(StoredKeys, k)])
               /\ SuccOf(StoredKeys, k) \in C
    <3>1. k \in DOMAIN k2heMap /\ k \in StoredKeys /\ k \in forDeletion
      <4>1. k \in DOMAIN k2heMap
        BY <1>4, <2>3 DEF IsRemoval
      <4>. QED
        BY <1>5, <2>3, <4>1, HotFacts DEF InsertedSN, IsRemoval
    <3>2. PredOf(StoredKeys, k) \in DOMAIN k2heMap /\ SuccOf(StoredKeys, k) \in k2nkMap
      BY <1>2, <3>1 DEF Closed
    <3> DEFINE p == PredOf(StoredKeys, k)
    <3>3. p \in StoredKeys
      <4>1. k \in Keys
        BY <3>1 DEF IInv, TypeOK
      <4>. QED
        BY <1>0, <4>1, StoredNeighbours
    <3>4. cachedEntries'[p].entry.serialNum >= 0
      BY <1>5, <3>2, <3>3, HotFacts
    <3>. QED
      BY <3>2, <3>4 DEF IsHintHotEntry, HintSN
  <2>4. ASSUME NEW k \in C
        PROVE  /\ ~cachedEntries'[k].isTouchedByNext /\ ~cachedEntries'[k].isModified
               /\ cachedEntries'[k].entry.serialNum >= 0 =>
                     cachedEntries'[k].entry.nextKey = ReadEntry(k).nextKey
    <3>1. CASE k \notin DOMAIN k2heMap
      <4>1. /\ cachedEntries'[k].isTouchedByNext = FALSE /\ cachedEntries'[k].isModified = FALSE
            /\ ~(cachedEntries'[k].entry.serialNum >= 0)
        BY <1>4, <3>1
      <4>. QED
        BY <4>1, Zenon
    <3>2. CASE k \in DOMAIN k2heMap
      <4>1. /\ ~cachedEntries'[k].isTouchedByNext /\ ~cachedEntries'[k].isModified
            /\ cachedEntries'[k].entry.nextKey = CommittedEntry(k).nextKey
            /\ cachedEntries'[k].entry.serialNum >= 0 => k \in StoredKeys
        BY <1>5, <3>2, HotFacts DEF InsertedSN
      <4>. QED
        BY <4>1 DEF CommittedEntry
    <3>. QED
      BY <3>1, <3>2
  <2>. QED
    BY <1>0, <1>1, <1>3, <2>1, <2>2, <2>3, <2>4 DEF LinkingOK
<1>. QED
  BY <1>6, <1>7, <1>8, <1>9 DEF IInv


\* The keys of a block as sets: S stored, R removed from it, I inserted, C cached, H the
\* cached keys that are no hints, F stored in the end; every change has its stored neighbours at hand.
Surrounded(S, R, I, C, H, F) ==
    /\ F = (S \ R) \cup I
    /\ S \subseteq AllKeys /\ C \subseteq AllKeys
    /\ R \subseteq S \cap C /\ I \subseteq H /\ H \subseteq C /\ I \cap S = {}
    /\ {StartKey, EndKey} \subseteq S \ R
    /\ \A k \in I : PredOf(S, k) \in H /\ SuccOf(S, PredOf(S, k)) \in C
    /\ \A k \in R : PredOf(S, k) \in H /\ SuccOf(S, k) \in C

\* A changed key has neighbours among the final keys, the guards at the latest.
LEMMA FinalNeighbours ==
    ASSUME NEW S, NEW R, NEW I, NEW C, NEW H, NEW F, Surrounded(S, R, I, C, H, F),
           NEW k \in I \cup R
    PROVE  /\ F \in SUBSET AllKeys /\ k \in Keys /\ k \in AllKeys
           /\ PredOf(F, k) \in F /\ PredOf(F, k) < k
           /\ \A i \in F : i < k => i <= PredOf(F, k)
           /\ SuccOf(F, k) \in F /\ k < SuccOf(F, k)
           /\ \A i \in F : k < i => SuccOf(F, k) <= i
<1>1. F \in SUBSET AllKeys /\ k \in AllKeys /\ StartKey \in F /\ EndKey \in F
  BY DEF Surrounded
<1>2. k # StartKey /\ k # EndKey
  BY DEF Surrounded
<1>3. k \in Keys /\ StartKey < k /\ k < EndKey
  BY <1>1, <1>2, KeyAssumption DEF AllKeys
<1>4. Below(F, k) # {} /\ Above(F, k) # {}
  BY <1>1, <1>3 DEF Below, Above
<1>. QED
  BY <1>1, <1>3, <1>4, PredProp, SuccProp

\* The final predecessor of a changed key is hot: linking finds it, and it is no hint.
LEMMA FinalPredIsHot ==
    ASSUME NEW S, NEW R, NEW I, NEW C, NEW H, NEW F, Surrounded(S, R, I, C, H, F),
           NEW k \in I \cup R
    PROVE  PredOf(F, k) \in H
<1> DEFINE p == PredOf(F, k)
<1>1. /\ F \in SUBSET AllKeys /\ k \in AllKeys /\ p \in F /\ p < k
      /\ \A i \in F : i < k => i <= p
  BY FinalNeighbours
<1>2. F = (S \ R) \cup I /\ S \in SUBSET AllKeys /\ AllKeys \subseteq Int /\ I \cap S = {} /\ I \subseteq H
  BY KeysAreInts DEF Surrounded
<1>. HIDE DEF p
<1>3. CASE p \in I
  BY <1>2, <1>3 DEF p
<1>4. CASE p \notin I
  <2>1. p \in S
    BY <1>1, <1>2, <1>4
  <2> DEFINE Q == {q \in S : p < q /\ q <= k}
  <2>2. \A q \in Q : q \in R
    <3>. SUFFICES ASSUME NEW q \in Q, q \notin R PROVE FALSE
      OBVIOUS
    <3>1. q \in F /\ q \in S
      BY <1>2
    <3>2. q # k
      BY <3>1, <1>2
    <3>3. q \in Int /\ k \in Int /\ p \in Int
      BY <3>1, <1>1, <1>2
    <3>4. q < k
      BY <3>2, <3>3
    <3>. QED
      BY <1>1, <3>1, <3>3, <3>4
  <2>3. CASE Q = {}
    <3>1. k \notin S
      BY <1>1, <1>2, <2>3
    <3>2. k \in I
      BY <3>1 DEF Surrounded
    <3>3. \A i \in S : i < k => i <= p
      BY <1>1, <1>2, <2>3
    <3>4. PredOf(S, k) = p
      BY <1>1, <1>2, <2>1, <3>3, PredUnique
    <3>. QED
      BY <3>2, <3>4 DEF Surrounded, p
  <2>4. CASE Q # {}
    <3> DEFINE q == Least(Q)
    <3>1. Q \in SUBSET AllKeys
      BY <1>2
    <3>2. q \in Q /\ \A i \in Q : q <= i
      BY <2>4, <3>1, LeastProp
    <3>3. q \in S /\ p < q /\ q <= k /\ q \in R
      BY <2>2, <3>2
    <3>. HIDE DEF q
    <3>4. \A i \in S : i < q => i <= p
      <4>. SUFFICES ASSUME NEW i \in S, i < q, ~(i <= p) PROVE FALSE
        OBVIOUS
      <4>1. i \in Int /\ p \in Int /\ q \in Int /\ k \in Int
        BY <1>1, <1>2, <3>3
      <4>2. p < i /\ i <= k
        BY <3>3, <4>1
      <4>3. q <= i
        BY <3>2, <4>2
      <4>. QED
        BY <4>1, <4>3
    <3>5. q \in AllKeys
      BY <1>2, <3>3
    <3>6. PredOf(S, q) = p
      BY <1>2, <2>1, <3>3, <3>4, <3>5, PredUnique
    <3>. QED
      BY <3>3, <3>6 DEF Surrounded, p
  <2>. QED
    BY <2>3, <2>4
<1>. QED
  BY <1>3, <1>4

\* The final successor of a changed key is cached, as a hot entry or as a hint.
LEMMA FinalSuccIsCached ==
    ASSUME NEW S, NEW R, NEW I, NEW C, NEW H, NEW F, Surrounded(S, R, I, C, H, F),
           NEW k \in I \cup R
    PROVE  SuccOf(F, k) \in C
<1> DEFINE s == SuccOf(F, k)
<1>1. /\ F \in SUBSET AllKeys /\ k \in AllKeys /\ k \in Keys /\ s \in F /\ k < s
      /\ \A i \in F : k < i => s <= i
  BY FinalNeighbours
<1>2. F = (S \ R) \cup I /\ S \in SUBSET AllKeys /\ AllKeys \subseteq Int /\ I \cap S = {}
      /\ I \subseteq C /\ StartKey \in S
  BY KeysAreInts DEF Surrounded
<1>. HIDE DEF s
<1>3. CASE s \in I
  BY <1>2, <1>3 DEF s
<1>4. CASE s \notin I
  <2>1. s \in S
    BY <1>1, <1>2, <1>4
  <2> DEFINE Q == {q \in S : k <= q /\ q < s}
  <2>2. \A q \in Q : q \in R
    <3>. SUFFICES ASSUME NEW q \in Q, q \notin R PROVE FALSE
      OBVIOUS
    <3>1. q \in F /\ q \in S
      BY <1>2
    <3>2. q # k
      BY <3>1, <1>2
    <3>3. q \in Int /\ k \in Int /\ s \in Int
      BY <3>1, <1>1, <1>2
    <3>4. k < q
      BY <3>2, <3>3
    <3>. QED
      BY <1>1, <3>1, <3>3, <3>4
  <2>3. CASE Q = {}
    <3>1. k \notin S
      BY <1>1, <1>2, <2>3
    <3>2. k \in I
      BY <3>1 DEF Surrounded
    <3> DEFINE p == PredOf(S, k)
    <3>3. StartKey \in Below(S, k)
      BY <1>1, <1>2, KeyAssumption DEF Below
    <3>4. p \in S /\ p < k /\ \A i \in S : i < k => i <= p
      BY <1>1, <1>2, <3>3, PredProp
    <3>. HIDE DEF p
    <3>5. \A i \in S : p < i => s <= i
      <4>. SUFFICES ASSUME NEW i \in S, p < i, ~(s <= i) PROVE FALSE
        OBVIOUS
      <4>1. i \in Int /\ p \in Int /\ s \in Int /\ k \in Int
        BY <1>1, <1>2, <3>4
      <4>2. ~(i < k)
        BY <3>4, <4>1
      <4>. QED
        BY <2>3, <4>1, <4>2
    <3>6. p < s /\ p \in AllKeys
      BY <1>1, <1>2, <3>4
    <3>7. SuccOf(S, p) = s
      BY <1>2, <2>1, <3>5, <3>6, SuccUnique
    <3>. QED
      BY <3>2, <3>7 DEF Surrounded, p, s
  <2>4. CASE Q # {}
    <3> DEFINE q == Greatest(Q)
    <3>1. Q \in SUBSET AllKeys
      BY <1>2
    <3>2. q \in Q /\ \A i \in Q : i <= q
      BY <2>4, <3>1, GreatestProp
    <3>3. q \in S /\ k <= q /\ q < s /\ q \in R
      BY <2>2, <3>2
    <3>. HIDE DEF q
    <3>4. \A i \in S : q < i => s <= i
      <4>. SUFFICES ASSUME NEW i \in S, q < i, ~(s <= i) PROVE FALSE
        OBVIOUS
      <4>1. i \in Int /\ s \in Int /\ q \in Int /\ k \in Int
        BY <1>1, <1>2, <3>3
      <4>2. k <= i /\ i < s
        BY <3>3, <4>1
      <4>3. i <= q
        BY <3>2, <4>2
      <4>. QED
        BY <4>1, <4>3
    <3>5. q \in AllKeys
      BY <1>2, <3>3
    <3>6. SuccOf(S, q) = s
      BY <1>2, <2>1, <3>3, <3>4, <3>5, SuccUnique
    <3>. QED
      BY <3>3, <3>6 DEF Surrounded, s
  <2>. QED
    BY <2>3, <2>4
<1>. QED
  BY <1>3, <1>4

RemovedKeys == {k \in DOMAIN cachedEntries : IsRemoval(cachedEntries[k])}
InsertedKeys == {k \in DOMAIN cachedEntries : IsInserted(cachedEntries[k])}
HotKeys == {k \in DOMAIN cachedEntries : ~IsHintHotEntry(cachedEntries[k])}

\* What CachedOK says of one entry, with its type.
LEMMA CachedFacts ==
    ASSUME TypeOK, NEW T \in SUBSET DOMAIN cachedEntries, CachedOK(T), NEW k \in T
    PROVE  /\ k \in AllKeys /\ cachedEntries[k] \in HotEntry
           /\ cachedEntries[k].entry \in Entry
           /\ cachedEntries[k].entry.serialNum \in Int
           /\ cachedEntries[k].op \in {OpNone, OpInsertOrChange, OpDelete}
           /\ cachedEntries[k].isModified \in BOOLEAN
           /\ cachedEntries[k].isTouchedByNext \in BOOLEAN
           /\ cachedEntries[k].entry.key = k
           /\ IsRemoval(cachedEntries[k]) => k \in StoredKeys /\ k \in Keys
           /\ IsInserted(cachedEntries[k]) =>
                 /\ k \notin StoredKeys /\ k \in Keys
                 /\ ~IsHintHotEntry(cachedEntries[k])
                 /\ cachedEntries[k].entry.value \in Values
           /\ IsHintHotEntry(cachedEntries[k]) =>
                 /\ k \in StoredKeys /\ cachedEntries[k].op = OpNone
           /\ cachedEntries[k].entry.serialNum >= 0 => k \in StoredKeys
           /\ cachedEntries[k].entry.serialNum < 0 /\ ~IsHintHotEntry(cachedEntries[k]) =>
                 /\ cachedEntries[k].entry.serialNum = InsertedSN
                 /\ k \notin StoredKeys
                 /\ cachedEntries[k].op = OpInsertOrChange <=> cachedEntries[k].entry.value # NoValue
<1> DEFINE h == cachedEntries[k]
<1>1. k \in DOMAIN cachedEntries /\ k \in AllKeys /\ h \in HotEntry
  BY DEF TypeOK
<1>2. /\ h.entry \in Entry /\ h.entry.serialNum \in Int
      /\ h.op \in {OpNone, OpInsertOrChange, OpDelete}
      /\ h.isModified \in BOOLEAN /\ h.isTouchedByNext \in BOOLEAN
  BY <1>1 DEF HotEntry, Entry
<1>3. /\ h.entry.key = k
      /\ h.entry.serialNum >= 0 => k \in StoredKeys /\ h.entry.serialNum = idxTree[k]
      /\ h.entry.serialNum < 0 =>
            \/ /\ IsHintHotEntry(h) /\ k \in StoredKeys
               /\ h.op = OpNone /\ ~h.isTouchedByNext /\ ~h.isModified
            \/ /\ h.entry.serialNum = InsertedSN /\ k \notin StoredKeys
               /\ h.op = OpInsertOrChange <=> h.entry.value # NoValue
               /\ h.op # OpInsertOrChange => ~h.isTouchedByNext /\ ~h.isModified
      /\ h.op = OpInsertOrChange => h.entry.value \in Values
      /\ h.op # OpNone => k \in Keys
  BY DEF CachedOK
<1>. HIDE DEF h
<1>4. OpNone # OpInsertOrChange /\ OpDelete # OpInsertOrChange /\ OpNone # OpDelete
  BY DEF OpNone, OpInsertOrChange, OpDelete
<1>5. IsRemoval(h) => k \in StoredKeys /\ k \in Keys
  BY <1>3, <1>4 DEF IsRemoval
<1>6. IsHintHotEntry(h) => k \in StoredKeys /\ h.op = OpNone
  BY <1>3 DEF IsHintHotEntry, HintSN, InsertedSN
<1>7. IsInserted(h) => k \notin StoredKeys /\ k \in Keys /\ ~IsHintHotEntry(h) /\ h.entry.value \in Values
  BY <1>3, <1>4 DEF IsInserted, IsHintHotEntry, HintSN, InsertedSN
<1>. QED
  BY <1>1, <1>2, <1>3, <1>5, <1>6, <1>7 DEF h

\* The first loop has the neighbours of every changed key at hand; the entries getPrev and
\* getNext stop at are the ones of keys that stay or come.
LEMMA LinkSurrounded ==
    ASSUME IInv, phase = "linking"
    PROVE  /\ Surrounded(StoredKeys, RemovedKeys, InsertedKeys, DOMAIN cachedEntries, HotKeys, FinalKeys)
           /\ LiveKeys = DOMAIN cachedEntries \cap FinalKeys
<1> DEFINE C == DOMAIN cachedEntries
<1>1. TypeOK /\ CachedOK(C) /\ {StartKey, EndKey} \subseteq StoredKeys
  BY DEF IInv, LinkingOK, StoredOK
<1>2. /\ \A k \in C : cachedEntries[k].entry.serialNum = InsertedSN =>
            /\ PredOf(StoredKeys, k) \in HotKeys
            /\ SuccOf(StoredKeys, PredOf(StoredKeys, k)) \in C
      /\ \A k \in C : IsRemoval(cachedEntries[k]) =>
            /\ PredOf(StoredKeys, k) \in HotKeys
            /\ SuccOf(StoredKeys, k) \in C
  BY DEF IInv, LinkingOK, HotKeys
<1>3. C \subseteq AllKeys /\ StoredKeys \subseteq AllKeys
  BY <1>1 DEF TypeOK, StoredKeys
<1>4. FinalKeys = (StoredKeys \ RemovedKeys) \cup InsertedKeys
  BY DEF FinalKeys, Pending, RemovedKeys, InsertedKeys
<1>5. /\ RemovedKeys \subseteq StoredKeys \cap C /\ RemovedKeys \subseteq Keys
      /\ InsertedKeys \subseteq HotKeys /\ HotKeys \subseteq C /\ InsertedKeys \cap StoredKeys = {}
  BY <1>1, CachedFacts DEF RemovedKeys, InsertedKeys, HotKeys
<1>6. {StartKey, EndKey} \subseteq StoredKeys \ RemovedKeys
  BY <1>1, <1>5, KeyAssumption
<1>7. \A k \in InsertedKeys : cachedEntries[k].entry.serialNum = InsertedSN
  BY DEF InsertedKeys, IsInserted
<1>8. Surrounded(StoredKeys, RemovedKeys, InsertedKeys, C, HotKeys, FinalKeys)
  BY <1>2, <1>3, <1>4, <1>5, <1>6, <1>7 DEF Surrounded, RemovedKeys, InsertedKeys
<1>9. ASSUME NEW k \in C PROVE IsLive(cachedEntries[k]) <=> k \in FinalKeys
  <2> DEFINE h == cachedEntries[k]
  <2>1. /\ h.entry.serialNum \in Int
        /\ h.op \in {OpNone, OpInsertOrChange, OpDelete}
        /\ IsRemoval(h) => k \in StoredKeys
        /\ IsInserted(h) => k \notin StoredKeys
        /\ IsHintHotEntry(h) => k \in StoredKeys /\ h.op = OpNone
        /\ h.entry.serialNum >= 0 => k \in StoredKeys
        /\ h.entry.serialNum < 0 /\ ~IsHintHotEntry(h) =>
              /\ h.entry.serialNum = InsertedSN
              /\ k \notin StoredKeys
              /\ h.op = OpInsertOrChange <=> h.entry.value # NoValue
    BY <1>1, CachedFacts
  <2>2. k \in FinalKeys <=> (k \in StoredKeys /\ ~IsRemoval(h)) \/ IsInserted(h)
    BY <1>4 DEF RemovedKeys, InsertedKeys
  <2>. SUFFICES IsLive(h) <=> k \in FinalKeys
    OBVIOUS
  <2>. HIDE DEF h
  <2>3. CASE h.entry.serialNum >= 0
    BY <2>1, <2>2, <2>3 DEF IsLive, IsFakeInserted, IsInserted, IsRemoval, InsertedSN
  <2>4. CASE IsHintHotEntry(h)
    BY <2>1, <2>2, <2>4 DEF IsLive, IsFakeInserted, IsInserted, IsRemoval, InsertedSN, HintSN,
                            IsHintHotEntry, OpNone, OpDelete, OpInsertOrChange
  <2>5. CASE h.entry.serialNum < 0 /\ ~IsHintHotEntry(h)
    BY <2>1, <2>2, <2>5 DEF IsLive, IsFakeInserted, IsInserted, OpNone, OpDelete, OpInsertOrChange
  <2>6. h.entry.serialNum >= 0 \/ h.entry.serialNum < 0
    BY <2>1
  <2>. QED
    BY <2>3, <2>4, <2>5, <2>6
<1>10. LiveKeys = C \cap FinalKeys
  BY <1>9 DEF LiveKeys
<1>. QED
  BY <1>8, <1>10

\* Linking finds the true neighbours of a changed key.
LEMMA LinkNeighbours ==
    ASSUME IInv, phase = "linking", NEW k \in InsertedKeys \cup RemovedKeys
    PROVE  /\ GetPrev(k) = PredOf(FinalKeys, k) /\ GetNext(k) = SuccOf(FinalKeys, k)
           /\ Below(LiveKeys, k) # {} /\ Above(LiveKeys, k) # {}
           /\ GetPrev(k) \in FinalKeys /\ GetPrev(k) \in HotKeys /\ GetPrev(k) < k
           /\ GetNext(k) \in FinalKeys /\ k < GetNext(k)
           /\ GetPrev(k) # EndKey /\ GetPrev(k) # k
           /\ GetPrev(k) \in DOMAIN cachedEntries /\ GetNext(k) \in AllKeys
           /\ k \in FinalKeys => SuccOf(FinalKeys, GetPrev(k)) = k
           /\ k \notin FinalKeys => SuccOf(FinalKeys, GetPrev(k)) = GetNext(k)
           /\ k \in InsertedKeys => k \in FinalKeys
           /\ k \in RemovedKeys => k \notin FinalKeys
<1> DEFINE F == FinalKeys
           C == DOMAIN cachedEntries
           p == PredOf(F, k)
           n == SuccOf(F, k)
<1>1. /\ Surrounded(StoredKeys, RemovedKeys, InsertedKeys, C, HotKeys, F)
      /\ LiveKeys = C \cap F
  BY LinkSurrounded
<1>2. /\ F \in SUBSET AllKeys /\ k \in Keys /\ k \in AllKeys
      /\ p \in F /\ p < k /\ \A i \in F : i < k => i <= p
      /\ n \in F /\ k < n /\ \A i \in F : k < i => n <= i
  BY <1>1, FinalNeighbours
<1>3. p \in HotKeys /\ n \in C
  BY <1>1, FinalPredIsHot, FinalSuccIsCached
<1>4. p \in C /\ LiveKeys \in SUBSET AllKeys /\ LiveKeys \subseteq F /\ p \in LiveKeys /\ n \in LiveKeys
  BY <1>1, <1>2, <1>3 DEF HotKeys
<1>5. AllKeys \subseteq Int
  BY KeysAreInts
<1>. HIDE DEF F, C, p, n
<1>6. Below(LiveKeys, k) # {} /\ PredOf(LiveKeys, k) = p
  BY <1>2, <1>4, PredUnique
<1>7. Above(LiveKeys, k) # {} /\ SuccOf(LiveKeys, k) = n
  BY <1>2, <1>4, SuccUnique
<1>8. GetPrev(k) = p /\ GetNext(k) = n
  BY <1>6, <1>7 DEF GetPrev, GetNext, PredOf, SuccOf
<1>9. p \in AllKeys /\ n \in AllKeys /\ p \in Int /\ n \in Int /\ k \in Int /\ p # k /\ p < n
  BY <1>2, <1>5
<1>10. p # EndKey
  BY <1>2, <1>9, KeyAssumption
<1>11. k \in F => SuccOf(F, p) = k
  <2>1. ASSUME k \in F, NEW i \in F, p < i PROVE k <= i
    BY <1>2, <1>5, <1>9, <2>1
  <2>. QED
    BY <1>2, <1>9, <2>1, SuccUnique
<1>12. k \notin F => SuccOf(F, p) = n
  <2>1. ASSUME k \notin F, NEW i \in F, p < i PROVE n <= i
    <3>1. i \in Int /\ i # k
      BY <1>2, <1>5, <2>1
    <3>. QED
      BY <1>2, <1>9, <2>1, <3>1
  <2>. QED
    BY <1>2, <1>9, <2>1, SuccUnique
<1>13. (k \in InsertedKeys => k \in F) /\ (k \in RemovedKeys => k \notin F)
  BY <1>1 DEF Surrounded
<1>. QED
  BY <1>2, <1>3, <1>4, <1>6, <1>7, <1>8, <1>9, <1>10, <1>11, <1>12, <1>13 DEF F, C, p, n

\* A cached entry after a step of the first loop: only its NextKey and its two marks may
\* differ; a new NextKey is the final one.
Relinked(j, g, h, F) ==
    /\ g \in HotEntry
    /\ g.op = h.op /\ g.entry.key = h.entry.key /\ g.entry.value = h.entry.value
    /\ g.entry.serialNum = h.entry.serialNum /\ g.entry.height = h.entry.height
    /\ h.isTouchedByNext => g.isTouchedByNext
    /\ h.isModified => g.isModified
    /\ g.isModified => h.isModified \/ (h.op # OpNone /\ ~IsFakeInserted(h))
    /\ g.isTouchedByNext =>
          \/ h.isTouchedByNext /\ g.entry.nextKey = h.entry.nextKey
          \/ j \in F \ {EndKey} /\ g.entry.nextKey = SuccOf(F, j) /\ ~IsHintHotEntry(h)
    /\ ~g.isTouchedByNext =>
          \/ g.entry.nextKey = h.entry.nextKey
          \/ IsInserted(h) /\ g.entry.nextKey = SuccOf(F, j)

\* The predicates on hot entries do not look at the links and marks.
LEMMA RelinkedSame ==
    ASSUME NEW j, NEW g, NEW h, NEW F, Relinked(j, g, h, F)
    PROVE  /\ IsHintHotEntry(g) <=> IsHintHotEntry(h)
           /\ IsFakeInserted(g) <=> IsFakeInserted(h)
           /\ IsInserted(g) <=> IsInserted(h)
           /\ IsRemoval(g) <=> IsRemoval(h)
BY DEF Relinked, IsHintHotEntry, IsFakeInserted, IsInserted, IsRemoval

\* A relinked entry still agrees with what is stored.
LEMMA RelinkedCachedOK ==
    ASSUME IInv, phase = "linking", NEW j \in DOMAIN cachedEntries, NEW g,
           Relinked(j, g, cachedEntries[j], FinalKeys)
    PROVE  /\ g.entry.key = j
           /\ g.entry.serialNum >= 0 => j \in StoredKeys /\ g.entry.serialNum = idxTree[j]
           /\ g.entry.serialNum < 0 =>
                 \/ /\ IsHintHotEntry(g) /\ j \in StoredKeys
                    /\ g.op = OpNone /\ ~g.isTouchedByNext /\ ~g.isModified
                 \/ /\ g.entry.serialNum = InsertedSN /\ j \notin StoredKeys
                    /\ g.op = OpInsertOrChange <=> g.entry.value # NoValue
                    /\ g.op # OpInsertOrChange => ~g.isTouchedByNext /\ ~g.isModified
           /\ g.op = OpInsertOrChange => g.entry.value \in Values
           /\ g.op # OpNone => j \in Keys
           /\ g.op = OpNone /\ g.entry.serialNum >= 0 => g.entry.value = ReadEntry(j).value
<1> DEFINE h == cachedEntries[j]
<1>1. CachedOK(DOMAIN cachedEntries) /\ TypeOK
  BY DEF IInv, LinkingOK
<1>2. /\ h.entry.key = j
      /\ h.entry.serialNum >= 0 => j \in StoredKeys /\ h.entry.serialNum = idxTree[j]
      /\ h.entry.serialNum < 0 =>
            \/ /\ IsHintHotEntry(h) /\ j \in StoredKeys
               /\ h.op = OpNone /\ ~h.isTouchedByNext /\ ~h.isModified
            \/ /\ h.entry.serialNum = InsertedSN /\ j \notin StoredKeys
               /\ h.op = OpInsertOrChange <=> h.entry.value # NoValue
               /\ h.op # OpInsertOrChange => ~h.isTouchedByNext /\ ~h.isModified
      /\ h.op = OpInsertOrChange => h.entry.value \in Values
      /\ h.op # OpNone => j \in Keys
      /\ h.op = OpNone /\ h.entry.serialNum >= 0 => h.entry.value = ReadEntry(j).value
  BY <1>1 DEF CachedOK
<1>3. j \in FinalKeys => j \in StoredKeys \/ IsInserted(h)
  BY DEF FinalKeys, Pending
<1>4. /\ IsHintHotEntry(g) <=> IsHintHotEntry(h)
      /\ IsFakeInserted(g) <=> IsFakeInserted(h)
  BY RelinkedSame
<1>5. Relinked(j, g, h, FinalKeys)
  OBVIOUS
<1>. HIDE DEF h
<1>6. /\ g.op = h.op /\ g.entry.key = h.entry.key /\ g.entry.value = h.entry.value
      /\ g.entry.serialNum = h.entry.serialNum
      /\ g.isModified => h.isModified \/ (h.op # OpNone /\ ~IsFakeInserted(h))
      /\ g.isTouchedByNext => h.isTouchedByNext \/ (j \in FinalKeys /\ ~IsHintHotEntry(h))
  BY <1>5 DEF Relinked
<1>7. CASE h.entry.serialNum < 0 /\ IsHintHotEntry(h)
  <2>1. j \in StoredKeys /\ h.op = OpNone /\ ~h.isTouchedByNext /\ ~h.isModified
    BY <1>2, <1>7 DEF IsHintHotEntry, HintSN, InsertedSN
  <2>2. ~g.isTouchedByNext /\ ~g.isModified
    BY <1>6, <1>7, <2>1, Zenon
  <2>3. ~(g.entry.serialNum >= 0)
    BY <1>6, <1>7 DEF IsHintHotEntry, HintSN
  <2>4. OpNone # OpInsertOrChange
    BY DEF OpNone, OpInsertOrChange
  <2>. QED
    BY <1>2, <1>4, <1>6, <1>7, <2>1, <2>2, <2>3, <2>4, Zenon
<1>8. CASE h.entry.serialNum < 0 /\ ~IsHintHotEntry(h)
  <2>1. /\ h.entry.serialNum = InsertedSN /\ j \notin StoredKeys
        /\ h.op = OpInsertOrChange <=> h.entry.value # NoValue
        /\ h.op # OpInsertOrChange => ~h.isTouchedByNext /\ ~h.isModified
    BY <1>2, <1>8
  <2>2. h.op # OpInsertOrChange => IsFakeInserted(h) /\ ~IsInserted(h)
    BY <2>1 DEF IsFakeInserted, IsInserted
  <2>3. h.op # OpInsertOrChange => ~g.isTouchedByNext /\ ~g.isModified
    BY <1>3, <1>6, <2>1, <2>2, Zenon
  <2>4. ~(g.entry.serialNum >= 0)
    BY <1>6, <2>1 DEF InsertedSN
  <2>. QED
    BY <1>2, <1>4, <1>6, <1>8, <2>1, <2>3, <2>4, Zenon
<1>9. CASE ~(h.entry.serialNum < 0)
  BY <1>2, <1>6, <1>9
<1>. QED
  BY <1>7, <1>8, <1>9

\* The invariant after a step of the first loop, from what the step did to the entries.
LEMMA LinkStep ==
    ASSUME IInv, phase = "linking", NEW k \in todo, todo' = todo \ {k},
           UNCHANGED <<phase, storeVars, fillVars, batch>>,
           cachedEntries' = [j \in DOMAIN cachedEntries |-> cachedEntries'[j]],
           \A j \in DOMAIN cachedEntries :
              Relinked(j, cachedEntries'[j], cachedEntries[j], FinalKeys),
           IsInserted(cachedEntries[k]) => cachedEntries'[k].entry.nextKey = SuccOf(FinalKeys, k),
           IsInserted(cachedEntries[k]) \/ IsRemoval(cachedEntries[k]) =>
              cachedEntries'[PredOf(FinalKeys, k)].isTouchedByNext,
           cachedEntries[k].op # OpNone /\ ~IsFakeInserted(cachedEntries[k]) =>
              cachedEntries'[k].isModified
    PROVE  IInv'
<1> DEFINE C == DOMAIN cachedEntries
           F == FinalKeys
           c == cachedEntries
           d == cachedEntries'
<1>0. /\ phase' = "linking" /\ batch' = batch
      /\ UNCHANGED <<currHeight, oldestActiveTwigID, idxTree, datTree, k2heMap, k2nkMap, task,
                     forUpdate, forDeletion>>
  BY DEF storeVars, fillVars
<1>1. StoredKeys' = StoredKeys /\ \A j : ReadEntry(j)' = ReadEntry(j)
  BY <1>0 DEF StoredKeys, ReadEntry
<1>2. DOMAIN cachedEntries' = C
  OBVIOUS
<1>3. ASSUME NEW j \in C
      PROVE  /\ IsHintHotEntry(d[j]) <=> IsHintHotEntry(c[j])
             /\ IsFakeInserted(d[j]) <=> IsFakeInserted(c[j])
             /\ IsInserted(d[j]) <=> IsInserted(c[j])
             /\ IsRemoval(d[j]) <=> IsRemoval(c[j])
  <2>1. Relinked(j, d[j], c[j], F)
    OBVIOUS
  <2>. QED
    BY <2>1, RelinkedSame
<1>4. F' = F
  BY <1>0, <1>1, <1>2, <1>3 DEF FinalKeys, Pending
<1>5. TypeOK'
  <2>1. \A j \in C : d[j] \in HotEntry
    BY DEF Relinked
  <2>2. cachedEntries' \in [C -> HotEntry]
    BY <2>1
  <2>3. todo' \subseteq C /\ C \subseteq AllKeys
    BY DEF IInv, TypeOK
  <2>. QED
    BY <1>0, <1>2, <2>2, <2>3 DEF IInv, TypeOK
<1>6. ActiveIffIndexed' /\ StoredOK' /\ LinkedList'
  BY <1>0, <1>1 DEF IInv, ActiveIffIndexed, StoredOK, LinkedList
<1>7. TasksOK' /\ FillingOK' /\ SweepingOK'
  BY <1>0 DEF IInv, TasksOK, FillingOK, SweepingOK
<1>8. CachedOK(C)'
  <2>1. ASSUME NEW j \in C
        PROVE  LET g == d[j] IN
               /\ g.entry.key = j
               /\ g.entry.serialNum >= 0 => j \in StoredKeys /\ g.entry.serialNum = idxTree[j]
               /\ g.entry.serialNum < 0 =>
                     \/ /\ IsHintHotEntry(g) /\ j \in StoredKeys
                        /\ g.op = OpNone /\ ~g.isTouchedByNext /\ ~g.isModified
                     \/ /\ g.entry.serialNum = InsertedSN /\ j \notin StoredKeys
                        /\ g.op = OpInsertOrChange <=> g.entry.value # NoValue
                        /\ g.op # OpInsertOrChange => ~g.isTouchedByNext /\ ~g.isModified
               /\ g.op = OpInsertOrChange => g.entry.value \in Values
               /\ g.op # OpNone => j \in Keys
               /\ g.op = OpNone /\ g.entry.serialNum >= 0 => g.entry.value = ReadEntry(j).value
    <3>1. Relinked(j, d[j], c[j], F)
      OBVIOUS
    <3>. QED
      BY <3>1, RelinkedCachedOK
  <2>. QED
    BY <1>0, <1>1, <1>2, <2>1 DEF CachedOK
<1>9. LinkingOK'
  <2>1. /\ \A j \in C : c[j].entry.serialNum = InsertedSN =>
              /\ PredOf(StoredKeys, j) \in HotKeys
              /\ SuccOf(StoredKeys, PredOf(StoredKeys, j)) \in C
        /\ \A j \in C : IsRemoval(c[j]) =>
              /\ PredOf(StoredKeys, j) \in HotKeys
              /\ SuccOf(StoredKeys, j) \in C
    BY DEF IInv, LinkingOK, HotKeys
  <2>2. HotKeys = {j \in C : ~IsHintHotEntry(d[j])}
    BY <1>3 DEF HotKeys
  <2>3. \A j \in C : d[j].entry.serialNum = c[j].entry.serialNum
    BY DEF Relinked
  <2>4. ASSUME NEW j \in C
        PROVE  /\ d[j].isTouchedByNext => j \in F \ {EndKey} /\ d[j].entry.nextKey = SuccOf(F, j)
               /\ ~d[j].isTouchedByNext /\ d[j].entry.serialNum >= 0 =>
                     d[j].entry.nextKey = ReadEntry(j).nextKey
               /\ d[j].isModified => d[j].op # OpNone
    <3>1. Relinked(j, d[j], c[j], F)
      OBVIOUS
    <3>2. /\ c[j].isTouchedByNext =>
                j \in F \ {EndKey} /\ c[j].entry.nextKey = SuccOf(F, j)
          /\ ~c[j].isTouchedByNext /\ c[j].entry.serialNum >= 0 =>
                c[j].entry.nextKey = ReadEntry(j).nextKey
          /\ c[j].isModified => c[j].op # OpNone
      BY DEF IInv, LinkingOK
    <3>3. IsInserted(c[j]) => ~(c[j].entry.serialNum >= 0)
      BY DEF IsInserted, InsertedSN
    <3>. QED
      BY <3>1, <3>2, <3>3, Zenon DEF Relinked
  <2>5. ASSUME NEW j \in C \ todo'
        PROVE  /\ IsInserted(d[j]) => d[j].entry.nextKey = SuccOf(F, j)
               /\ IsInserted(d[j]) \/ IsRemoval(d[j]) => d[PredOf(F, j)].isTouchedByNext
               /\ d[j].op # OpNone /\ ~IsFakeInserted(d[j]) => d[j].isModified
    <3>1. Relinked(j, d[j], c[j], F)
      OBVIOUS
    <3>2. CASE j = k
      BY <3>1, <3>2, <1>3 DEF Relinked
    <3>3. CASE j # k
      <4>1. /\ IsInserted(c[j]) => c[j].entry.nextKey = SuccOf(F, j)
            /\ IsInserted(c[j]) \/ IsRemoval(c[j]) => c[PredOf(F, j)].isTouchedByNext
            /\ c[j].op # OpNone /\ ~IsFakeInserted(c[j]) => c[j].isModified
        BY <3>3 DEF IInv, LinkingOK
      <4>2. IsInserted(c[j]) => d[j].entry.nextKey = SuccOf(F, j)
        BY <3>1, <4>1, Zenon DEF Relinked
      <4>3. d[j].op # OpNone /\ ~IsFakeInserted(d[j]) => d[j].isModified
        <5>1. d[j].op = c[j].op /\ (c[j].isModified => d[j].isModified)
          BY <3>1 DEF Relinked
        <5>. QED
          BY <5>1, <4>1, <1>3, Zenon
      <4>4. IsInserted(c[j]) \/ IsRemoval(c[j]) => d[PredOf(F, j)].isTouchedByNext
        <5>. SUFFICES ASSUME IsInserted(c[j]) \/ IsRemoval(c[j])
                      PROVE  d[PredOf(F, j)].isTouchedByNext
          OBVIOUS
        <5>1. j \in InsertedKeys \cup RemovedKeys
          BY DEF InsertedKeys, RemovedKeys
        <5>2. PredOf(F, j) \in C
          BY <5>1, LinkNeighbours
        <5>3. Relinked(PredOf(F, j), d[PredOf(F, j)], c[PredOf(F, j)], F)
          BY <5>2
        <5>. QED
          BY <5>3, <4>1, Zenon DEF Relinked
      <4>. QED
        BY <4>2, <4>3, <4>4, <1>3, Zenon
    <3>. QED
      BY <3>2, <3>3
  <2>. QED
    BY <1>0, <1>1, <1>2, <1>3, <1>4, <1>8, <2>1, <2>2, <2>3, <2>4, <2>5 DEF LinkingOK
<1>. QED
  BY <1>5, <1>6, <1>7, <1>9 DEF IInv

\* An entry the step leaves alone is trivially relinked.
LEMMA RelinkedRefl ==
    ASSUME NEW j, NEW h \in HotEntry, NEW F
    PROVE  Relinked(j, h, h, F)
<1>1. h.isModified \in BOOLEAN /\ h.isTouchedByNext \in BOOLEAN
  BY DEF HotEntry
<1>. QED
  BY <1>1, Zenon DEF Relinked

\* Marking an entry as modified.
LEMMA RelinkedModified ==
    ASSUME NEW j, NEW h \in HotEntry, NEW F, h.op # OpNone, ~IsFakeInserted(h)
    PROVE  /\ Relinked(j, [h EXCEPT !.isModified = TRUE], h, F)
           /\ [h EXCEPT !.isModified = TRUE].isModified
<1> DEFINE g == [h EXCEPT !.isModified = TRUE]
<1>1. /\ g \in HotEntry /\ g.op = h.op /\ g.entry = h.entry
      /\ g.isTouchedByNext = h.isTouchedByNext /\ g.isModified = TRUE
      /\ h.isTouchedByNext \in BOOLEAN
  BY DEF HotEntry
<1>. HIDE DEF g
<1>. QED
  <2>1. Relinked(j, g, h, F) /\ g.isModified
    BY <1>1, Zenon DEF Relinked
  <2>. QED
    BY <2>1 DEF g

\* The predecessor of a changed key gets its final NextKey.
LEMMA RelinkedTouched ==
    ASSUME NEW j, NEW h \in HotEntry, NEW F, SuccOf(F, j) \in AllKeys, NEW g,
           j \in F \ {EndKey}, ~IsHintHotEntry(h),
           g = [h EXCEPT !.entry.nextKey = SuccOf(F, j), !.isTouchedByNext = TRUE]
    PROVE  Relinked(j, g, h, F) /\ g.isTouchedByNext
<1> DEFINE m == SuccOf(F, j)
<1>a. /\ h.entry \in Entry /\ h.op \in {OpNone, OpInsertOrChange, OpDelete} /\ h.isModified \in BOOLEAN
  BY DEF HotEntry
<1>1. /\ g.op = h.op /\ g.isModified = h.isModified
      /\ g.entry = [h.entry EXCEPT !.nextKey = m] /\ g.isTouchedByNext = TRUE
  BY DEF HotEntry
<1>2. /\ g.entry \in Entry /\ g.entry.nextKey = m /\ g.entry.key = h.entry.key
      /\ g.entry.value = h.entry.value /\ g.entry.serialNum = h.entry.serialNum
      /\ g.entry.height = h.entry.height
  BY <1>a, <1>1 DEF Entry
<1>3. g \in HotEntry
  BY <1>a, <1>1, <1>2 DEF HotEntry
<1>. QED
  BY <1>a, <1>1, <1>2, <1>3, Zenon DEF Relinked

\* An inserted entry gets its final NextKey.
LEMMA RelinkedInserted ==
    ASSUME NEW j, NEW h \in HotEntry, NEW F, SuccOf(F, j) \in AllKeys, NEW g,
           j \in F \ {EndKey}, IsInserted(h), ~IsFakeInserted(h), ~IsHintHotEntry(h),
           g = [h EXCEPT !.isModified = TRUE, !.entry.nextKey = SuccOf(F, j)]
    PROVE  Relinked(j, g, h, F) /\ g.isModified /\ g.entry.nextKey = SuccOf(F, j)
<1> DEFINE m == SuccOf(F, j)
<1>a. /\ h.entry \in Entry /\ h.op \in {OpNone, OpInsertOrChange, OpDelete}
      /\ h.isTouchedByNext \in BOOLEAN
  BY DEF HotEntry
<1>1. /\ g.op = h.op /\ g.isTouchedByNext = h.isTouchedByNext
      /\ g.entry = [h.entry EXCEPT !.nextKey = m] /\ g.isModified = TRUE
  BY DEF HotEntry
<1>2. /\ g.entry \in Entry /\ g.entry.nextKey = m /\ g.entry.key = h.entry.key
      /\ g.entry.value = h.entry.value /\ g.entry.serialNum = h.entry.serialNum
      /\ g.entry.height = h.entry.height
  BY <1>a, <1>1 DEF Entry
<1>3. g \in HotEntry
  BY <1>a, <1>1, <1>2 DEF HotEntry
<1>4. h.op # OpNone
  BY DEF IsInserted, OpInsertOrChange, OpNone
<1>. QED
  BY <1>a, <1>1, <1>2, <1>3, <1>4, Zenon DEF Relinked

\* A step of the first loop keeps the invariant and relinks the cached entries.
LEMMA LinkEntryStep ==
    ASSUME IInv, LinkEntry
    PROVE  /\ IInv'
           /\ cachedEntries' = [j \in DOMAIN cachedEntries |-> cachedEntries'[j]]
           /\ \A j \in DOMAIN cachedEntries :
                 Relinked(j, cachedEntries'[j], cachedEntries[j], FinalKeys)
<1> DEFINE k == Least(todo)
           h == cachedEntries[k]
           C == DOMAIN cachedEntries
           F == FinalKeys
<1>1. /\ phase = "linking" /\ todo' = todo \ {k}
      /\ UNCHANGED <<phase, storeVars, fillVars, batch>>
  BY DEF LinkEntry
<1>2. k \in todo /\ k \in C
  <2>1. todo \in SUBSET AllKeys /\ todo # {} /\ todo \subseteq C
    BY DEF IInv, TypeOK, LinkEntry
  <2>. QED
    BY <2>1, LeastProp
<1>3. TypeOK /\ CachedOK(C) /\ C \in SUBSET C
  BY <1>1 DEF IInv, LinkingOK
<1>4. \A j \in C : cachedEntries[j] \in HotEntry
  BY <1>3 DEF TypeOK
<1>5. h \in HotEntry /\ h.op \in {OpNone, OpInsertOrChange, OpDelete} /\ h.entry.serialNum \in Int
  BY <1>2, <1>4 DEF HotEntry, Entry
<1>6. \A j \in C : Relinked(j, cachedEntries[j], cachedEntries[j], F)
  BY <1>4, RelinkedRefl
<1>7. /\ h.entry.serialNum < 0 /\ ~IsHintHotEntry(h) =>
            /\ h.entry.serialNum = InsertedSN
            /\ h.op = OpInsertOrChange <=> h.entry.value # NoValue
      /\ IsHintHotEntry(h) => h.op = OpNone
      /\ IsInserted(h) => ~IsHintHotEntry(h)
  BY <1>2, <1>3, CachedFacts
<1>8. OpNone # OpInsertOrChange /\ OpDelete # OpInsertOrChange /\ OpNone # OpDelete
  BY DEF OpNone, OpInsertOrChange, OpDelete
<1>9. cachedEntries = [j \in C |-> cachedEntries[j]]
  BY <1>3 DEF TypeOK
<1>10. CASE ~IsFakeInserted(h) /\ h.op = OpDelete /\ LinkDeleted(k)
  <2>1. IsRemoval(h) /\ ~IsInserted(h)
    <3>1. h.entry.serialNum >= 0
      BY <1>5, <1>7, <1>8, <1>10 DEF IsFakeInserted
    <3>. QED
      BY <1>8, <1>10, <3>1 DEF IsRemoval, IsInserted
  <2>2. k \in RemovedKeys
    BY <1>2, <2>1 DEF RemovedKeys
  <2> DEFINE p == GetPrev(k)
             n == GetNext(k)
  <2>3. /\ p = PredOf(F, k) /\ p \in F /\ p \in HotKeys /\ p # EndKey /\ p # k /\ p \in C
        /\ n \in AllKeys /\ SuccOf(F, p) = n
    BY <1>1, <2>2, LinkNeighbours
  <2>4. cachedEntries' = [cachedEntries EXCEPT ![k].isModified = TRUE,
            ![p].entry.nextKey = n, ![p].isTouchedByNext = TRUE]
    BY <1>10 DEF LinkDeleted
  <2>. HIDE DEF k, C, F, p, n
  <2>5. /\ cachedEntries' = [j \in C |-> cachedEntries'[j]]
        /\ cachedEntries'[k] = [cachedEntries[k] EXCEPT !.isModified = TRUE]
        /\ cachedEntries'[p] = [cachedEntries[p] EXCEPT !.entry.nextKey = n, !.isTouchedByNext = TRUE]
        /\ \A j \in C : j # k /\ j # p => cachedEntries'[j] = cachedEntries[j]
    BY <1>2, <1>9, <2>3, <2>4 DEF C
  <2>6. /\ Relinked(k, cachedEntries'[k], cachedEntries[k], F) /\ cachedEntries'[k].isModified
    BY <1>5, <1>8, <1>10, <2>5, RelinkedModified
  <2>7. /\ Relinked(p, cachedEntries'[p], cachedEntries[p], F) /\ cachedEntries'[p].isTouchedByNext
    <3>1. ~IsHintHotEntry(cachedEntries[p]) /\ cachedEntries[p] \in HotEntry
      BY <1>4, <2>3 DEF HotKeys, C
    <3>. QED
      BY <2>3, <2>5, <3>1, RelinkedTouched
  <2>8. \A j \in C : Relinked(j, cachedEntries'[j], cachedEntries[j], F)
    BY <1>6, <2>5, <2>6, <2>7
  <2>. QED
    BY <1>1, <1>2, <2>1, <2>3, <2>5, <2>6, <2>7, <2>8, LinkStep DEF C, F
<1>11. CASE ~IsFakeInserted(h) /\ IsInserted(h) /\ LinkInserted(k)
  <2>2. k \in InsertedKeys
    BY <1>2, <1>11 DEF InsertedKeys
  <2> DEFINE p == GetPrev(k)
             n == GetNext(k)
  <2>3. /\ p = PredOf(F, k) /\ n = SuccOf(F, k) /\ p \in F /\ p \in HotKeys /\ p # EndKey /\ p # k /\ p \in C
        /\ n \in AllKeys /\ SuccOf(F, p) = k /\ k \in F
    BY <1>1, <2>2, LinkNeighbours
  <2>4. cachedEntries' = [cachedEntries EXCEPT ![k].isModified = TRUE, ![k].entry.nextKey = n,
            ![p].entry.nextKey = k, ![p].isTouchedByNext = TRUE]
    BY <1>11 DEF LinkInserted
  <2>9. k # EndKey /\ k \in AllKeys
    <3>1. k \in Keys
      BY <1>2, <1>3, <1>11, CachedFacts
    <3>. QED
      BY <3>1, KeyAssumption DEF AllKeys
  <2>. HIDE DEF k, C, F, p, n
  <2>5. /\ cachedEntries' = [j \in C |-> cachedEntries'[j]]
        /\ cachedEntries'[k] = [cachedEntries[k] EXCEPT !.isModified = TRUE, !.entry.nextKey = n]
        /\ cachedEntries'[p] = [cachedEntries[p] EXCEPT !.entry.nextKey = k, !.isTouchedByNext = TRUE]
        /\ \A j \in C : j # k /\ j # p => cachedEntries'[j] = cachedEntries[j]
    BY <1>2, <1>9, <2>3, <2>4 DEF C
  <2>6. /\ Relinked(k, cachedEntries'[k], cachedEntries[k], F) /\ cachedEntries'[k].isModified
        /\ cachedEntries'[k].entry.nextKey = n
    <3>1. /\ cachedEntries'[k] = [h EXCEPT !.isModified = TRUE, !.entry.nextKey = SuccOf(F, k)]
          /\ SuccOf(F, k) \in AllKeys /\ k \in F \ {EndKey} /\ n = SuccOf(F, k)
      BY <2>3, <2>5, <2>9
    <3>2. h \in HotEntry /\ IsInserted(h) /\ ~IsFakeInserted(h) /\ ~IsHintHotEntry(h)
      BY <1>5, <1>7, <1>11
    <3>. QED
      BY <3>1, <3>2, RelinkedInserted
  <2>7. /\ Relinked(p, cachedEntries'[p], cachedEntries[p], F) /\ cachedEntries'[p].isTouchedByNext
    <3>1. ~IsHintHotEntry(cachedEntries[p]) /\ cachedEntries[p] \in HotEntry
      BY <1>4, <2>3 DEF HotKeys, C
    <3>2. /\ cachedEntries'[p] = [cachedEntries[p] EXCEPT !.entry.nextKey = SuccOf(F, p),
                                                          !.isTouchedByNext = TRUE]
          /\ SuccOf(F, p) \in AllKeys /\ p \in F \ {EndKey}
      BY <2>3, <2>5, <2>9
    <3>. QED
      BY <3>1, <3>2, RelinkedTouched
  <2>8. \A j \in C : Relinked(j, cachedEntries'[j], cachedEntries[j], F)
    BY <1>6, <2>5, <2>6, <2>7
  <2>. QED
    BY <1>1, <1>2, <2>3, <2>5, <2>6, <2>7, <2>8, LinkStep DEF C, F
<1>12. CASE ~IsFakeInserted(h) /\ IsModified(h) /\ LinkModified(k)
  <2>1. ~IsRemoval(h) /\ ~IsInserted(h) /\ h.op # OpNone
    BY <1>8, <1>12 DEF IsModified, IsRemoval, IsInserted, InsertedSN
  <2>2. cachedEntries' = [cachedEntries EXCEPT ![k].isModified = TRUE]
    BY <1>12 DEF LinkModified
  <2>. HIDE DEF k, C, F
  <2>3. /\ cachedEntries' = [j \in C |-> cachedEntries'[j]]
        /\ cachedEntries'[k] = [cachedEntries[k] EXCEPT !.isModified = TRUE]
        /\ \A j \in C : j # k => cachedEntries'[j] = cachedEntries[j]
    BY <1>2, <1>9, <2>2 DEF C
  <2>4. /\ Relinked(k, cachedEntries'[k], cachedEntries[k], F) /\ cachedEntries'[k].isModified
    BY <1>5, <1>12, <2>1, <2>3, RelinkedModified
  <2>5. \A j \in C : Relinked(j, cachedEntries'[j], cachedEntries[j], F)
    BY <1>6, <2>3, <2>4
  <2>. QED
    BY <1>1, <1>2, <2>1, <2>3, <2>4, <2>5, LinkStep DEF C, F
<1>13. CASE (IsFakeInserted(h) \/ h.op = OpNone) /\ UNCHANGED cachedEntries
  <2>1. ~IsInserted(h)
    <3>1. IsFakeInserted(h) => h.op # OpInsertOrChange
      BY <1>7 DEF IsFakeInserted, IsHintHotEntry, HintSN, InsertedSN
    <3>. QED
      BY <1>8, <1>13, <3>1 DEF IsInserted
  <2>2. ~IsRemoval(h)
    BY <1>8, <1>13 DEF IsRemoval, IsFakeInserted, InsertedSN
  <2>3. cachedEntries' = [j \in C |-> cachedEntries'[j]]
        /\ \A j \in C : Relinked(j, cachedEntries'[j], cachedEntries[j], F)
    BY <1>6, <1>9, <1>13
  <2>. HIDE DEF k
  <2>. QED
    BY <1>1, <1>2, <1>13, <2>1, <2>2, <2>3, LinkStep
<1>. QED
  BY <1>10, <1>11, <1>12, <1>13 DEF LinkEntry

LEMMA LinkEntryIInv ==
    ASSUME IInv, LinkEntry
    PROVE  IInv'
BY LinkEntryStep

\* A stored key that stays and precedes no changed key keeps its successor.
LEMMA UntouchedSucc ==
    ASSUME NEW S, NEW R, NEW I, NEW C, NEW H, NEW F, Surrounded(S, R, I, C, H, F),
           NEW k \in S \cap F, k # EndKey, \A j \in I \cup R : PredOf(F, j) # k
    PROVE  SuccOf(F, k) = SuccOf(S, k)
<1>1. /\ F = (S \ R) \cup I /\ S \in SUBSET AllKeys /\ F \in SUBSET AllKeys /\ AllKeys \subseteq Int
      /\ EndKey \in S /\ EndKey \in F /\ k \in AllKeys
  BY KeysAreInts DEF Surrounded
<1>2. EndKey \in Above(S, k) /\ EndKey \in Above(F, k)
  BY <1>1, KeyAssumption DEF Above, AllKeys
<1> DEFINE s == SuccOf(S, k)
           f == SuccOf(F, k)
<1>3. /\ s \in S /\ k < s /\ \A i \in S : k < i => s <= i
      /\ f \in F /\ k < f /\ \A i \in F : k < i => f <= i
  BY <1>1, <1>2, SuccProp
<1>. HIDE DEF s, f
<1>4. s \in Int /\ f \in Int /\ k \in Int /\ s \in AllKeys /\ f \in AllKeys
  BY <1>1, <1>3
<1>5. f \notin I
  <2>. SUFFICES ASSUME f \in I PROVE FALSE
    OBVIOUS
  <2>1. \A i \in F : i < f => i <= k
    BY <1>1, <1>3, <1>4
  <2>2. PredOf(F, f) = k
    BY <1>1, <1>3, <1>4, <2>1, PredUnique
  <2>. QED
    BY <2>2
<1>6. s <= f
  BY <1>1, <1>3, <1>5
<1>7. CASE s < f
  <2>1. s \in R
    BY <1>1, <1>3, <1>4, <1>7
  <2>2. \A i \in F : i < s => i <= k
    BY <1>1, <1>3, <1>4, <1>7
  <2>3. PredOf(F, s) = k
    BY <1>1, <1>3, <1>4, <2>2, PredUnique
  <2>. QED
    BY <2>1, <2>3
<1>. QED
  BY <1>4, <1>6, <1>7 DEF s, f

LEMMA EndLinkingIInv ==
    ASSUME IInv, EndLinking
    PROVE  IInv'
<1> DEFINE C == DOMAIN cachedEntries
           c == cachedEntries
           F == FinalKeys
<1>0. /\ phase = "linking" /\ todo = {} /\ phase' = "sweeping" /\ todo' = C
      /\ UNCHANGED <<currHeight, oldestActiveTwigID, idxTree, datTree, k2heMap, k2nkMap, task,
                     forUpdate, forDeletion, cachedEntries, batch>>
  BY DEF EndLinking, storeVars, fillVars
<1>1. StoredKeys' = StoredKeys /\ \A j : ReadEntry(j)' = ReadEntry(j)
  BY <1>0 DEF StoredKeys, ReadEntry
<1>2. TypeOK'
  BY <1>0 DEF IInv, TypeOK
<1>3. ActiveIffIndexed' /\ StoredOK'
  BY <1>0, <1>1 DEF IInv, ActiveIffIndexed, StoredOK
<1>4. LinkedList' /\ TasksOK' /\ FillingOK' /\ LinkingOK'
  BY <1>0 DEF IInv, LinkedList, TasksOK, FillingOK, LinkingOK
<1>5. /\ CachedOK(C) /\ TypeOK /\ C \in SUBSET C
      /\ \A k \in C :
            /\ c[k].isTouchedByNext => k \in F \ {EndKey} /\ c[k].entry.nextKey = SuccOf(F, k)
            /\ ~c[k].isTouchedByNext /\ c[k].entry.serialNum >= 0 =>
                  c[k].entry.nextKey = ReadEntry(k).nextKey
            /\ c[k].isModified => c[k].op # OpNone
      /\ \A k \in C :
            /\ IsInserted(c[k]) => c[k].entry.nextKey = SuccOf(F, k)
            /\ IsInserted(c[k]) \/ IsRemoval(c[k]) => c[PredOf(F, k)].isTouchedByNext
            /\ c[k].op # OpNone /\ ~IsFakeInserted(c[k]) => c[k].isModified
  BY <1>0 DEF IInv, LinkingOK
<1>6. CachedOK(C)'
  BY <1>0, <1>1, <1>5 DEF CachedOK
<1>7. F' = F
  BY <1>0, <1>1 DEF FinalKeys, Pending
<1>8. /\ Surrounded(StoredKeys, RemovedKeys, InsertedKeys, C, HotKeys, F)
      /\ F = (StoredKeys \ RemovedKeys) \cup InsertedKeys
  BY <1>0, LinkSurrounded DEF Surrounded
<1>9. ReadEntry(EndKey).nextKey = EndKey /\ EndKey \in StoredKeys
  BY <1>0 DEF IInv, LinkedList, StoredKeys
<1>10. \A k : FinalNextKey(k)' = IF k \in C /\ (c[k].isModified \/ c[k].isTouchedByNext)
                                 THEN c[k].entry.nextKey ELSE ReadEntry(k).nextKey
  BY <1>0, <1>1 DEF FinalNextKey
<1>11. FinalNextKey(EndKey)' = EndKey
  <2>1. EndKey \in C => ~c[EndKey].isTouchedByNext
    BY <1>5
  <2>2. EndKey \in C => ~c[EndKey].isModified
    BY <1>5, KeyAssumption DEF CachedOK
  <2>. QED
    BY <1>9, <1>10, <2>1, <2>2, Zenon
<1>12. ASSUME NEW k \in F, k # EndKey PROVE FinalNextKey(k)' = SuccOf(F, k)
  <2>1. CASE k \in C /\ c[k].isTouchedByNext
    BY <1>5, <1>10, <2>1, Zenon
  <2>2. CASE k \in C /\ IsInserted(c[k])
    <3>1. c[k].op # OpNone /\ ~IsFakeInserted(c[k])
      <4>1. c[k].entry.value \in Values
        BY <1>5, <2>2, CachedFacts
      <4>. QED
        BY <2>2, <4>1, ValueAssumption DEF IsInserted, IsFakeInserted, OpInsertOrChange, OpNone
    <3>. QED
      BY <1>5, <1>10, <2>2, <3>1, Zenon
  <2>3. CASE ~(k \in C /\ c[k].isTouchedByNext) /\ ~(k \in C /\ IsInserted(c[k]))
    <3>1. k \in StoredKeys \cap F
      BY <1>8, <2>3 DEF InsertedKeys
    <3>2. \A j \in InsertedKeys \cup RemovedKeys : PredOf(F, j) # k
      <4>. SUFFICES ASSUME NEW j \in InsertedKeys \cup RemovedKeys, PredOf(F, j) = k PROVE FALSE
        OBVIOUS
      <4>1. j \in C /\ (IsInserted(c[j]) \/ IsRemoval(c[j]))
        BY DEF InsertedKeys, RemovedKeys
      <4>2. c[k].isTouchedByNext
        BY <1>5, <4>1
      <4>3. GetPrev(j) \in C /\ GetPrev(j) = PredOf(F, j)
        BY <1>0, LinkNeighbours
      <4>. QED
        BY <2>3, <4>2, <4>3
    <3>3. SuccOf(F, k) = SuccOf(StoredKeys, k)
      BY <1>8, <3>1, <3>2, <1>12, UntouchedSucc
    <3>4. ReadEntry(k).nextKey = SuccOf(StoredKeys, k)
      BY <1>0, <3>1, <1>12 DEF IInv, LinkedList, StoredKeys, SuccOf
    <3>5. k \in C /\ (c[k].isModified \/ c[k].isTouchedByNext) => c[k].entry.nextKey = ReadEntry(k).nextKey
      <4>. SUFFICES ASSUME k \in C, c[k].isModified \/ c[k].isTouchedByNext
                    PROVE  c[k].entry.nextKey = ReadEntry(k).nextKey
        OBVIOUS
      <4>1. ~c[k].isTouchedByNext /\ c[k].isModified
        BY <2>3
      <4>2. c[k].op # OpNone
        BY <1>5, <4>1
      <4>3. c[k].entry.serialNum >= 0
        <5>1. /\ c[k].entry.serialNum \in Int
              /\ IsHintHotEntry(c[k]) => c[k].op = OpNone
              /\ c[k].entry.serialNum < 0 /\ ~IsHintHotEntry(c[k]) => k \notin StoredKeys
          BY <1>5, CachedFacts
        <5>. QED
          BY <5>1, <4>2, <3>1
      <4>. QED
        BY <1>5, <4>1, <4>3
    <3>. QED
      BY <1>10, <3>3, <3>4, <3>5, Zenon
  <2>. QED
    BY <2>1, <2>2, <2>3
<1>13. SweepingOK'
  <2>1. \A k \in C : /\ c[k].isModified => c[k].op # OpNone
                     /\ c[k].op # OpNone /\ ~IsFakeInserted(c[k]) => c[k].isModified
    BY <1>5
  <2>2. \A k \in F' \ {EndKey} : FinalNextKey(k)' = SuccOf(F', k)
    BY <1>7, <1>12
  <2>. QED
    BY <1>0, <1>6, <1>11, <2>1, <2>2 DEF SweepingOK
<1>. QED
  BY <1>2, <1>3, <1>4, <1>13 DEF IInv

-----------------------------------------------------------------------------
(* Sweeping and compaction: the data tree and the index move together *)

\* The data tree once the entry a key is indexed at, if any, is deactivated.
WithoutKey(k) ==
    IF k \in StoredKeys THEN DeactiviateEntry(datTree, idxTree[k]) ELSE datTree

LEMMA WithoutKeyProp ==
    ASSUME TypeOK, ActiveIffIndexed, StoredOK, NEW k
    PROVE  LET d == WithoutKey(k)
           IN  /\ IsDataTree(d)
               /\ d.maxSerialNum \in Nat /\ d.maxSerialNum >= datTree.maxSerialNum
               /\ datTree.maxSerialNum \in Nat
               /\ \A sn : sn \in d.activeBits <=>
                     sn \in datTree.activeBits /\ ~(k \in StoredKeys /\ sn = idxTree[k])
               /\ \A s \in 0..(datTree.maxSerialNum - 1) : d.entryFile[s] = datTree.entryFile[s]
<1>0. IsDataTree(datTree) /\ datTree.maxSerialNum \in Nat
  BY DEF TypeOK, IsDataTree
<1>1. CASE k \in StoredKeys
  <2>1. idxTree[k] \in 0..(datTree.maxSerialNum - 1)
    BY <1>1, StoredEntry
  <2> DEFINE d == DeactiviateEntry(datTree, idxTree[k])
  <2>2. WithoutKey(k) = d
    BY <1>1 DEF WithoutKey
  <2>3. /\ IsDataTree(d)
        /\ d.maxSerialNum >= datTree.maxSerialNum
        /\ d.activeBits = datTree.activeBits \ {idxTree[k]}
        /\ \A s \in 0..(datTree.maxSerialNum - 1) : d.entryFile[s] = datTree.entryFile[s]
    BY <1>0, <2>1, DeactiviateEntryProp
  <2>. HIDE DEF d
  <2>4. d.maxSerialNum \in Nat
    BY <2>3 DEF IsDataTree
  <2>. QED
    BY <1>0, <1>1, <2>2, <2>3, <2>4
<1>2. CASE k \notin StoredKeys
  <2>1. WithoutKey(k) = datTree
    BY <1>2 DEF WithoutKey
  <2>. QED
    BY <1>0, <1>2, <2>1
<1>. QED
  BY <1>1, <1>2

\* Appending the new entry of a key and indexing it there.
LEMMA ReplaceEntry ==
    ASSUME TypeOK, ActiveIffIndexed, StoredOK, NEW k \in AllKeys, NEW e \in Entry,
           e.key = k, e.serialNum = WithoutKey(k).maxSerialNum,
           datTree' = AppendEntry(WithoutKey(k), e),
           idxTree' = IndexSet(k, WithoutKey(k).maxSerialNum)
    PROVE  /\ IsDataTree(datTree') /\ ActiveIffIndexed'
           /\ StoredKeys' = StoredKeys \cup {k}
           /\ idxTree' \in [StoredKeys' -> Nat]
           /\ ReadEntry(k)' = e
           /\ \A j \in StoredKeys : j # k => /\ idxTree'[j] = idxTree[j]
                                             /\ ReadEntry(j)' = ReadEntry(j)
<1> DEFINE d1 == WithoutKey(k)
           m == d1.maxSerialNum
           d2 == datTree'
<1>1. /\ IsDataTree(d1)
      /\ m \in Nat /\ m >= datTree.maxSerialNum /\ datTree.maxSerialNum \in Nat
      /\ \A sn : sn \in d1.activeBits <=>
            sn \in datTree.activeBits /\ ~(k \in StoredKeys /\ sn = idxTree[k])
      /\ \A s \in 0..(datTree.maxSerialNum - 1) : d1.entryFile[s] = datTree.entryFile[s]
  BY WithoutKeyProp
<1>2. /\ IsDataTree(d2)
      /\ d2.activeBits = d1.activeBits \cup {m}
      /\ d2.entryFile[m].entry = e
      /\ \A s \in 0..(m - 1) : d2.entryFile[s] = d1.entryFile[s]
  BY <1>1, AppendEntryProp
<1>3. idxTree' = [i \in StoredKeys \cup {k} |-> IF i = k THEN m ELSE idxTree[i]]
  BY DEF IndexSet, StoredKeys
<1>. HIDE DEF d1, m, d2
<1>4. StoredKeys' = StoredKeys \cup {k} /\ idxTree'[k] = m
      /\ \A j \in StoredKeys : j # k => idxTree'[j] = idxTree[j]
  BY <1>3 DEF StoredKeys
<1>5. \A j \in StoredKeys : idxTree[j] \in Nat /\ idxTree[j] \in 0..(datTree.maxSerialNum - 1)
  BY StoredEntry
<1>6. idxTree' \in [StoredKeys' -> Nat]
  BY <1>1, <1>3, <1>4, <1>5
<1>7. \A s \in 0..(datTree.maxSerialNum - 1) : d2.entryFile[s] = datTree.entryFile[s] /\ s # m
  BY <1>1, <1>2
<1>8. ReadEntry(k)' = e
  BY <1>2, <1>4 DEF ReadEntry, d2
<1>9. \A j \in StoredKeys : j # k => ReadEntry(j)' = ReadEntry(j)
  BY <1>4, <1>5, <1>7 DEF ReadEntry, d2
<1>10. datTree.activeBits \subseteq 0..(datTree.maxSerialNum - 1)
  BY DEF TypeOK, IsDataTree
<1>11. ASSUME NEW j \in StoredKeys'
       PROVE  /\ idxTree'[j] \in d2.activeBits
              /\ d2.entryFile[idxTree'[j]].entry.key = j
              /\ d2.entryFile[idxTree'[j]].entry.serialNum = idxTree'[j]
  <2>1. CASE j = k
    BY <1>2, <1>4, <2>1 DEF m, d1
  <2>2. CASE j # k
    <3>1. j \in StoredKeys /\ idxTree'[j] = idxTree[j]
      BY <1>4, <2>2
    <3>2. /\ idxTree[j] \in datTree.activeBits
          /\ datTree.entryFile[idxTree[j]].entry.key = j
          /\ datTree.entryFile[idxTree[j]].entry.serialNum = idxTree[j]
      BY <3>1 DEF ActiveIffIndexed, StoredKeys
    <3>3. k \in StoredKeys => idxTree[j] # idxTree[k]
      BY <3>2, <2>2 DEF ActiveIffIndexed, StoredKeys
    <3>4. idxTree[j] \in d1.activeBits
      BY <1>1, <3>2, <3>3
    <3>. QED
      BY <1>2, <1>5, <1>7, <3>1, <3>2, <3>4
  <2>. QED
    BY <2>1, <2>2
<1>12. ASSUME NEW sn \in d2.activeBits
       PROVE  /\ d2.entryFile[sn].entry.key \in StoredKeys'
              /\ idxTree'[d2.entryFile[sn].entry.key] = sn
  <2>1. CASE sn = m
    BY <1>2, <1>4, <2>1
  <2>2. CASE sn # m
    <3>1. sn \in datTree.activeBits /\ ~(k \in StoredKeys /\ sn = idxTree[k])
      BY <1>1, <1>2, <2>2
    <3>2. d2.entryFile[sn] = datTree.entryFile[sn]
      BY <1>7, <1>10, <3>1
    <3>3. LET j == datTree.entryFile[sn].entry.key IN j \in StoredKeys /\ idxTree[j] = sn
      BY <3>1 DEF ActiveIffIndexed, StoredKeys
    <3>. QED
      BY <1>4, <3>1, <3>2, <3>3
  <2>. QED
    BY <2>1, <2>2
<1>13. ActiveIffIndexed'
  BY <1>11, <1>12 DEF ActiveIffIndexed, StoredKeys, d2
<1>. QED
  BY <1>2, <1>4, <1>6, <1>8, <1>9, <1>13 DEF d2

\* Deactivating the entry of a key and taking the key out of the index.
LEMMA RemoveEntry ==
    ASSUME TypeOK, ActiveIffIndexed, StoredOK, NEW k \in StoredKeys,
           datTree' = DeactiviateEntry(datTree, idxTree[k]),
           idxTree' = IndexDelete(k)
    PROVE  /\ IsDataTree(datTree') /\ ActiveIffIndexed'
           /\ StoredKeys' = StoredKeys \ {k}
           /\ idxTree' \in [StoredKeys' -> Nat]
           /\ \A j \in StoredKeys : j # k => /\ idxTree'[j] = idxTree[j]
                                             /\ ReadEntry(j)' = ReadEntry(j)
<1> DEFINE d2 == datTree'
<1>0. d2 = WithoutKey(k)
  BY DEF WithoutKey
<1>1. /\ IsDataTree(d2)
      /\ \A sn : sn \in d2.activeBits <=>
            sn \in datTree.activeBits /\ ~(k \in StoredKeys /\ sn = idxTree[k])
      /\ \A s \in 0..(datTree.maxSerialNum - 1) : d2.entryFile[s] = datTree.entryFile[s]
  BY <1>0, WithoutKeyProp
<1>2. idxTree' = [i \in StoredKeys \ {k} |-> idxTree[i]]
  BY DEF IndexDelete, StoredKeys
<1>. HIDE DEF d2
<1>3. /\ StoredKeys' = StoredKeys \ {k}
      /\ \A j \in StoredKeys : j # k => idxTree'[j] = idxTree[j]
  BY <1>2 DEF StoredKeys
<1>4. \A j \in StoredKeys : idxTree[j] \in Nat /\ idxTree[j] \in 0..(datTree.maxSerialNum - 1)
  BY StoredEntry
<1>5. idxTree' \in [StoredKeys' -> Nat]
  BY <1>2, <1>3, <1>4
<1>6. \A j \in StoredKeys : j # k => ReadEntry(j)' = ReadEntry(j)
  BY <1>1, <1>3, <1>4 DEF ReadEntry, d2
<1>7. datTree.activeBits \subseteq 0..(datTree.maxSerialNum - 1)
  BY DEF TypeOK, IsDataTree
<1>8. ASSUME NEW j \in StoredKeys'
      PROVE  /\ idxTree'[j] \in d2.activeBits
             /\ d2.entryFile[idxTree'[j]].entry.key = j
             /\ d2.entryFile[idxTree'[j]].entry.serialNum = idxTree'[j]
  <2>1. j \in StoredKeys /\ j # k /\ idxTree'[j] = idxTree[j]
    BY <1>3
  <2>2. /\ idxTree[j] \in datTree.activeBits
        /\ datTree.entryFile[idxTree[j]].entry.key = j
        /\ datTree.entryFile[idxTree[j]].entry.serialNum = idxTree[j]
        /\ idxTree[j] # idxTree[k]
    BY <2>1 DEF ActiveIffIndexed, StoredKeys
  <2>. QED
    BY <1>1, <1>4, <2>1, <2>2
<1>9. ASSUME NEW sn \in d2.activeBits
      PROVE  /\ d2.entryFile[sn].entry.key \in StoredKeys'
             /\ idxTree'[d2.entryFile[sn].entry.key] = sn
  <2>1. sn \in datTree.activeBits /\ sn # idxTree[k]
    BY <1>1
  <2>2. d2.entryFile[sn] = datTree.entryFile[sn]
    BY <1>1, <1>7, <2>1
  <2>3. LET j == datTree.entryFile[sn].entry.key IN j \in StoredKeys /\ idxTree[j] = sn
    BY <2>1 DEF ActiveIffIndexed, StoredKeys
  <2>. QED
    BY <1>3, <2>1, <2>2, <2>3
<1>10. ActiveIffIndexed'
  BY <1>8, <1>9 DEF ActiveIffIndexed, StoredKeys, d2
<1>. QED
  BY <1>1, <1>3, <1>5, <1>6, <1>10 DEF d2

\* The final keys during the sweep: what the entries still to be written make of the index.
LEMMA SweepFacts ==
    ASSUME IInv, phase = "sweeping"
    PROVE  /\ TypeOK /\ CachedOK(todo) /\ todo \in SUBSET DOMAIN cachedEntries
           /\ StoredKeys \subseteq AllKeys /\ todo \subseteq AllKeys
           /\ FinalKeys \in SUBSET AllKeys /\ {StartKey, EndKey} \subseteq FinalKeys
           /\ \A j \in AllKeys : j \in FinalKeys <=>
                 \/ j \in StoredKeys /\ ~(j \in todo /\ IsRemoval(cachedEntries[j]))
                 \/ j \in todo /\ IsInserted(cachedEntries[j])
           /\ \A j \in todo :
                 (IsInserted(cachedEntries[j]) \/ IsRemoval(cachedEntries[j])) => cachedEntries[j].isModified
           /\ \A j \in FinalKeys : FinalNextKey(j) \in AllKeys
<1>1. /\ TypeOK /\ CachedOK(todo) /\ todo \in SUBSET DOMAIN cachedEntries
      /\ StoredKeys \subseteq AllKeys /\ todo \subseteq AllKeys /\ {StartKey, EndKey} \subseteq StoredKeys
  BY DEF IInv, TypeOK, SweepingOK, StoredOK, StoredKeys
<1>2. FinalKeys = (StoredKeys \ {j \in todo : IsRemoval(cachedEntries[j])})
                     \cup {j \in todo : IsInserted(cachedEntries[j])}
  BY DEF FinalKeys, Pending
<1>3. FinalKeys \in SUBSET AllKeys
  BY <1>1, <1>2
<1>4. \A j \in todo : IsRemoval(cachedEntries[j]) => j \in Keys
  BY <1>1, CachedFacts
<1>5. {StartKey, EndKey} \subseteq FinalKeys
  BY <1>1, <1>2, <1>4, KeyAssumption
<1>6. ASSUME NEW j \in todo, IsInserted(cachedEntries[j]) \/ IsRemoval(cachedEntries[j])
      PROVE  cachedEntries[j].isModified
  <2>1. cachedEntries[j].op # OpNone
    BY <1>6 DEF IsInserted, IsRemoval, OpNone, OpInsertOrChange, OpDelete
  <2>2. ~IsFakeInserted(cachedEntries[j])
    <3>1. CASE IsInserted(cachedEntries[j])
      <4>1. cachedEntries[j].entry.value \in Values
        BY <1>1, <3>1, CachedFacts
      <4>. QED
        BY <4>1, ValueAssumption DEF IsFakeInserted
    <3>2. CASE IsRemoval(cachedEntries[j])
      BY <3>2 DEF IsRemoval, IsFakeInserted, InsertedSN
    <3>. QED
      BY <1>6, <3>1, <3>2
  <2>. QED
    BY <2>1, <2>2 DEF IInv, SweepingOK
<1>7. ASSUME NEW j \in FinalKeys PROVE FinalNextKey(j) \in AllKeys
  <2>1. CASE j = EndKey
    BY <2>1 DEF IInv, SweepingOK, AllKeys
  <2>2. CASE j # EndKey
    <3>1. j \in AllKeys /\ EndKey \in Above(FinalKeys, j)
      BY <1>3, <1>5, <2>2, KeyAssumption DEF Above, AllKeys
    <3>2. FinalNextKey(j) = SuccOf(FinalKeys, j)
      BY <2>2 DEF IInv, SweepingOK
    <3>. QED
      BY <1>3, <3>1, <3>2, SuccProp
  <2>. QED
    BY <2>1, <2>2
<1>. QED
  BY <1>1, <1>2, <1>3, <1>5, <1>6, <1>7

\* The invariant after a step of the second loop, from what it did to the key it is at.
LEMMA SweepStep ==
    ASSUME IInv, phase = "sweeping", NEW k \in todo, todo' = todo \ {k},
           UNCHANGED <<phase, currHeight, oldestActiveTwigID, fillVars, cachedEntries, batch>>,
           IsDataTree(datTree'), ActiveIffIndexed', idxTree' \in [StoredKeys' -> Nat],
           \A j : j # k => (j \in StoredKeys' <=> j \in StoredKeys),
           k \in StoredKeys' <=> k \in FinalKeys,
           \A j \in StoredKeys : j # k => idxTree'[j] = idxTree[j] /\ ReadEntry(j)' = ReadEntry(j),
           k \in FinalKeys => ReadEntry(k)'.nextKey = FinalNextKey(k)
    PROVE  IInv'
<1> DEFINE c == cachedEntries
           F == FinalKeys
<1>0. /\ phase' = "sweeping" /\ batch' = batch
      /\ UNCHANGED <<currHeight, oldestActiveTwigID, k2heMap, k2nkMap, task, forUpdate,
                     forDeletion, cachedEntries>>
  BY DEF fillVars
<1>1. /\ TypeOK /\ CachedOK(todo) /\ todo \in SUBSET DOMAIN cachedEntries
      /\ StoredKeys \subseteq AllKeys /\ todo \subseteq AllKeys
      /\ F \in SUBSET AllKeys /\ {StartKey, EndKey} \subseteq F
      /\ \A j \in AllKeys : j \in F <=>
            \/ j \in StoredKeys /\ ~(j \in todo /\ IsRemoval(c[j]))
            \/ j \in todo /\ IsInserted(c[j])
      /\ \A j \in todo : (IsInserted(c[j]) \/ IsRemoval(c[j])) => c[j].isModified
      /\ \A j \in F : FinalNextKey(j) \in AllKeys
  BY SweepFacts
<1>2. StoredKeys' \subseteq AllKeys
  BY <1>1
<1>3. TypeOK'
  BY <1>0, <1>2 DEF IInv, TypeOK, StoredKeys
<1>4. F' = F
  <2>1. F' = (StoredKeys' \ {j \in todo' : IsRemoval(c[j])}) \cup {j \in todo' : IsInserted(c[j])}
    BY <1>0 DEF FinalKeys, Pending
  <2>2. ASSUME NEW j \in AllKeys PROVE j \in F' <=> j \in F
    BY <1>1, <2>1
  <2>3. F' \subseteq AllKeys
    BY <1>1, <1>2, <2>1
  <2>. QED
    BY <1>1, <2>2, <2>3
<1>5. StoredOK'
  <2>1. {StartKey, EndKey} \subseteq StoredKeys'
    <3>1. {StartKey, EndKey} \subseteq StoredKeys
      BY DEF IInv, StoredOK
    <3>. QED
      BY <1>1, <3>1
  <2>2. ASSUME NEW j \in StoredKeys' PROVE ReadEntry(j)'.nextKey \in AllKeys
    <3>1. CASE j = k
      BY <1>1, <3>1
    <3>2. CASE j # k
      BY <3>2 DEF IInv, StoredOK
    <3>. QED
      BY <3>1, <3>2
  <2>. QED
    BY <2>1, <2>2 DEF StoredOK
<1>6. LinkedList' /\ TasksOK' /\ FillingOK' /\ LinkingOK'
  BY <1>0 DEF IInv, LinkedList, TasksOK, FillingOK, LinkingOK
<1>7. CachedOK(todo)'
  <2>1. ASSUME NEW j \in todo'
        PROVE  /\ j \in StoredKeys' <=> j \in StoredKeys
               /\ j \in StoredKeys => idxTree'[j] = idxTree[j] /\ ReadEntry(j)' = ReadEntry(j)
               /\ j \in todo
    OBVIOUS
  <2>. QED
    BY <1>0, <1>1, <2>1 DEF CachedOK
<1>8. ASSUME NEW j \in F PROVE FinalNextKey(j)' = FinalNextKey(j)
  <2>1. FinalNextKey(j)' = IF j \in todo' /\ (c[j].isModified \/ c[j].isTouchedByNext)
                           THEN c[j].entry.nextKey ELSE ReadEntry(j)'.nextKey
    BY <1>0 DEF FinalNextKey
  <2>2. FinalNextKey(j) = IF j \in todo /\ (c[j].isModified \/ c[j].isTouchedByNext)
                          THEN c[j].entry.nextKey ELSE ReadEntry(j).nextKey
    BY DEF FinalNextKey
  <2>3. CASE j = k
    BY <2>1, <2>3
  <2>4. CASE j # k /\ j \in todo /\ (c[j].isModified \/ c[j].isTouchedByNext)
    BY <2>1, <2>2, <2>4, Zenon
  <2>5. CASE j # k /\ ~(j \in todo /\ (c[j].isModified \/ c[j].isTouchedByNext))
    <3>1. j \in StoredKeys
      BY <1>1, <2>5
    <3>2. j \in todo' => j \in todo
      OBVIOUS
    <3>. QED
      BY <2>1, <2>2, <2>5, <3>1, <3>2, Zenon
  <2>. QED
    BY <2>3, <2>4, <2>5
<1>9. SweepingOK'
  <2>1. FinalNextKey(EndKey)' = EndKey
    BY <1>1, <1>8 DEF IInv, SweepingOK
  <2>2. \A j \in F' \ {EndKey} : FinalNextKey(j)' = SuccOf(F', j)
    BY <1>4, <1>8 DEF IInv, SweepingOK
  <2>3. \A j \in todo' : /\ c[j].isModified => c[j].op # OpNone
                         /\ c[j].op # OpNone /\ ~IsFakeInserted(c[j]) => c[j].isModified
    BY DEF IInv, SweepingOK
  <2>. QED
    BY <1>0, <1>7, <2>1, <2>2, <2>3 DEF SweepingOK
<1>. QED
  BY <1>3, <1>5, <1>6, <1>9 DEF IInv

\* The entry the second loop appends.
VersionOf(p, ht, m) == [p EXCEPT !.lastHeight = p.height, !.height = ht, !.serialNum = m]

LEMMA NewVersion ==
    ASSUME NEW p \in Entry, NEW ht \in Int, NEW m \in Nat
    PROVE  LET e == VersionOf(p, ht, m)
           IN  /\ e \in Entry /\ e.key = p.key /\ e.value = p.value /\ e.nextKey = p.nextKey
               /\ e.serialNum = m /\ e.height = ht /\ e.lastHeight = p.height
<1> DEFINE e == VersionOf(p, ht, m)
           p1 == [p EXCEPT !.lastHeight = p.height]
           p2 == [p1 EXCEPT !.height = ht]
<1>1. /\ p1 \in Entry /\ p1.key = p.key /\ p1.value = p.value /\ p1.nextKey = p.nextKey
      /\ p1.lastHeight = p.height
  BY DEF Entry
<1>. HIDE DEF p1
<1>2. /\ p2 \in Entry /\ p2.key = p.key /\ p2.value = p.value /\ p2.nextKey = p.nextKey
      /\ p2.lastHeight = p.height /\ p2.height = ht
  BY <1>1 DEF Entry
<1>3. e = [p2 EXCEPT !.serialNum = m]
  BY DEF p1, VersionOf
<1>. HIDE DEF p2, e
<1>4. /\ e \in Entry /\ e.key = p.key /\ e.value = p.value /\ e.nextKey = p.nextKey
      /\ e.serialNum = m /\ e.height = ht /\ e.lastHeight = p.height
  BY <1>2, <1>3 DEF Entry
<1>. QED
  BY <1>4 DEF e

\* What a step of the second loop does to the entry it is at: it removes the key, appends
\* the key's new entry, or passes over a cached entry that did not change.
SweptAway(k) ==
    /\ IsRemoval(cachedEntries[k]) /\ k \in StoredKeys /\ k \notin FinalKeys
    /\ idxTree' = IndexDelete(k) /\ datTree' = WithoutKey(k)

Rewritten(k) ==
    LET h == cachedEntries[k]
    IN  /\ h.isModified \/ h.isTouchedByNext
        /\ k \in FinalKeys
        /\ (h.entry.serialNum >= 0 /\ h.op # OpDelete) \/ IsInserted(h)
        /\ \E e \in Entry :
              /\ e.key = k /\ e.value = h.entry.value /\ e.nextKey = h.entry.nextKey
              /\ e.height = currHeight /\ e.lastHeight = h.entry.height
              /\ e.serialNum = WithoutKey(k).maxSerialNum
              /\ datTree' = AppendEntry(WithoutKey(k), e)
              /\ idxTree' = IndexSet(k, WithoutKey(k).maxSerialNum)

PassedOver(k) ==
    LET h == cachedEntries[k]
    IN  /\ ~(h.isModified \/ h.isTouchedByNext)
        /\ k \in FinalKeys <=> k \in StoredKeys
        /\ UNCHANGED <<idxTree, datTree>>

LEMMA SweptEntry ==
    ASSUME IInv, SweepEntry
    PROVE  \E k \in todo : /\ todo' = todo \ {k}
                           /\ SweptAway(k) \/ Rewritten(k) \/ PassedOver(k)
<1>0. PICK k : k = Least(todo)
  OBVIOUS
<1> DEFINE h == cachedEntries[k]
           changed == h.isModified \/ h.isTouchedByNext
           removes == h.op = OpDelete /\ h.entry.serialNum >= 0
<1>1. phase = "sweeping" /\ todo' = todo \ {k} /\ todo # {}
  BY <1>0 DEF SweepEntry
<1>2. /\ TypeOK /\ ActiveIffIndexed /\ StoredOK
      /\ CachedOK(todo) /\ todo \in SUBSET DOMAIN cachedEntries
      /\ todo \in SUBSET AllKeys
      /\ \A j \in AllKeys : j \in FinalKeys <=>
            \/ j \in StoredKeys /\ ~(j \in todo /\ IsRemoval(cachedEntries[j]))
            \/ j \in todo /\ IsInserted(cachedEntries[j])
      /\ \A j \in todo :
            (IsInserted(cachedEntries[j]) \/ IsRemoval(cachedEntries[j])) => cachedEntries[j].isModified
  BY <1>1, SweepFacts DEF IInv
<1>3. k \in todo /\ k \in AllKeys
  BY <1>0, <1>1, <1>2, LeastProp
<1>4. /\ h \in HotEntry /\ h.entry \in Entry /\ h.entry.serialNum \in Int
      /\ h.op \in {OpNone, OpInsertOrChange, OpDelete} /\ h.entry.key = k
      /\ h.isModified \in BOOLEAN /\ h.isTouchedByNext \in BOOLEAN
      /\ IsRemoval(h) => k \in StoredKeys
      /\ IsInserted(h) => k \notin StoredKeys
      /\ h.entry.serialNum >= 0 => k \in StoredKeys
  BY <1>2, <1>3, CachedFacts
<1>5. /\ h.entry.serialNum >= 0 => h.entry.serialNum = idxTree[k]
      /\ h.entry.serialNum < 0 =>
            \/ ~h.isTouchedByNext /\ ~h.isModified
            \/ h.entry.serialNum = InsertedSN /\ h.op = OpInsertOrChange
  BY <1>2, <1>3 DEF CachedOK
<1>7. CASE changed /\ removes /\ SweepDelete(k)
  <2>1. IsRemoval(h) /\ k \in StoredKeys /\ h.entry.serialNum = idxTree[k] /\ ~IsInserted(h)
    BY <1>4, <1>5, <1>7 DEF IsRemoval, IsInserted, OpDelete, OpInsertOrChange
  <2>2. k \notin FinalKeys
    BY <1>2, <1>3, <2>1
  <2>3. idxTree' = IndexDelete(k) /\ datTree' = WithoutKey(k)
    BY <1>7, <2>1 DEF SweepDelete, WithoutKey
  <2>. QED
    BY <1>1, <1>3, <2>1, <2>2, <2>3 DEF SweptAway
<1>8. CASE changed /\ ~removes /\ SweepAppend(k)
  <2>1. \/ h.entry.serialNum >= 0 /\ h.op # OpDelete
        \/ h.entry.serialNum < 0 /\ IsInserted(h)
    BY <1>4, <1>5, <1>8 DEF IsInserted
  <2>2. k \in FinalKeys
    BY <1>2, <1>3, <1>4, <2>1 DEF IsRemoval
  <2> DEFINE d1 == WithoutKey(k)
             m == d1.maxSerialNum
             e == [h.entry EXCEPT !.lastHeight = h.entry.height, !.height = currHeight,
                                  !.serialNum = m]
  <2>3. DeactiviateIfStored(datTree, h.entry.serialNum) = d1
    <3>1. CASE h.entry.serialNum >= 0
      BY <1>4, <1>5, <3>1 DEF DeactiviateIfStored, WithoutKey
    <3>2. CASE ~(h.entry.serialNum >= 0)
      <4>1. k \notin StoredKeys
        BY <1>4, <2>1, <3>2
      <4>. QED
        BY <3>2, <4>1 DEF DeactiviateIfStored, WithoutKey
    <3>. QED
      BY <3>1, <3>2
  <2>4. datTree' = AppendEntry(d1, e) /\ idxTree' = IndexSet(k, m)
    BY <1>8, <2>3 DEF SweepAppend
  <2>5. m \in Nat
    BY <1>2, WithoutKeyProp
  <2>6. /\ e \in Entry /\ e.key = k /\ e.serialNum = m
        /\ e.nextKey = h.entry.nextKey /\ e.value = h.entry.value
        /\ e.height = currHeight /\ e.lastHeight = h.entry.height
    <3>. HIDE DEF m, h
    <3>1. currHeight \in Int
      BY <1>2 DEF TypeOK
    <3>2. e = VersionOf(h.entry, currHeight, m) /\ h.entry \in Entry /\ h.entry.key = k
      BY <1>4 DEF VersionOf
    <3>. HIDE DEF e
    <3>. QED
      BY <2>5, <3>1, <3>2, NewVersion
  <2>. HIDE DEF e
  <2>7. Rewritten(k)
    BY <1>8, <2>1, <2>2, <2>4, <2>6 DEF Rewritten
  <2>. QED
    BY <1>1, <1>3, <2>7
<1>9. CASE ~changed /\ UNCHANGED <<idxTree, datTree>>
  <2>1. ~IsRemoval(h) /\ ~IsInserted(h)
    BY <1>2, <1>3, <1>9
  <2>2. k \in FinalKeys <=> k \in StoredKeys
    BY <1>2, <1>3, <2>1
  <2>. QED
    BY <1>1, <1>3, <1>9, <2>2 DEF PassedOver
<1>. QED
  BY <1>0, <1>7, <1>8, <1>9 DEF SweepEntry

LEMMA SweepEntryIInv ==
    ASSUME IInv, SweepEntry
    PROVE  IInv'
<1>1. /\ phase = "sweeping"
      /\ UNCHANGED <<phase, currHeight, oldestActiveTwigID, fillVars, cachedEntries, batch>>
  BY DEF SweepEntry
<1>2. PICK k \in todo : todo' = todo \ {k} /\ (SweptAway(k) \/ Rewritten(k) \/ PassedOver(k))
  BY SweptEntry
<1>3. TypeOK /\ ActiveIffIndexed /\ StoredOK /\ k \in AllKeys
  BY <1>1, SweepFacts DEF IInv
<1> DEFINE h == cachedEntries[k]
<1>4. CASE SweptAway(k)
  <2>1. k \notin FinalKeys
    BY <1>4 DEF SweptAway
  <2>2. /\ IsDataTree(datTree') /\ ActiveIffIndexed'
        /\ StoredKeys' = StoredKeys \ {k}
        /\ idxTree' \in [StoredKeys' -> Nat]
        /\ \A j \in StoredKeys : j # k => idxTree'[j] = idxTree[j] /\ ReadEntry(j)' = ReadEntry(j)
    BY <1>3, <1>4, RemoveEntry DEF SweptAway, WithoutKey
  <2>. QED
    BY <1>1, <1>2, <2>1, <2>2, SweepStep
<1>5. CASE Rewritten(k)
  <2>1. PICK e \in Entry :
              /\ e.key = k /\ e.nextKey = h.entry.nextKey
              /\ e.serialNum = WithoutKey(k).maxSerialNum
              /\ datTree' = AppendEntry(WithoutKey(k), e)
              /\ idxTree' = IndexSet(k, WithoutKey(k).maxSerialNum)
    BY <1>5 DEF Rewritten
  <2>2. k \in FinalKeys /\ (h.isModified \/ h.isTouchedByNext)
    BY <1>5 DEF Rewritten
  <2>3. FinalNextKey(k) = h.entry.nextKey
    BY <1>2, <2>2 DEF FinalNextKey
  <2>4. /\ IsDataTree(datTree') /\ ActiveIffIndexed'
        /\ StoredKeys' = StoredKeys \cup {k}
        /\ idxTree' \in [StoredKeys' -> Nat]
        /\ ReadEntry(k)' = e
        /\ \A j \in StoredKeys : j # k => idxTree'[j] = idxTree[j] /\ ReadEntry(j)' = ReadEntry(j)
    BY <1>3, <2>1, ReplaceEntry
  <2>5. /\ ReadEntry(k)'.nextKey = FinalNextKey(k) /\ k \in StoredKeys'
        /\ \A j : j # k => (j \in StoredKeys' <=> j \in StoredKeys)
    BY <2>1, <2>3, <2>4
  <2>. QED
    BY <1>1, <1>2, <2>2, <2>4, <2>5, SweepStep
<1>6. CASE PassedOver(k)
  <2>1. ~(h.isModified \/ h.isTouchedByNext) /\ UNCHANGED <<idxTree, datTree>>
        /\ (k \in FinalKeys <=> k \in StoredKeys)
    BY <1>6 DEF PassedOver
  <2>2. StoredKeys' = StoredKeys /\ \A j : ReadEntry(j)' = ReadEntry(j)
    BY <2>1 DEF StoredKeys, ReadEntry
  <2>3. ActiveIffIndexed' /\ IsDataTree(datTree') /\ idxTree' \in [StoredKeys' -> Nat]
    BY <1>3, <2>1, <2>2 DEF ActiveIffIndexed, TypeOK, StoredKeys
  <2>4. FinalNextKey(k) = ReadEntry(k).nextKey
    BY <2>1 DEF FinalNextKey
  <2>. QED
    BY <1>1, <1>2, <2>1, <2>2, <2>3, <2>4, SweepStep
<1>. QED
  BY <1>2, <1>4, <1>5, <1>6

LEMMA EndSweepingIInv ==
    ASSUME IInv, EndSweeping
    PROVE  IInv'
<1>0. /\ phase = "sweeping" /\ todo = {} /\ phase' = "compacting"
      /\ UNCHANGED <<currHeight, oldestActiveTwigID, idxTree, datTree, k2heMap, k2nkMap, task,
                     forUpdate, forDeletion, cachedEntries, todo, batch>>
  BY DEF EndSweeping, storeVars, fillVars
<1>1. StoredKeys' = StoredKeys /\ \A j : ReadEntry(j)' = ReadEntry(j)
  BY <1>0 DEF StoredKeys, ReadEntry
<1>2. TypeOK'
  BY <1>0 DEF IInv, TypeOK
<1>3. ActiveIffIndexed' /\ StoredOK'
  BY <1>0, <1>1 DEF IInv, ActiveIffIndexed, StoredOK
<1>4. TasksOK' /\ FillingOK' /\ LinkingOK' /\ SweepingOK'
  BY <1>0 DEF IInv, TasksOK, FillingOK, LinkingOK, SweepingOK
<1>5. FinalKeys = StoredKeys
  BY <1>0 DEF FinalKeys, Pending
<1>6. \A j : FinalNextKey(j) = ReadEntry(j).nextKey
  BY <1>0 DEF FinalNextKey
<1>7. /\ {StartKey, EndKey} \subseteq StoredKeys
      /\ ReadEntry(EndKey).nextKey = EndKey
      /\ \A j \in StoredKeys \ {EndKey} : ReadEntry(j).nextKey = SuccOf(StoredKeys, j)
  BY <1>0, <1>5, <1>6 DEF IInv, StoredOK, SweepingOK
<1>8. LinkedList'
  BY <1>0, <1>1, <1>7 DEF LinkedList, StoredKeys, SuccOf
<1>. QED
  BY <1>2, <1>3, <1>4, <1>8 DEF IInv

\* A step that only moves between phases outside the three loops of update().
LEMMA CompactionFrame ==
    ASSUME IInv, phase \in {"compacting", "reaping"}, phase' \in {"compacting", "reaping"},
           oldestActiveTwigID' \in Nat,
           UNCHANGED <<currHeight, idxTree, datTree, fillVars, cachedEntries, todo, batch>>
    PROVE  IInv'
<1>0. UNCHANGED <<currHeight, idxTree, datTree, k2heMap, k2nkMap, task, forUpdate,
                  forDeletion, cachedEntries, todo, batch>>
  BY DEF fillVars
<1>1. StoredKeys' = StoredKeys /\ \A j : ReadEntry(j)' = ReadEntry(j)
  BY <1>0 DEF StoredKeys, ReadEntry
<1>2. TypeOK'
  BY <1>0 DEF IInv, TypeOK
<1>3. ActiveIffIndexed' /\ StoredOK' /\ LinkedList'
  BY <1>0, <1>1 DEF IInv, ActiveIffIndexed, StoredOK, LinkedList
<1>4. TasksOK' /\ FillingOK' /\ LinkingOK' /\ SweepingOK'
  BY <1>0 DEF IInv, TasksOK, FillingOK, LinkingOK, SweepingOK
<1>. QED
  BY <1>2, <1>3, <1>4 DEF IInv

LEMMA StartReapingIInv ==
    ASSUME IInv, StartReaping
    PROVE  IInv'
<1>1. oldestActiveTwigID \in Nat
  BY DEF IInv, TypeOK
<1>. QED
  BY <1>1, CompactionFrame DEF StartReaping, storeVars

LEMMA EvictTwigIInv ==
    ASSUME IInv, EvictTwig
    PROVE  IInv'
<1>1. oldestActiveTwigID + 1 \in Nat
  BY DEF IInv, TypeOK
<1>. QED
  BY <1>1, CompactionFrame DEF EvictTwig

\* The entry compaction moves is the one its key is indexed at.
LEMMA ReapedEntry ==
    ASSUME IInv, ReapEntry
    PROVE  \E sn \in datTree.activeBits, k \in StoredKeys :
              /\ sn = Least(ActiveInOldestTwig) /\ sn \in ActiveInOldestTwig
              /\ k = datTree.entryFile[sn].entry.key
              /\ idxTree[k] = sn /\ sn \in 0..(datTree.maxSerialNum - 1)
              /\ datTree.entryFile[sn].entry = ReadEntry(k)
              /\ WithoutKey(k) = DeactiviateEntry(datTree, sn)
              /\ datTree' = AppendEntry(WithoutKey(k),
                               [ReadEntry(k) EXCEPT !.serialNum = WithoutKey(k).maxSerialNum])
              /\ idxTree' = IndexSet(k, WithoutKey(k).maxSerialNum)
<1>1. datTree.activeBits \subseteq 0..(datTree.maxSerialNum - 1) /\ datTree.maxSerialNum \in Nat
  BY DEF IInv, TypeOK, IsDataTree
<1>2. /\ ActiveInOldestTwig \in SUBSET Nat /\ ActiveInOldestTwig \subseteq datTree.activeBits
      /\ ActiveInOldestTwig # {}
  BY <1>1 DEF ActiveInOldestTwig, ReapEntry
<1>3. PICK sn : sn = Least(ActiveInOldestTwig)
  OBVIOUS
<1>4. sn \in ActiveInOldestTwig /\ sn \in datTree.activeBits /\ sn \in 0..(datTree.maxSerialNum - 1)
  BY <1>1, <1>2, <1>3, LeastSN
<1>5. PICK k : k = datTree.entryFile[sn].entry.key
  OBVIOUS
<1>6. k \in StoredKeys /\ idxTree[k] = sn
  BY <1>4, <1>5 DEF IInv, ActiveIffIndexed, StoredKeys
<1>7. datTree.entryFile[sn].entry = ReadEntry(k) /\ WithoutKey(k) = DeactiviateEntry(datTree, sn)
  BY <1>6 DEF ReadEntry, WithoutKey
<1>8. /\ datTree' = AppendEntry(WithoutKey(k),
                       [ReadEntry(k) EXCEPT !.serialNum = WithoutKey(k).maxSerialNum])
      /\ idxTree' = IndexSet(k, WithoutKey(k).maxSerialNum)
  BY <1>3, <1>5, <1>7 DEF ReapEntry
<1>. QED
  BY <1>3, <1>4, <1>5, <1>6, <1>7, <1>8

LEMMA ReapEntryIInv ==
    ASSUME IInv, ReapEntry
    PROVE  IInv'
<1>0. /\ phase = "reaping" /\ phase' = "reaping"
      /\ UNCHANGED <<currHeight, oldestActiveTwigID, k2heMap, k2nkMap, task, forUpdate,
                     forDeletion, cachedEntries, todo, batch>>
  BY DEF ReapEntry, fillVars
<1>1. PICK k \in StoredKeys :
        /\ datTree' = AppendEntry(WithoutKey(k),
                         [ReadEntry(k) EXCEPT !.serialNum = WithoutKey(k).maxSerialNum])
        /\ idxTree' = IndexSet(k, WithoutKey(k).maxSerialNum)
  BY ReapedEntry
<1>2. TypeOK /\ ActiveIffIndexed /\ StoredOK
  BY DEF IInv
<1> DEFINE m == WithoutKey(k).maxSerialNum
           e == [ReadEntry(k) EXCEPT !.serialNum = m]
<1>3. m \in Nat
  BY <1>2, WithoutKeyProp
<1>4. ReadEntry(k) \in Entry /\ ReadEntry(k).key = k /\ k \in AllKeys /\ ReadEntry(k).nextKey \in AllKeys
  BY <1>2, StoredEntry
<1>5. e \in Entry /\ e.key = k /\ e.serialNum = m /\ e.nextKey = ReadEntry(k).nextKey
  <2>. HIDE DEF m
  <2>. QED
    BY <1>3, <1>4 DEF Entry
<1>6. datTree' = AppendEntry(WithoutKey(k), e) /\ idxTree' = IndexSet(k, WithoutKey(k).maxSerialNum)
      /\ e.serialNum = WithoutKey(k).maxSerialNum
  BY <1>1, <1>5
<1>. HIDE DEF m, e
<1>7. /\ IsDataTree(datTree') /\ ActiveIffIndexed'
      /\ StoredKeys' = StoredKeys \cup {k}
      /\ idxTree' \in [StoredKeys' -> Nat]
      /\ ReadEntry(k)' = e
      /\ \A j \in StoredKeys : j # k => ReadEntry(j)' = ReadEntry(j)
  BY <1>2, <1>4, <1>5, <1>6, ReplaceEntry
<1>8. /\ StoredKeys' = StoredKeys
      /\ \A j \in StoredKeys : ReadEntry(j)'.nextKey = ReadEntry(j).nextKey
  BY <1>5, <1>7
<1>9. TypeOK'
  BY <1>0, <1>7, <1>8 DEF IInv, TypeOK, StoredKeys
<1>10. StoredOK'
  BY <1>2, <1>8 DEF StoredOK
<1>11. LinkedList'
  <2>1. /\ {StartKey, EndKey} \subseteq StoredKeys
        /\ ReadEntry(EndKey).nextKey = EndKey
        /\ \A j \in StoredKeys \ {EndKey} : ReadEntry(j).nextKey = Least(Above(StoredKeys, j))
    BY <1>0 DEF IInv, LinkedList, StoredKeys
  <2>2. /\ {StartKey, EndKey} \subseteq StoredKeys'
        /\ ReadEntry(EndKey)'.nextKey = EndKey
        /\ \A j \in StoredKeys' \ {EndKey} : ReadEntry(j)'.nextKey = Least(Above(StoredKeys', j))
    BY <1>8, <2>1
  <2>. QED
    BY <2>2 DEF LinkedList, StoredKeys
<1>12. TasksOK' /\ FillingOK' /\ LinkingOK' /\ SweepingOK'
  BY <1>0 DEF IInv, TasksOK, FillingOK, LinkingOK, SweepingOK
<1>. QED
  BY <1>7, <1>9, <1>10, <1>11, <1>12 DEF IInv

LEMMA EndBlockIInv ==
    ASSUME IInv, EndBlock
    PROVE  IInv'
<1>0. /\ phase = "compacting" /\ phase' = "filling"
      /\ k2heMap' = <<>> /\ k2nkMap' = {} /\ forUpdate' = {} /\ forDeletion' = {}
      /\ cachedEntries' = <<>>
      /\ UNCHANGED <<currHeight, oldestActiveTwigID, idxTree, datTree, task, todo, batch>>
  BY DEF EndBlock, storeVars
<1>1. StoredKeys' = StoredKeys /\ \A j : ReadEntry(j)' = ReadEntry(j)
  BY <1>0 DEF StoredKeys, ReadEntry
<1>2. todo = {} /\ batch = [k \in Keys |-> NoOp] /\ \A w \in Workers : task[w] = Idle
  BY <1>0 DEF IInv, TasksOK
<1>3. DOMAIN k2heMap' = {} /\ DOMAIN cachedEntries' = {}
      /\ k2heMap' \in [{} -> HotEntry] /\ cachedEntries' \in [{} -> HotEntry]
  BY <1>0
<1>4. TypeOK'
  BY <1>0, <1>2, <1>3 DEF IInv, TypeOK
<1>5. ActiveIffIndexed' /\ StoredOK' /\ LinkedList'
  BY <1>0, <1>1 DEF IInv, ActiveIffIndexed, StoredOK, LinkedList
<1>6. TasksOK' /\ LinkingOK' /\ SweepingOK'
  BY <1>0 DEF IInv, TasksOK, LinkingOK, SweepingOK
<1>7. \A w \in Workers : /\ task'[w].he = <<>> /\ task'[w].nk = {}
                         /\ 1..Len(task'[w].he) = {}
  BY <1>0, <1>2 DEF Idle
<1>8. WillBeHot' = {} /\ WillBeNext' = {}
  BY <1>0, <1>3, <1>7 DEF WillBeHot, WillBeNext
<1>9. FillingOK'
  <2>1. Closed({}, {})'
    BY <1>0 DEF Closed
  <2>2. /\ \A k \in DOMAIN k2heMap' : HotEntryOK(k, k2heMap[k])'
        /\ WillBeNext' \subseteq StoredKeys'
        /\ Closed(WillBeHot, WillBeNext)'
    BY <1>3, <1>8, <2>1
  <2>3. \A w \in Workers : \A i \in 1..Len(task'[w].he) : FALSE
    BY <1>7
  <2>4. \A k \in Keys : batch'[k] = NoOp
    BY <1>0, <1>2
  <2>. QED
    BY <1>0, <1>2, <2>2, <2>3, <2>4 DEF FillingOK
<1>. QED
  BY <1>4, <1>5, <1>6, <1>9 DEF IInv

-----------------------------------------------------------------------------
(* The invariant *)

LEMMA NextIInv ==
    ASSUME OneOpPerKey, IInv, [Next]_vars
    PROVE  IInv'
<1>1. CASE Prepare
  BY <1>1, PrepareForUpdateIInv, PrepareForDeletionIInv, StoreHotEntryIInv, StoreNextKeyIInv
     DEF Prepare
<1>2. CASE Mark
  BY <1>2, BeginWriteIInv, SetIInv, DeleteIInv DEF Mark
<1>3. CASE EndWrite
  BY <1>3, GatherIInv, LinkEntryIInv, EndLinkingIInv, SweepEntryIInv, EndSweepingIInv,
     StartReapingIInv, ReapEntryIInv, EvictTwigIInv, EndBlockIInv DEF EndWrite
<1>4. CASE UNCHANGED vars
  <2>0. UNCHANGED <<phase, currHeight, oldestActiveTwigID, idxTree, datTree, k2heMap, k2nkMap,
                   task, forUpdate, forDeletion, cachedEntries, todo, batch>>
    BY <1>4 DEF vars
  <2>1. StoredKeys' = StoredKeys /\ \A k : ReadEntry(k)' = ReadEntry(k)
    BY <2>0 DEF StoredKeys, ReadEntry
  <2>2. TypeOK' /\ ActiveIffIndexed' /\ StoredOK' /\ LinkedList' /\ TasksOK'
    BY <2>0, <2>1 DEF IInv, TypeOK, ActiveIffIndexed, StoredOK, LinkedList, TasksOK
  <2>3. FillingOK'
    <3>1. WillBeHot' = WillBeHot /\ WillBeNext' = WillBeNext /\ \A k : CommittedEntry(k)' = CommittedEntry(k)
      BY <2>0, <2>1 DEF WillBeHot, WillBeNext, CommittedEntry
    <3>2. \A k \in DOMAIN k2heMap : HotEntryOK(k, k2heMap[k]) => HotEntryOK(k, k2heMap[k])'
      BY <2>0, <3>1 DEF HotEntryOK
    <3>3. Closed(WillBeHot, WillBeNext) => Closed(WillBeHot, WillBeNext)'
      BY <2>0, <2>1, <3>1 DEF Closed
    <3>. QED
      BY <2>0, <2>1, <3>1, <3>2, <3>3 DEF IInv, FillingOK
  <2>4. FinalKeys' = FinalKeys /\ \A k : FinalNextKey(k)' = FinalNextKey(k)
    BY <2>0, <2>1 DEF FinalKeys, Pending, FinalNextKey
  <2>5. \A T : CachedOK(T) => CachedOK(T)'
    BY <2>0, <2>1 DEF CachedOK
  <2>6. LinkingOK' /\ SweepingOK'
    BY <2>0, <2>1, <2>4, <2>5 DEF IInv, LinkingOK, SweepingOK
  <2>. QED
    BY <2>2, <2>3, <2>6 DEF IInv
<1>. QED
  BY <1>1, <1>2, <1>3, <1>4 DEF Next

\* For a client that issues one operation per key and block, as TrunkStore.writeBack does,
\* the inductive invariant holds throughout: whatever the goroutines prepare, in any order,
\* EndWrite finds the neighbours it needs and leaves index, file and links consistent.
THEOREM Invariance == OneOpPerKey => (Spec => []IInv)
<1>. SUFFICES ASSUME OneOpPerKey PROVE Spec => []IInv
  OBVIOUS
<1>1. Init => IInv
  BY InitIInv
<1>2. IInv /\ [Next]_vars => IInv'
  BY NextIInv
<1>. QED
  BY <1>1, <1>2, PTL DEF Spec

\* The index and the active bits agree at every step of every block.
THEOREM IndexAgreesWithActiveBits == OneOpPerKey => (Spec => []ActiveIffIndexed)
<1>1. IInv => ActiveIffIndexed
  BY DEF IInv
<1>. QED
  BY <1>1, Invariance, PTL

\* Outside the sweep the NextKey links are exactly the order of the index.
THEOREM LinksAreSorted == OneOpPerKey => (Spec => []LinkedList)
<1>1. IInv => LinkedList
  BY DEF IInv
<1>. QED
  BY <1>1, Invariance, PTL

\* Type correctness.
THEOREM TypeCorrect == OneOpPerKey => (Spec => []TypeOK)
<1>1. IInv => TypeOK
  BY DEF IInv
<1>. QED
  BY <1>1, Invariance, PTL

LEMMA IInvNoPanic == IInv => NoPanic
<1>. SUFFICES ASSUME IInv PROVE NoPanic
  OBVIOUS
<1>1. phase = "marking" => forUpdate \subseteq DOMAIN k2heMap
  BY MarkingHot DEF Closed
<1>2. ASSUME phase = "linking", NEW k \in DOMAIN cachedEntries, cachedEntries[k].op # OpNone
      PROVE  /\ ~IsHintHotEntry(cachedEntries[k])
             /\ (cachedEntries[k].op = OpDelete \/ IsInserted(cachedEntries[k]))
                   /\ ~IsFakeInserted(cachedEntries[k]) =>
                  /\ Above(LiveKeys, k) # {}
                  /\ Below(LiveKeys, k) # {}
                  /\ ~IsHintHotEntry(cachedEntries[GetPrev(k)])
  <2> DEFINE h == cachedEntries[k]
  <2>1. TypeOK /\ CachedOK(DOMAIN cachedEntries)
    BY <1>2 DEF IInv, LinkingOK
  <2>2. /\ h.entry.serialNum \in Int
        /\ IsHintHotEntry(h) => h.op = OpNone
        /\ h.entry.serialNum < 0 /\ ~IsHintHotEntry(h) =>
              /\ h.entry.serialNum = InsertedSN
              /\ h.op = OpInsertOrChange <=> h.entry.value # NoValue
    BY <2>1, CachedFacts
  <2>3. ~IsHintHotEntry(h)
    BY <1>2, <2>2
  <2>4. ASSUME h.op = OpDelete \/ IsInserted(h), ~IsFakeInserted(h)
        PROVE  k \in InsertedKeys \cup RemovedKeys
    <3>1. CASE IsInserted(h)
      BY <3>1 DEF InsertedKeys
    <3>2. CASE h.op = OpDelete
      <4>1. h.entry.serialNum >= 0
        BY <2>2, <2>3, <2>4, <3>2 DEF IsFakeInserted, OpDelete, OpInsertOrChange
      <4>. QED
        BY <3>2, <4>1 DEF RemovedKeys, IsRemoval
    <3>. QED
      BY <2>4, <3>1, <3>2
  <2>5. ASSUME k \in InsertedKeys \cup RemovedKeys
        PROVE  Above(LiveKeys, k) # {} /\ Below(LiveKeys, k) # {}
               /\ ~IsHintHotEntry(cachedEntries[GetPrev(k)])
    <3>1. Above(LiveKeys, k) # {} /\ Below(LiveKeys, k) # {} /\ GetPrev(k) \in HotKeys
      BY <1>2, <2>5, LinkNeighbours
    <3>. QED
      BY <3>1 DEF HotKeys
  <2>. QED
    BY <2>3, <2>4, <2>5
<1>. QED
  BY <1>1, <1>2 DEF NoPanic

\* No panic of Set or update() is reachable: prepared keys are hot, hints are never operated
\* on, and every deleted or inserted entry finds its neighbours.
THEOREM NoPanicReachable == OneOpPerKey => (Spec => []NoPanic)
BY IInvNoPanic, Invariance, PTL

-----------------------------------------------------------------------------
(* The entry file as a log of deactivations *)

\* What the log says of a data tree, and the bounds on its lists; n bounds the one in memory.
DeadSNs(d) == UNION {SNSet(d.entryFile[sn].snList) : sn \in DOMAIN d.entryFile}
LogOK(d, n) ==
    /\ d.activeBits = DOMAIN d.entryFile \ (DeadSNs(d) \cup SNSet(d.deactivedSNList))
    /\ \A sn \in DOMAIN d.entryFile : \A t \in SNSet(d.entryFile[sn].snList) : t < sn
    /\ Len(d.deactivedSNList) <= n
    /\ \A sn \in DOMAIN d.entryFile : Len(d.entryFile[sn].snList) <= DeactivedSNListMaxLen + 1

LEMMA ClearBitLog ==
    ASSUME NEW d, IsDataTree(d), NEW sn \in 0..(d.maxSerialNum - 1), NEW n \in Nat, LogOK(d, n)
    PROVE  LogOK(ClearBit(d, sn), n + 1)
<1> DEFINE d2 == ClearBit(d, sn)
           l == d.deactivedSNList
<1>1. /\ d2.entryFile = d.entryFile /\ d2.activeBits = d.activeBits \ {sn}
      /\ d2.deactivedSNList = Append(l, sn)
  BY DEF ClearBit
<1>2. l \in Seq(0..(d.maxSerialNum - 1)) /\ l \in Seq(Int) /\ sn \in Int
  BY DEF IsDataTree
<1>3. SNSet(Append(l, sn)) = SNSet(l) \cup {sn} /\ Len(Append(l, sn)) = Len(l) + 1 /\ Len(l) \in Nat
  <2>. HIDE DEF l
  <2>1. /\ Len(Append(l, sn)) = Len(l) + 1 /\ Len(l) \in Nat
        /\ \A i \in 1..Len(l) : Append(l, sn)[i] = l[i]
        /\ Append(l, sn)[Len(l) + 1] = sn
    BY <1>2
  <2>2. 1..(Len(l) + 1) = 1..Len(l) \cup {Len(l) + 1}
    BY <2>1
  <2>3. SNSet(Append(l, sn)) = SNSet(l) \cup {sn}
    BY <2>1, <2>2 DEF SNSet
  <2>. QED
    BY <2>1, <2>3
<1>4. DeadSNs(d2) = DeadSNs(d)
  BY <1>1 DEF DeadSNs
<1>5. d2.activeBits = DOMAIN d2.entryFile \ (DeadSNs(d2) \cup SNSet(d2.deactivedSNList))
  <2>1. d.activeBits = DOMAIN d.entryFile \ (DeadSNs(d) \cup SNSet(l))
    BY DEF LogOK
  <2>. QED
    BY <1>1, <1>3, <1>4, <2>1, Zenon
<1>6. Len(d2.deactivedSNList) <= n + 1
  BY <1>1, <1>3 DEF LogOK
<1>. HIDE DEF d2
<1>7. LogOK(d2, n + 1)
  BY <1>1, <1>5, <1>6 DEF LogOK
<1>. QED
  BY <1>7 DEF d2

LEMMA AppendEntryLog ==
    ASSUME NEW d, IsDataTree(d), NEW e \in Entry, e.serialNum = d.maxSerialNum,
           NEW n \in Nat, n <= DeactivedSNListMaxLen + 1, LogOK(d, n)
    PROVE  LogOK(AppendEntry(d, e), 0)
<1> DEFINE d2 == AppendEntry(d, e)
           m == d.maxSerialNum
           l == d.deactivedSNList
           f == d.entryFile
           f2 == d2.entryFile
<1>1. /\ f2 = [sn \in DOMAIN f \cup {m} |-> IF sn = m THEN [entry |-> e, snList |-> l] ELSE f[sn]]
      /\ d2.activeBits = d.activeBits \cup {m} /\ d2.deactivedSNList = <<>>
  BY DEF AppendEntry
<1>2. /\ DOMAIN f = 0..(m - 1) /\ m \in Nat /\ l \in Seq(0..(m - 1)) /\ d.activeBits \subseteq 0..(m - 1)
  BY DEF IsDataTree
<1>. HIDE DEF d2, m, l, f, f2
<1>3. /\ DOMAIN f2 = DOMAIN f \cup {m} /\ m \notin DOMAIN f
      /\ f2[m].snList = l /\ \A sn \in DOMAIN f : f2[sn] = f[sn] /\ sn # m
  BY <1>1, <1>2
<1>4. SNSet(l) \subseteq 0..(m - 1)
  BY <1>2 DEF SNSet
<1>5. /\ d.activeBits = DOMAIN f \ (DeadSNs(d) \cup SNSet(l))
      /\ \A sn \in DOMAIN f : \A t \in SNSet(f[sn].snList) : t < sn
      /\ Len(l) <= n
      /\ \A sn \in DOMAIN f : Len(f[sn].snList) <= DeactivedSNListMaxLen + 1
  BY DEF LogOK, f, l
<1>6. DeadSNs(d2) = DeadSNs(d) \cup SNSet(l)
  <2>1. ASSUME NEW x PROVE x \in DeadSNs(d2) <=> x \in DeadSNs(d) \/ x \in SNSet(l)
    <3>1. x \in DeadSNs(d2) <=> \E sn \in DOMAIN f2 : x \in SNSet(f2[sn].snList)
      BY DEF DeadSNs, f2
    <3>2. x \in DeadSNs(d) <=> \E sn \in DOMAIN f : x \in SNSet(f[sn].snList)
      BY DEF DeadSNs, f
    <3>. QED
      BY <1>3, <3>1, <3>2
  <2>. QED
    BY <2>1
<1>7. m \notin DeadSNs(d) /\ m \notin SNSet(l)
  <2>1. m \notin SNSet(l)
    BY <1>2, <1>4
  <2>2. ASSUME NEW sn \in DOMAIN f PROVE m \notin SNSet(f[sn].snList)
    <3>1. sn < m /\ sn \in Int /\ m \in Int
      BY <1>2
    <3>2. m \in SNSet(f[sn].snList) => m < sn
      BY <1>5
    <3>. QED
      BY <3>1, <3>2
  <2>3. m \notin DeadSNs(d)
    BY <2>2 DEF DeadSNs, f
  <2>. QED
    BY <2>1, <2>3
<1>8. SNSet(<<>>) = {} /\ Len(<<>>) = 0
  BY DEF SNSet
<1>9. d2.activeBits = DOMAIN f2 \ (DeadSNs(d2) \cup SNSet(d2.deactivedSNList))
  BY <1>1, <1>3, <1>5, <1>6, <1>7, <1>8
<1>10. \A sn \in DOMAIN f2 : \A t \in SNSet(f2[sn].snList) : t < sn
  BY <1>2, <1>3, <1>4, <1>5
<1>11. \A sn \in DOMAIN f2 : Len(f2[sn].snList) <= DeactivedSNListMaxLen + 1
  <2>1. Len(l) \in Nat /\ DeactivedSNListMaxLen \in Nat
    BY <1>2, SizeAssumption
  <2>2. Len(l) <= DeactivedSNListMaxLen + 1
    BY <1>5, <2>1
  <2>. QED
    BY <1>3, <1>5, <2>2
<1>12. Len(d2.deactivedSNList) <= 0
  BY <1>1, <1>8
<1>13. LogOK(d2, 0)
  BY <1>9, <1>10, <1>11, <1>12 DEF LogOK, f2
<1>. QED
  BY <1>13 DEF d2

LEMMA DeactiviateEntryLog ==
    ASSUME NEW d, IsDataTree(d), NEW sn \in 0..(d.maxSerialNum - 1), LogOK(d, DeactivedSNListMaxLen)
    PROVE  LogOK(DeactiviateEntry(d, sn), DeactivedSNListMaxLen)
<1> DEFINE M == DeactivedSNListMaxLen
           d1 == ClearBit(d, sn)
           m == d1.maxSerialNum
           d2 == AppendEntry(d1, DummyEntry(m))
           d3 == ClearBit(d2, m)
<1>1. M \in Nat /\ M >= 1
  BY SizeAssumption
<1>2. IsDataTree(d1) /\ LogOK(d1, M + 1)
  BY <1>1, ClearBitProp, ClearBitLog
<1>. HIDE DEF d1
<1>3. m \in Nat /\ Len(d1.deactivedSNList) \in Nat
  BY <1>2 DEF IsDataTree
<1>. HIDE DEF m
<1>4. DummyEntry(m) \in Entry /\ DummyEntry(m).serialNum = m
  BY <1>3 DEF DummyEntry, Entry
<1>5. IsDataTree(d2) /\ LogOK(d2, 0) /\ d2.maxSerialNum = m + 1
  BY <1>1, <1>2, <1>3, <1>4, AppendEntryProp, AppendEntryLog DEF m
<1>. HIDE DEF d2
<1>6. LogOK(d3, 1)
  <2>1. m \in 0..(d2.maxSerialNum - 1)
    BY <1>3, <1>5
  <2>2. LogOK(d3, 0 + 1)
    BY <1>5, <2>1, ClearBitLog
  <2>. QED
    BY <2>2
<1>. HIDE DEF d3
<1>7. CASE Len(d1.deactivedSNList) > M
  <2>1. DeactiviateEntry(d, sn) = d3
    BY <1>7 DEF DeactiviateEntry, d1, d2, d3, m
  <2>2. Len(d3.deactivedSNList) <= M
    <3>1. Len(d3.deactivedSNList) = 1
      <4>1. d3.deactivedSNList = Append(d2.deactivedSNList, m) /\ d2.deactivedSNList = <<>>
        BY DEF d3, d2, ClearBit, AppendEntry
      <4>. QED
        BY <4>1
    <3>. QED
      BY <1>1, <3>1
  <2>3. LogOK(d3, M)
    BY <1>6, <2>2 DEF LogOK
  <2>. QED
    BY <2>1, <2>3
<1>8. CASE ~(Len(d1.deactivedSNList) > M)
  <2>1. DeactiviateEntry(d, sn) = d1
    BY <1>8 DEF DeactiviateEntry, d1, m
  <2>2. LogOK(d1, M)
    BY <1>1, <1>2, <1>3, <1>8 DEF LogOK
  <2>. QED
    BY <2>1, <2>2
<1>. QED
  BY <1>7, <1>8

\* A step that replaces or removes the entry of a key keeps the log.
LEMMA WithoutKeyLog ==
    ASSUME TypeOK, ActiveIffIndexed, StoredOK, NEW k, LogOK(datTree, DeactivedSNListMaxLen)
    PROVE  LogOK(WithoutKey(k), DeactivedSNListMaxLen)
<1>1. CASE k \in StoredKeys
  <2>1. IsDataTree(datTree) /\ idxTree[k] \in 0..(datTree.maxSerialNum - 1)
    BY <1>1, StoredEntry DEF TypeOK
  <2>. QED
    BY <1>1, <2>1, DeactiviateEntryLog DEF WithoutKey
<1>2. CASE k \notin StoredKeys
  BY <1>2 DEF WithoutKey
<1>. QED
  BY <1>1, <1>2

LEMMA ReplaceEntryLog ==
    ASSUME TypeOK, ActiveIffIndexed, StoredOK, NEW k, NEW e \in Entry,
           e.serialNum = WithoutKey(k).maxSerialNum,
           datTree' = AppendEntry(WithoutKey(k), e), LogOK(datTree, DeactivedSNListMaxLen)
    PROVE  LogOK(datTree', DeactivedSNListMaxLen)
<1> DEFINE d == WithoutKey(k)
           M == DeactivedSNListMaxLen
<1>1. IsDataTree(d) /\ LogOK(d, M) /\ e.serialNum = d.maxSerialNum
  BY WithoutKeyProp, WithoutKeyLog
<1>2. M \in Nat /\ M <= M + 1
  BY SizeAssumption
<1>. HIDE DEF d, M
<1>3. LogOK(AppendEntry(d, e), 0)
  BY <1>1, <1>2, AppendEntryLog DEF M
<1>4. AppendEntry(d, e).deactivedSNList = <<>>
  BY DEF AppendEntry
<1>5. Len(AppendEntry(d, e).deactivedSNList) <= M
  BY <1>2, <1>4
<1>6. LogOK(AppendEntry(d, e), M)
  BY <1>3, <1>5 DEF LogOK
<1>. QED
  BY <1>6 DEF d, M

\* Only the second loop and compaction touch the data tree, and only through the two
\* operations the lemmas above are about.
LEMMA DataTreeStep ==
    ASSUME IInv, [Next]_vars
    PROVE  \/ datTree' = datTree
           \/ \E k : datTree' = WithoutKey(k)
           \/ \E k, e : /\ e \in Entry /\ e.serialNum = WithoutKey(k).maxSerialNum
                        /\ datTree' = AppendEntry(WithoutKey(k), e)
<1>1. CASE SweepEntry
  BY <1>1, SweptEntry DEF SweptAway, Rewritten, PassedOver
<1>2. CASE ReapEntry
  <2>1. PICK k \in StoredKeys :
          datTree' = AppendEntry(WithoutKey(k),
                        [ReadEntry(k) EXCEPT !.serialNum = WithoutKey(k).maxSerialNum])
    BY <1>2, ReapedEntry
  <2> DEFINE m == WithoutKey(k).maxSerialNum
             e == [ReadEntry(k) EXCEPT !.serialNum = m]
  <2>2. m \in Nat /\ ReadEntry(k) \in Entry
    BY WithoutKeyProp, StoredEntry DEF IInv
  <2>3. e \in Entry /\ e.serialNum = m
    <3>. HIDE DEF m
    <3>. QED
      BY <2>2 DEF Entry
  <2>. QED
    BY <2>1, <2>3
<1>3. CASE Prepare \/ Mark \/ UNCHANGED vars
  BY <1>3 DEF Prepare, Mark, PrepareForUpdate, PrepareForDeletion, StoreHotEntry, StoreNextKey,
     BeginWrite, Set, Delete, vars, storeVars
<1>4. CASE Gather \/ LinkEntry \/ EndLinking \/ EndSweeping \/ StartReaping \/ EvictTwig \/ EndBlock
  BY <1>4 DEF Gather, LinkEntry, EndLinking, EndSweeping, StartReaping, EvictTwig, EndBlock, storeVars
<1>. QED
  BY <1>1, <1>2, <1>3, <1>4 DEF Next, EndWrite

LEMMA InitLog == Init => LogOK(datTree, DeactivedSNListMaxLen)
<1>. SUFFICES ASSUME Init PROVE LogOK(datTree, DeactivedSNListMaxLen)
  OBVIOUS
<1> DEFINE L == LeafCountInTwig
           f == datTree.entryFile
<1>1. L \in Nat /\ L >= 1 /\ DeactivedSNListMaxLen \in Nat /\ DeactivedSNListMaxLen >= 1
  BY SizeAssumption
<1>2. /\ f = InitialEntryFile /\ datTree.activeBits = {L, L + 1} /\ datTree.deactivedSNList = <<>>
      /\ DOMAIN f = 0..(L + 1)
  BY DEF Init, InitialEntryFile
<1>3. ASSUME NEW sn \in 0..(L + 1)
      PROVE  /\ sn \in 1..L => f[sn].snList = <<sn - 1>>
             /\ sn \notin 1..L => f[sn].snList = <<>>
  <2>1. f[sn] = [entry |-> IF sn < L THEN DummyEntry(sn)
                           ELSE GuardEntry(IF sn = L THEN StartKey ELSE EndKey, sn),
                 snList |-> IF sn \in 1..L THEN <<sn - 1>> ELSE <<>>]
    BY <1>2 DEF InitialEntryFile
  <2>2. f[sn].snList = IF sn \in 1..L THEN <<sn - 1>> ELSE <<>>
    BY <2>1
  <2>. QED
    BY <2>2, Zenon
<1>. HIDE DEF f
<1>4. /\ SNSet(<<>>) = {} /\ Len(<<>>) = 0
      /\ \A sn \in Int : SNSet(<<sn - 1>>) = {sn - 1} /\ Len(<<sn - 1>>) = 1
  BY DEF SNSet
<1>5. ASSUME NEW sn \in DOMAIN f
      PROVE  /\ SNSet(f[sn].snList) = IF sn \in 1..L THEN {sn - 1} ELSE {}
             /\ Len(f[sn].snList) \in {0, 1}
  <2>0. sn \in 0..(L + 1) /\ sn \in Int
    BY <1>1, <1>2
  <2>1. CASE sn \in 1..L
    <3>1. f[sn].snList = <<sn - 1>>
      BY <1>3, <2>0, <2>1
    <3>2. SNSet(<<sn - 1>>) = {sn - 1} /\ Len(<<sn - 1>>) = 1
      BY <1>4, <2>0
    <3>. QED
      BY <2>1, <3>1, <3>2, Zenon
  <2>2. CASE sn \notin 1..L
    <3>1. f[sn].snList = <<>>
      BY <1>3, <2>0, <2>2
    <3>. QED
      BY <1>4, <2>2, <3>1, Zenon
  <2>. QED
    BY <2>1, <2>2
<1>6. ASSUME NEW x PROVE x \in DeadSNs(datTree) <=> x \in 0..(L - 1)
  <2>1. x \in DeadSNs(datTree) <=> \E sn \in DOMAIN f : x \in SNSet(f[sn].snList)
    BY DEF DeadSNs, f
  <2>2. ASSUME x \in 0..(L - 1) PROVE \E sn \in DOMAIN f : x \in SNSet(f[sn].snList)
    <3>1. x + 1 \in DOMAIN f /\ x + 1 \in 1..L /\ (x + 1) - 1 = x
      BY <1>1, <1>2, <2>2
    <3>. QED
      BY <1>5, <3>1
  <2>3. ASSUME NEW sn \in DOMAIN f, x \in SNSet(f[sn].snList) PROVE x \in 0..(L - 1)
    <3>1. SNSet(f[sn].snList) = IF sn \in 1..L THEN {sn - 1} ELSE {}
      BY <1>5
    <3>2. sn \in 1..L /\ x = sn - 1
      BY <2>3, <3>1
    <3>. QED
      BY <1>1, <3>2
  <2>. QED
    BY <2>1, <2>2, <2>3
<1>7. datTree.activeBits = DOMAIN f \ (DeadSNs(datTree) \cup SNSet(datTree.deactivedSNList))
  BY <1>1, <1>2, <1>4, <1>6
<1>8. \A sn \in DOMAIN f : \A t \in SNSet(f[sn].snList) : t < sn
  <2>. SUFFICES ASSUME NEW sn \in DOMAIN f, NEW t \in SNSet(f[sn].snList) PROVE t < sn
    OBVIOUS
  <2>1. SNSet(f[sn].snList) = IF sn \in 1..L THEN {sn - 1} ELSE {}
    BY <1>5
  <2>2. sn \in 1..L /\ t = sn - 1
    BY <2>1
  <2>3. L \in Int
    BY <1>1
  <2>. QED
    BY ONLY <2>2, <2>3
<1>9. ASSUME NEW sn \in DOMAIN f PROVE Len(f[sn].snList) <= DeactivedSNListMaxLen + 1
  <2>1. \A n \in {0, 1} : n <= DeactivedSNListMaxLen + 1
    BY <1>1
  <2>2. Len(f[sn].snList) \in {0, 1}
    BY <1>5
  <2>. QED
    BY <2>1, <2>2, Zenon
<1>10. Len(datTree.deactivedSNList) <= DeactivedSNListMaxLen
  BY <1>1, <1>2, <1>4
<1>. QED
  BY <1>7, <1>8, <1>9, <1>10 DEF LogOK, f

\* The entry file explains the active bits, and no list in it outgrows its one-byte length.
THEOREM LogIsComplete == OneOpPerKey => (Spec => [](LogExplainsActiveBits /\ SNListFits))
<1>. SUFFICES ASSUME OneOpPerKey PROVE Spec => [](LogExplainsActiveBits /\ SNListFits)
  OBVIOUS
<1> DEFINE LogInv == LogOK(datTree, DeactivedSNListMaxLen)
<1>1. Init => LogInv
  BY InitLog
<1>2. IInv /\ LogInv /\ [Next]_vars => LogInv'
  <2>. SUFFICES ASSUME IInv, LogInv, [Next]_vars PROVE LogOK(datTree', DeactivedSNListMaxLen)
    OBVIOUS
  <2>1. TypeOK /\ ActiveIffIndexed /\ StoredOK
    BY DEF IInv
  <2>. QED
    BY <2>1, DataTreeStep, WithoutKeyLog, ReplaceEntryLog
<1>3. LogInv => LogExplainsActiveBits /\ SNListFits
  BY DEF LogOK, LogExplainsActiveBits, SNListFits, DeadSNs
<1>. QED
  BY <1>1, <1>2, <1>3, Invariance, PTL DEF Spec

=============================================================================
