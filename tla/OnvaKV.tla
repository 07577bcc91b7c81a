------------------------------- MODULE OnvaKV -------------------------------
(***************************************************************************)
(* The OnvaKV object (onvakv.go) together with the parts of datatree,      *)
(* indextree and metadb it drives while blocks are executed.               *)
(*                                                                         *)
(* A block has three phases.  In the filling phase any number of           *)
(* goroutines call PrepareForUpdate and PrepareForDeletion, which copy     *)
(* entries into the hot-entry map k2heMap and successor keys into k2nkMap. *)
(* In the marking phase (BeginWrite, Set, Delete) operations are recorded  *)
(* on hot entries.  EndWrite, the sweeping phase, repairs the linked list  *)
(* of keys, appends the changed entries to the entry file, updates the     *)
(* index, moves the live entries out of old twigs and ends the block.      *)
(* Every iteration of EndWrite's loops is one step here.                   *)
(*                                                                         *)
(* Keys are integers, ordered like the byte strings of the program.  A     *)
(* position in the entry file is identified with the serial number of the  *)
(* entry stored there.                                                     *)
(***************************************************************************)
EXTENDS Integers, Sequences, FiniteSets

CONSTANTS
    Keys,               \* the application's keys
    StartKey, EndKey,   \* the guard keys given to NewOnvaKV
    Values,             \* the values the application stores
    NoKey, NoValue,     \* Go's nil byte slice, as a NextKey and as a Value
    GuardValue,         \* the empty value of the guard entries
    DummyKey, DummyValue, \* "dummy" in datatree.DummyEntry
    NoOp,               \* no request for a key in this block
    Workers,            \* the goroutines of the filling phase
    LeafCountInTwig,    \* entries per twig
    StartReapThres, KeptEntriesToActiveEntriesRatio,
    DeactivedSNListMaxLen,
    OneOpPerKey,        \* TRUE: at most one Set or Delete per key and block (TrunkStore)
    MaxHeight           \* bound on the number of blocks

AllKeys == Keys \cup {StartKey, EndKey}

ASSUME KeyAssumption ==
    /\ Keys \subseteq Int
    /\ StartKey \in Int /\ EndKey \in Int
    /\ StartKey < EndKey
    /\ \A k \in Keys : StartKey < k /\ k < EndKey
    /\ NoKey \notin AllKeys

\* Every set of keys has a least and a greatest member (there are finitely many).
ASSUME KeyOrderAssumption ==
    \A S \in SUBSET AllKeys : S # {} =>
        /\ \E m \in S : \A i \in S : m <= i
        /\ \E m \in S : \A i \in S : i <= m

ASSUME ValueAssumption ==
    /\ NoValue \notin Values \cup {GuardValue, DummyValue}
    /\ NoOp \notin Values \cup {NoValue}

\* Compaction only starts when the oldest twig is full: 2*(10000+1) >= 2048 in the code.
ASSUME SizeAssumption ==
    /\ LeafCountInTwig \in Nat \ {0}
    /\ StartReapThres \in Nat
    /\ KeptEntriesToActiveEntriesRatio \in Nat \ {0}
    /\ KeptEntriesToActiveEntriesRatio * (StartReapThres + 1) >= LeafCountInTwig
    /\ DeactivedSNListMaxLen \in Nat \ {0}
    /\ OneOpPerKey \in BOOLEAN
    /\ MaxHeight \in Int

VARIABLES
    phase,              \* where the writer is in the life cycle of a block
    currHeight,         \* meta.currHeight
    oldestActiveTwigID, \* meta.oldestActiveTwigID
    idxTree,            \* key -> position of its entry
    datTree,            \* entry file, activeBits, deactivedSNList; and meta.maxSerialNum
    k2heMap, k2nkMap,   \* the hot entries, and the keys that need a hint entry
    task,               \* per goroutine: the map stores its Prepare call has still to make
    forUpdate, forDeletion, \* keys the client prepared in this block
    cachedEntries,      \* the sorted hot and hint entries, while EndWrite runs
    todo,               \* keys of cachedEntries the current loop has not reached
    batch               \* history: the last request per key in this block

vars == <<phase, currHeight, oldestActiveTwigID, idxTree, datTree, k2heMap, k2nkMap,
          task, forUpdate, forDeletion, cachedEntries, todo, batch>>

fillVars == <<k2heMap, k2nkMap, task, forUpdate, forDeletion>>
storeVars == <<currHeight, oldestActiveTwigID, idxTree, datTree>>

-----------------------------------------------------------------------------
(* Entries *)

OpNone == "OpNone"
OpInsertOrChange == "OpInsertOrChange"
OpDelete == "OpDelete"

\* Serial numbers of entries that are not in the entry file.
InsertedSN == -1
HintSN == -2            \* math.MinInt64 in the code

Entry == [key: AllKeys \cup {DummyKey},
          value: Values \cup {NoValue, GuardValue, DummyValue},
          nextKey: AllKeys \cup {NoKey, DummyKey},
          height: Int, lastHeight: Int, serialNum: Int]

HotEntry == [entry: Entry, op: {OpNone, OpInsertOrChange, OpDelete},
             isModified: BOOLEAN, isTouchedByNext: BOOLEAN]

DummyEntry(sn) ==
    [key |-> DummyKey, value |-> DummyValue, nextKey |-> DummyKey,
     height |-> -2, lastHeight |-> -2, serialNum |-> sn]

GuardEntry(k, sn) ==
    [key |-> k, value |-> GuardValue, nextKey |-> EndKey,
     height |-> -1, lastHeight |-> -1, serialNum |-> sn]

InsertedEntry(k) ==
    [key |-> k, value |-> NoValue, nextKey |-> NoKey,
     height |-> 0, lastHeight |-> 0, serialNum |-> InsertedSN]

MakeHot(e) == [entry |-> e, op |-> OpNone, isModified |-> FALSE, isTouchedByNext |-> FALSE]

MakeHintHotEntry(k) ==
    MakeHot([key |-> k, value |-> NoValue, nextKey |-> NoKey,
             height |-> -1, lastHeight |-> -1, serialNum |-> HintSN])

IsHintHotEntry(h) == h.entry.serialNum = HintSN
\* Mutant: the value of an inserted entry is not looked at.
FakeWhateverTheValue(h) == h.entry.serialNum = InsertedSN
IsFakeInserted(h) == h.entry.serialNum = InsertedSN /\ h.entry.value = NoValue
IsInserted(h) == h.op = OpInsertOrChange /\ h.entry.serialNum = InsertedSN
IsModified(h) == h.op = OpInsertOrChange /\ h.entry.serialNum >= 0

-----------------------------------------------------------------------------
(* Order: the least and greatest key of a set, neighbours of a key in a set *)

Least(S) == CHOOSE m \in S : \A i \in S : m <= i
Greatest(S) == CHOOSE m \in S : \A i \in S : i <= m
Below(S, k) == {i \in S : i < k}
Above(S, k) == {i \in S : k < i}

-----------------------------------------------------------------------------
(* The data tree: every entry that is appended carries the serial numbers  *)
(* that were deactivated since the previous one.                           *)

\* Mutant: the serial number is not incremented.
AppendEntryNoIncr(d, e) ==
    [entryFile |-> [sn \in DOMAIN d.entryFile \cup {e.serialNum} |->
                        IF sn = e.serialNum
                        THEN [entry |-> e, snList |-> d.deactivedSNList]
                        ELSE d.entryFile[sn]],
     activeBits |-> d.activeBits \cup {e.serialNum},
     deactivedSNList |-> <<>>,
     maxSerialNum |-> d.maxSerialNum]

AppendEntry(d, e) ==
    [entryFile |-> [sn \in DOMAIN d.entryFile \cup {e.serialNum} |->
                        IF sn = e.serialNum
                        THEN [entry |-> e, snList |-> d.deactivedSNList]
                        ELSE d.entryFile[sn]],
     activeBits |-> d.activeBits \cup {e.serialNum},
     deactivedSNList |-> <<>>,
     maxSerialNum |-> d.maxSerialNum + 1]

\* Mutant: the deactivation is not logged.
ClearBitUnlogged(d, sn) ==
    [entryFile |-> d.entryFile,
     activeBits |-> d.activeBits \ {sn},
     deactivedSNList |-> d.deactivedSNList,
     maxSerialNum |-> d.maxSerialNum]

ClearBit(d, sn) ==
    [entryFile |-> d.entryFile,
     activeBits |-> d.activeBits \ {sn},
     deactivedSNList |-> Append(d.deactivedSNList, sn),
     maxSerialNum |-> d.maxSerialNum]

\* Mutant: no dummy entry flushes the list.
DeactiviateNoDummy(d, sn) == ClearBit(d, sn)

\* OnvaKV.DeactiviateEntry: a dummy entry flushes a list that has grown too long.
DeactiviateEntry(d, sn) ==
    LET d1 == ClearBit(d, sn)
        dummySN == d1.maxSerialNum
    IN  IF Len(d1.deactivedSNList) > DeactivedSNListMaxLen
        THEN ClearBit(AppendEntry(d1, DummyEntry(dummySN)), dummySN)
        ELSE d1

\* DeactiviateEntry is only called for entries that are in the file.
DeactiviateIfStored(d, sn) == IF sn >= 0 THEN DeactiviateEntry(d, sn) ELSE d

ReadEntry(k) == datTree.entryFile[idxTree[k]].entry

\* The state NewOnvaKV leaves behind: one twig of deactivated dummies, then the guards.
InitialEntryFile ==
    [sn \in 0..(LeafCountInTwig + 1) |->
        [entry |-> IF sn < LeafCountInTwig THEN DummyEntry(sn)
                   ELSE GuardEntry(IF sn = LeafCountInTwig THEN StartKey ELSE EndKey, sn),
         snList |-> IF sn \in 1..LeafCountInTwig THEN <<sn - 1>> ELSE <<>>]]

Idle == [he |-> <<>>, nk |-> {}]

Init ==
    /\ phase = "filling"
    /\ currHeight = -1
    /\ oldestActiveTwigID = 0
    /\ idxTree = [k \in {StartKey, EndKey} |->
                    IF k = StartKey THEN LeafCountInTwig ELSE LeafCountInTwig + 1]
    /\ datTree = [entryFile |-> InitialEntryFile,
                  activeBits |-> {LeafCountInTwig, LeafCountInTwig + 1},
                  deactivedSNList |-> <<>>,
                  maxSerialNum |-> LeafCountInTwig + 2]
    /\ k2heMap = <<>>
    /\ k2nkMap = {}
    /\ task = [w \in Workers |-> Idle]
    /\ forUpdate = {}
    /\ forDeletion = {}
    /\ cachedEntries = <<>>
    /\ todo = {}
    /\ batch = [k \in Keys |-> NoOp]

-----------------------------------------------------------------------------
(* Filling phase.  A Prepare call first reads the index and the entry file *)
(* and then stores into the two maps, one bucket lock at a time.           *)

GetPrevEntry(k) == ReadEntry(Greatest(Below(DOMAIN idxTree, k)))

\* Mutant: the successor of a key to be inserted gets no hint entry.
PrepareForUpdateNoHint(w, k) ==
    /\ phase = "filling"
    /\ task[w] = Idle
    /\ task' = [task EXCEPT ![w].he =
        IF k \in DOMAIN idxTree THEN <<MakeHot(ReadEntry(k))>>
        ELSE <<MakeHot(InsertedEntry(k)), MakeHot(GetPrevEntry(k))>>]
    /\ forUpdate' = forUpdate \cup {k}
    /\ UNCHANGED <<phase, storeVars, k2heMap, k2nkMap, forDeletion, cachedEntries, todo, batch>>

PrepareForUpdate(w, k) ==
    /\ phase = "filling"
    /\ task[w] = Idle
    /\ task' = [task EXCEPT ![w] =
        IF k \in DOMAIN idxTree
        THEN [he |-> <<MakeHot(ReadEntry(k))>>, nk |-> {}]
        ELSE LET prevEntry == GetPrevEntry(k)
             IN  [he |-> <<MakeHot(InsertedEntry(k)), MakeHot(prevEntry)>>,
                  nk |-> {prevEntry.nextKey}]]
    /\ forUpdate' = forUpdate \cup {k}
    /\ UNCHANGED <<phase, storeVars, k2heMap, k2nkMap, forDeletion, cachedEntries, todo, batch>>

PrepareForDeletion(w, k) ==
    /\ phase = "filling"
    /\ task[w] = Idle
    /\ task' = IF k \in DOMAIN idxTree
               THEN LET entry == ReadEntry(k)
                    IN  [task EXCEPT ![w] =
                           [he |-> <<MakeHot(entry), MakeHot(GetPrevEntry(k))>>,
                            nk |-> {entry.nextKey}]]
               ELSE task
    /\ forDeletion' = forDeletion \cup {k}
    /\ UNCHANGED <<phase, storeVars, k2heMap, k2nkMap, forUpdate, cachedEntries, todo, batch>>

\* BucketMap.Store on k2heMap; a later store replaces the hot entry.
StoreHotEntry(w) ==
    /\ task[w].he # <<>>
    /\ LET h == Head(task[w].he)
       IN  k2heMap' = [k \in DOMAIN k2heMap \cup {h.entry.key} |->
                         IF k = h.entry.key THEN h ELSE k2heMap[k]]
    /\ task' = [task EXCEPT ![w].he = Tail(@)]
    /\ UNCHANGED <<phase, storeVars, k2nkMap, forUpdate, forDeletion, cachedEntries, todo, batch>>

\* BucketMap.Store on k2nkMap, the last thing a Prepare call does.
StoreNextKey(w) ==
    /\ task[w].he = <<>> /\ task[w].nk # {}
    /\ k2nkMap' = k2nkMap \cup task[w].nk
    /\ task' = [task EXCEPT ![w] = Idle]
    /\ UNCHANGED <<phase, storeVars, k2heMap, forUpdate, forDeletion, cachedEntries, todo, batch>>

-----------------------------------------------------------------------------
(* Marking phase.  The client joins its goroutines before it calls         *)
(* BeginWrite, sets keys it prepared for update and deletes keys it        *)
(* prepared for deletion.                                                  *)

BeginWrite ==
    /\ phase = "filling"
    /\ \A w \in Workers : task[w] = Idle
    /\ currHeight < MaxHeight
    /\ phase' = "marking"
    /\ currHeight' = currHeight + 1
    /\ UNCHANGED <<oldestActiveTwigID, idxTree, datTree, fillVars, cachedEntries, todo, batch>>

\* Set panics when the key is not hot; see NoPanic.
Set(k, v) ==
    /\ phase = "marking"
    /\ k \in forUpdate
    /\ OneOpPerKey => batch[k] = NoOp
    /\ k2heMap' = [k2heMap EXCEPT ![k] =
                    [@ EXCEPT !.op = OpInsertOrChange, !.entry.value = v]]
    /\ batch' = [batch EXCEPT ![k] = v]
    /\ UNCHANGED <<phase, storeVars, k2nkMap, task, forUpdate, forDeletion, cachedEntries, todo>>

Delete(k) ==
    /\ phase = "marking"
    /\ k \in forDeletion
    /\ OneOpPerKey => batch[k] = NoOp
    /\ k2heMap' = IF k \in DOMAIN k2heMap
                  THEN [k2heMap EXCEPT ![k].op = OpDelete]
                  ELSE k2heMap      \* delete a non-existing pair
    /\ batch' = [batch EXCEPT ![k] = NoValue]
    /\ UNCHANGED <<phase, storeVars, k2nkMap, task, forUpdate, forDeletion, cachedEntries, todo>>

-----------------------------------------------------------------------------
(* EndWrite, first loop of update(): repair NextKey, mark what changed.    *)

\* EndWrite starts: the hot entries and the hints, sorted by key.
Gather ==
    /\ phase = "marking"
    /\ phase' = "linking"
    /\ cachedEntries' = [k \in DOMAIN k2heMap \cup k2nkMap |->
                           IF k \in DOMAIN k2heMap THEN k2heMap[k] ELSE MakeHintHotEntry(k)]
    /\ todo' = DOMAIN k2heMap \cup k2nkMap
    /\ batch' = [k \in Keys |-> NoOp]
    /\ UNCHANGED <<storeVars, fillVars>>

IsLive(h) == h.op # OpDelete /\ ~IsFakeInserted(h)
LiveKeys == {k \in DOMAIN cachedEntries : IsLive(cachedEntries[k])}
GetPrev(k) == Greatest(Below(LiveKeys, k))
GetNext(k) == Least(Above(LiveKeys, k))

\* Mutant: the predecessor of a deleted key is not marked.
LinkDeletedUntouched(k) ==
    cachedEntries' = [cachedEntries EXCEPT
        ![k].isModified = TRUE,
        ![GetPrev(k)].entry.nextKey = GetNext(k)]

LinkDeleted(k) ==
    cachedEntries' = [cachedEntries EXCEPT
        ![k].isModified = TRUE,
        ![GetPrev(k)].entry.nextKey = GetNext(k),
        ![GetPrev(k)].isTouchedByNext = TRUE]

\* Mutant: an inserted entry does not get its NextKey.
LinkInsertedHalf(k) ==
    cachedEntries' = [cachedEntries EXCEPT
        ![k].isModified = TRUE,
        ![GetPrev(k)].entry.nextKey = k,
        ![GetPrev(k)].isTouchedByNext = TRUE]

LinkInserted(k) ==
    cachedEntries' = [cachedEntries EXCEPT
        ![k].isModified = TRUE,
        ![k].entry.nextKey = GetNext(k),
        ![GetPrev(k)].entry.nextKey = k,
        ![GetPrev(k)].isTouchedByNext = TRUE]

LinkModified(k) ==
    cachedEntries' = [cachedEntries EXCEPT ![k].isModified = TRUE]

LinkEntry ==
    /\ phase = "linking" /\ todo # {}
    /\ LET k == Least(todo)
           h == cachedEntries[k]
       IN  /\ todo' = todo \ {k}
           /\ \/ ~IsFakeInserted(h) /\ h.op = OpDelete /\ LinkDeleted(k)
              \/ ~IsFakeInserted(h) /\ IsInserted(h) /\ LinkInserted(k)
              \/ ~IsFakeInserted(h) /\ IsModified(h) /\ LinkModified(k)
              \/ (IsFakeInserted(h) \/ h.op = OpNone) /\ UNCHANGED cachedEntries
    /\ UNCHANGED <<phase, storeVars, fillVars, batch>>

EndLinking ==
    /\ phase = "linking" /\ todo = {}
    /\ phase' = "sweeping"
    /\ todo' = DOMAIN cachedEntries
    /\ UNCHANGED <<storeVars, fillVars, cachedEntries, batch>>

-----------------------------------------------------------------------------
(* EndWrite, second loop of update(): write the changes, in key order.     *)

IndexSet(k, sn) == [i \in DOMAIN idxTree \cup {k} |-> IF i = k THEN sn ELSE idxTree[i]]
IndexDelete(k) == [i \in DOMAIN idxTree \ {k} |-> idxTree[i]]

SweepDelete(k) ==
    /\ idxTree' = IndexDelete(k)
    /\ datTree' = DeactiviateEntry(datTree, cachedEntries[k].entry.serialNum)

\* Mutant: LastHeight is not moved on.
SweepAppendSameLastHeight(k) ==
    LET ptr == cachedEntries[k].entry
        d1 == DeactiviateIfStored(datTree, ptr.serialNum)
    IN  /\ datTree' = AppendEntry(d1, [ptr EXCEPT !.height = currHeight,
                                                  !.serialNum = d1.maxSerialNum])
        /\ idxTree' = IndexSet(k, d1.maxSerialNum)

SweepAppend(k) ==
    LET ptr == cachedEntries[k].entry
        d1 == DeactiviateIfStored(datTree, ptr.serialNum)
    IN  /\ datTree' = AppendEntry(d1, [ptr EXCEPT !.lastHeight = ptr.height,
                                                  !.height = currHeight,
                                                  !.serialNum = d1.maxSerialNum])
        /\ idxTree' = IndexSet(k, d1.maxSerialNum)

SweepEntry ==
    /\ phase = "sweeping" /\ todo # {}
    /\ LET k == Least(todo)
           h == cachedEntries[k]
           changed == h.isModified \/ h.isTouchedByNext
           removes == h.op = OpDelete /\ h.entry.serialNum >= 0
       IN  /\ todo' = todo \ {k}
           /\ \/ changed /\ removes /\ SweepDelete(k)
              \/ changed /\ ~removes /\ SweepAppend(k)
              \/ ~changed /\ UNCHANGED <<idxTree, datTree>>
    /\ UNCHANGED <<phase, currHeight, oldestActiveTwigID, fillVars, cachedEntries, batch>>

EndSweeping ==
    /\ phase = "sweeping" /\ todo = {}
    /\ phase' = "compacting"
    /\ UNCHANGED <<storeVars, fillVars, cachedEntries, todo, batch>>

-----------------------------------------------------------------------------
(* EndWrite, compaction: move the live entries of the oldest twig to the   *)
(* end of the file while most of the kept entries are dead.                *)

NumOfKeptEntries == datTree.maxSerialNum - oldestActiveTwigID * LeafCountInTwig
ActiveCount == Cardinality(DOMAIN idxTree)

NeedCompaction ==
    /\ NumOfKeptEntries > ActiveCount * KeptEntriesToActiveEntriesRatio
    /\ ActiveCount > StartReapThres

\* GetActiveEntriesInTwig of the oldest active twig.
ActiveInOldestTwig ==
    {sn \in datTree.activeBits : sn \div LeafCountInTwig = oldestActiveTwigID}

StartReaping ==
    /\ phase = "compacting" /\ NeedCompaction
    /\ phase' = "reaping"
    /\ UNCHANGED <<storeVars, fillVars, cachedEntries, todo, batch>>

\* Mutant: the index still points at the entry's old position.
ReapEntryNoIndex ==
    /\ phase = "reaping" /\ ActiveInOldestTwig # {}
    /\ LET sn == Least(ActiveInOldestTwig)
           e == datTree.entryFile[sn].entry
           d1 == DeactiviateEntry(datTree, sn)
       IN  datTree' = AppendEntry(d1, [e EXCEPT !.serialNum = d1.maxSerialNum])
    /\ UNCHANGED <<phase, currHeight, oldestActiveTwigID, idxTree, fillVars, cachedEntries, todo, batch>>

ReapEntry ==
    /\ phase = "reaping" /\ ActiveInOldestTwig # {}
    /\ LET sn == Least(ActiveInOldestTwig)
           e == datTree.entryFile[sn].entry
           d1 == DeactiviateEntry(datTree, sn)
       IN  /\ datTree' = AppendEntry(d1, [e EXCEPT !.serialNum = d1.maxSerialNum])
           /\ idxTree' = IndexSet(e.key, d1.maxSerialNum)
    /\ UNCHANGED <<phase, currHeight, oldestActiveTwigID, fillVars, cachedEntries, todo, batch>>

\* Mutant: a twig is evicted before its live entries have been moved.
EvictTwigEarly ==
    /\ phase = "reaping"
    /\ phase' = "compacting"
    /\ oldestActiveTwigID' = oldestActiveTwigID + 1
    /\ UNCHANGED <<currHeight, idxTree, datTree, fillVars, cachedEntries, todo, batch>>

\* Mutant: the oldest active twig stays the same.
EvictTwigNoIncr ==
    /\ phase = "reaping" /\ ActiveInOldestTwig = {}
    /\ phase' = "compacting"
    /\ UNCHANGED <<storeVars, fillVars, cachedEntries, todo, batch>>

EvictTwig ==
    /\ phase = "reaping" /\ ActiveInOldestTwig = {}
    /\ phase' = "compacting"
    /\ oldestActiveTwigID' = oldestActiveTwigID + 1
    /\ UNCHANGED <<currHeight, idxTree, datTree, fillVars, cachedEntries, todo, batch>>

\* EndBlock, meta.Commit and the release of the index lock: the block is over.
EndBlock ==
    /\ phase = "compacting" /\ ~NeedCompaction
    /\ phase' = "filling"
    /\ k2heMap' = <<>>
    /\ k2nkMap' = {}
    /\ forUpdate' = {}
    /\ forDeletion' = {}
    /\ cachedEntries' = <<>>
    /\ UNCHANGED <<storeVars, task, todo, batch>>

-----------------------------------------------------------------------------
Prepare ==
    \E w \in Workers :
        \/ \E k \in Keys : PrepareForUpdate(w, k) \/ PrepareForDeletion(w, k)
        \/ StoreHotEntry(w)
        \/ StoreNextKey(w)

Mark ==
    \/ BeginWrite
    \/ \E k \in Keys, v \in Values : Set(k, v)
    \/ \E k \in Keys : Delete(k)

EndWrite ==
    \/ Gather \/ LinkEntry \/ EndLinking \/ SweepEntry \/ EndSweeping
    \/ StartReaping \/ ReapEntry \/ EvictTwig \/ EndBlock

Next == Prepare \/ Mark \/ EndWrite

Spec == Init /\ [][Next]_vars

-----------------------------------------------------------------------------
(* Properties *)

SNSet(l) == {l[i] : i \in 1..Len(l)}

TaskType == [he: Seq(HotEntry), nk: SUBSET AllKeys]
LogRecord == [entry: Entry, snList: Seq(Nat)]

IsDataTree(d) ==
    d \in [entryFile: [0..(d.maxSerialNum - 1) -> LogRecord],
           activeBits: SUBSET (0..(d.maxSerialNum - 1)),
           deactivedSNList: Seq(0..(d.maxSerialNum - 1)),
           maxSerialNum: Nat]

\* Type correctness of the state of OnvaKV, its data tree, index and hot-entry maps.
TypeOK ==
    /\ phase \in {"filling", "marking", "linking", "sweeping", "compacting", "reaping"}
    /\ currHeight \in Int
    /\ oldestActiveTwigID \in Nat
    /\ DOMAIN idxTree \subseteq AllKeys
    /\ idxTree \in [DOMAIN idxTree -> Nat]
    /\ IsDataTree(datTree)
    /\ DOMAIN k2heMap \subseteq AllKeys
    /\ k2heMap \in [DOMAIN k2heMap -> HotEntry]
    /\ k2nkMap \subseteq AllKeys
    /\ task \in [Workers -> TaskType]
    /\ forUpdate \subseteq Keys
    /\ forDeletion \subseteq Keys
    /\ DOMAIN cachedEntries \subseteq AllKeys
    /\ cachedEntries \in [DOMAIN cachedEntries -> HotEntry]
    /\ todo \subseteq DOMAIN cachedEntries
    /\ batch \in [Keys -> Values \cup {NoValue, NoOp}]

\* The index and the active bits tell the same story at every step: every indexed key
\* points at an active entry of that key, and every active entry is the one its key is
\* indexed at (idxTree.Set/Delete against ActiviateEntry/DeactiviateEntry).
ActiveIffIndexed ==
    /\ \A k \in DOMAIN idxTree :
          /\ idxTree[k] \in datTree.activeBits
          /\ datTree.entryFile[idxTree[k]].entry.key = k
          /\ datTree.entryFile[idxTree[k]].entry.serialNum = idxTree[k]
    /\ \A sn \in datTree.activeBits :
          LET k == datTree.entryFile[sn].entry.key
          IN  k \in DOMAIN idxTree /\ idxTree[k] = sn

\* Outside the sweep the NextKey of every stored entry is the next key of the index, which
\* is what CheckConsistency tests and what proofs of absence rest on.
LinkedList ==
    phase # "sweeping" =>
        /\ {StartKey, EndKey} \subseteq DOMAIN idxTree
        /\ ReadEntry(EndKey).nextKey = EndKey
        /\ \A k \in DOMAIN idxTree \ {EndKey} :
              ReadEntry(k).nextKey = Least(Above(DOMAIN idxTree, k))

\* None of the panics of Set and update() can be reached: a key prepared for update is
\* hot, no hint entry is operated on, and a deleted or inserted entry has a live neighbour
\* on both sides; the one before it is an entry and not a hint.
NoPanic ==
    /\ phase = "marking" => forUpdate \subseteq DOMAIN k2heMap
    /\ phase = "linking" =>
        \A k \in DOMAIN cachedEntries :
            LET h == cachedEntries[k]
            IN  h.op # OpNone =>
                  /\ ~IsHintHotEntry(h)
                  /\ (h.op = OpDelete \/ IsInserted(h)) /\ ~IsFakeInserted(h) =>
                        /\ Above(LiveKeys, k) # {}
                        /\ Below(LiveKeys, k) # {}
                        /\ ~IsHintHotEntry(cachedEntries[GetPrev(k)])

\* The entry file explains the active bits: an entry is active unless a later entry, or
\* the list still in memory, says it was deactivated (AppendEntry flushes deactivedSNList).
LogExplainsActiveBits ==
    LET file == datTree.entryFile
        dead == UNION {SNSet(file[sn].snList) : sn \in DOMAIN file}
    IN  /\ datTree.activeBits = DOMAIN file \ (dead \cup SNSet(datTree.deactivedSNList))
        /\ \A sn \in DOMAIN file : \A t \in SNSet(file[sn].snList) : t < sn

\* The list of deactivated serial numbers an entry carries never outgrows the limit by
\* more than one, so that its length fits the one byte EntryToBytes has for it.
SNListFits ==
    \A sn \in DOMAIN datTree.entryFile :
        Len(datTree.entryFile[sn].snList) <= DeactivedSNListMaxLen + 1

\* No live entry is left behind in a twig that has been given up: eviction, and a
\* deactivation in a twig that is no longer in activeTwigs, would lose it.
NoActiveInEvictedTwig ==
    \A sn \in datTree.activeBits : sn >= oldestActiveTwigID * LeafCountInTwig

\* An entry that takes the place of another one of its key is either a copy of it made by
\* compaction, or a later version that records the height of the one it replaces: no
\* version is skipped or overtaken by a hot entry that was read too early.
VersionStep ==
    [][\A k \in DOMAIN idxTree \cap DOMAIN idxTree' :
          LET old == ReadEntry(k)
              new == datTree'.entryFile[idxTree'[k]].entry
          IN  idxTree'[k] # idxTree[k] =>
                 \/ new = [old EXCEPT !.serialNum = idxTree'[k]]
                 \/ new.lastHeight = old.height /\ old.height < new.height
      ]_vars

\* The abstract map while update() has begun but a key's change is not yet written: the
\* outcome recorded on its hot entry.
Outcome(h) == IF h.op = OpDelete THEN NoValue ELSE h.entry.value
Unwritten(k) ==
    /\ \/ phase = "linking" /\ k \in DOMAIN cachedEntries
       \/ phase = "sweeping" /\ k \in todo
    /\ cachedEntries[k].op # OpNone
AbstractStore ==
    [k \in Keys |->
        IF Unwritten(k) THEN Outcome(cachedEntries[k])
        ELSE IF k \in DOMAIN idxTree THEN ReadEntry(k).value ELSE NoValue]

Abstract == INSTANCE KVBlockSpec WITH store <- AbstractStore

\* OnvaKV implements the block-atomic map: a block changes the stored pairs by exactly the
\* requests made in it, whatever the goroutines, dummies and compaction do.
ImplementsKVBlockSpec == Abstract!SpecKV
=============================================================================
