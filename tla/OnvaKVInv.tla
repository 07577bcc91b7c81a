------------------------------ MODULE OnvaKVInv ------------------------------
(***************************************************************************)
(* The inductive invariant of OnvaKV, for a client that issues at most one *)
(* operation per key and block (OneOpPerKey): what the hot-entry maps      *)
(* hold while they are filled and marked, what the linking loop has        *)
(* established so far, and what the sweeping loop still owes the file.     *)
(***************************************************************************)
EXTENDS OnvaKV

PredOf(S, k) == Greatest(Below(S, k))
SuccOf(S, k) == Least(Above(S, k))

StoredKeys == DOMAIN idxTree

\* The hot entry a Prepare call makes for a key: a copy of the stored entry, or a blank one.
CommittedEntry(k) == IF k \in StoredKeys THEN ReadEntry(k) ELSE InsertedEntry(k)

\* What is stored: the guards, and entries whose NextKey is a key.
StoredOK ==
    /\ {StartKey, EndKey} \subseteq StoredKeys
    /\ \A k \in StoredKeys : ReadEntry(k).nextKey \in AllKeys

\* Keys that are hot, or will be once the running Prepare calls have finished.
WillBeHot == DOMAIN k2heMap \cup
    {k \in AllKeys : \E w \in Workers : \E i \in 1..Len(task[w].he) : task[w].he[i].entry.key = k}
WillBeNext == k2nkMap \cup UNION {task[w].nk : w \in Workers}

\* A hot entry differs from the stored one only by the operation requested on it.
HotEntryOK(k, h) ==
    /\ ~h.isModified /\ ~h.isTouchedByNext
    /\ \/ h = MakeHot(CommittedEntry(k)) /\ (k \in Keys => batch[k] = NoOp)
       \/ /\ k \in forDeletion /\ batch[k] = NoValue
          /\ h = [MakeHot(CommittedEntry(k)) EXCEPT !.op = OpDelete]
       \/ /\ k \in forUpdate /\ batch[k] \in Values
          /\ h = [MakeHot(CommittedEntry(k)) EXCEPT !.op = OpInsertOrChange, !.entry.value = batch[k]]

\* The hot entries are closed under the neighbours that linking will look for.
Closed(hot, next) ==
    /\ forUpdate \subseteq hot
    /\ hot \ StoredKeys \subseteq forUpdate
    /\ \A k \in forUpdate \ StoredKeys :
          PredOf(StoredKeys, k) \in hot /\ SuccOf(StoredKeys, PredOf(StoredKeys, k)) \in next
    /\ \A k \in forDeletion \cap StoredKeys :
          /\ k \in hot /\ PredOf(StoredKeys, k) \in hot
          /\ SuccOf(StoredKeys, k) \in next

FillingOK ==
    phase \in {"filling", "marking"} =>
        /\ \A k \in DOMAIN k2heMap : HotEntryOK(k, k2heMap[k])
        /\ \A w \in Workers : \A i \in 1..Len(task[w].he) :
              LET h == task[w].he[i]
              IN  h.entry.key \in AllKeys /\ h = MakeHot(CommittedEntry(h.entry.key))
        /\ WillBeNext \subseteq StoredKeys
        /\ Closed(WillBeHot, WillBeNext)
        /\ \A k \in Keys \ DOMAIN k2heMap :
              batch[k] # NoOp => batch[k] = NoValue /\ k \notin StoredKeys
        /\ phase = "filling" => batch = [k \in Keys |-> NoOp]
        /\ cachedEntries = <<>> /\ todo = {}

\* Prepare calls only run while the maps are being filled; the loops of update() run to
\* their end.
TasksOK ==
    /\ phase # "filling" => \A w \in Workers : task[w] = Idle
    /\ phase \notin {"filling", "marking"} => batch = [k \in Keys |-> NoOp]
    /\ phase \in {"compacting", "reaping"} => todo = {}

\* Cached entries not yet written agree with what is stored.
IsRemoval(h) == h.op = OpDelete /\ h.entry.serialNum >= 0

CachedOK(S) ==
    \A k \in S :
        LET h == cachedEntries[k]
        IN  /\ h.entry.key = k
            /\ h.entry.serialNum >= 0 => k \in StoredKeys /\ h.entry.serialNum = idxTree[k]
            /\ h.entry.serialNum < 0 =>
                  \/ /\ IsHintHotEntry(h) /\ k \in StoredKeys
                     /\ h.op = OpNone /\ ~h.isTouchedByNext /\ ~h.isModified
                  \/ /\ h.entry.serialNum = InsertedSN /\ k \notin StoredKeys
                     /\ h.op = OpInsertOrChange <=> h.entry.value # NoValue
                     /\ h.op # OpInsertOrChange => ~h.isTouchedByNext /\ ~h.isModified
            /\ h.op = OpInsertOrChange => h.entry.value \in Values
            /\ h.op # OpNone => k \in Keys
            /\ h.op = OpNone /\ h.entry.serialNum >= 0 => h.entry.value = ReadEntry(k).value

\* The keys that will be stored when the sweep is over.
Pending == IF phase = "linking" THEN DOMAIN cachedEntries ELSE todo
FinalKeys ==
    (StoredKeys \ {k \in Pending : IsRemoval(cachedEntries[k])})
        \cup {k \in Pending : IsInserted(cachedEntries[k])}

\* The first loop: neighbours are at hand, and what it has passed is linked.
LinkingOK ==
    phase = "linking" =>
        LET C == DOMAIN cachedEntries
            hot == {k \in C : ~IsHintHotEntry(cachedEntries[k])}
        IN  /\ CachedOK(C)
            /\ \A k \in C : cachedEntries[k].entry.serialNum = InsertedSN =>
                  /\ PredOf(StoredKeys, k) \in hot
                  /\ SuccOf(StoredKeys, PredOf(StoredKeys, k)) \in C
            /\ \A k \in C : IsRemoval(cachedEntries[k]) =>
                  /\ PredOf(StoredKeys, k) \in hot
                  /\ SuccOf(StoredKeys, k) \in C
            /\ \A k \in C :
                  LET h == cachedEntries[k]
                  IN  /\ h.isTouchedByNext =>
                            k \in FinalKeys \ {EndKey} /\ h.entry.nextKey = SuccOf(FinalKeys, k)
                      /\ ~h.isTouchedByNext /\ h.entry.serialNum >= 0 =>
                            h.entry.nextKey = ReadEntry(k).nextKey
                      /\ h.isModified => h.op # OpNone
            /\ \A k \in C \ todo :
                  LET h == cachedEntries[k]
                  IN  /\ IsInserted(h) => h.entry.nextKey = SuccOf(FinalKeys, k)
                      /\ IsInserted(h) \/ IsRemoval(h) =>
                            cachedEntries[PredOf(FinalKeys, k)].isTouchedByNext
                      /\ h.op # OpNone /\ ~IsFakeInserted(h) => h.isModified

\* The NextKey a key has once its change, if any, is written.
FinalNextKey(k) ==
    IF k \in todo /\ (cachedEntries[k].isModified \/ cachedEntries[k].isTouchedByNext)
    THEN cachedEntries[k].entry.nextKey
    ELSE ReadEntry(k).nextKey

\* The second loop: the changes still to be written complete the linked list.
SweepingOK ==
    phase = "sweeping" =>
        /\ CachedOK(todo)
        /\ \A k \in todo :
              LET h == cachedEntries[k]
              IN  /\ h.isModified => h.op # OpNone
                  /\ h.op # OpNone /\ ~IsFakeInserted(h) => h.isModified
        /\ FinalNextKey(EndKey) = EndKey
        /\ \A k \in FinalKeys \ {EndKey} : FinalNextKey(k) = SuccOf(FinalKeys, k)

\* The inductive invariant.
IInv ==
    /\ TypeOK
    /\ ActiveIffIndexed
    /\ StoredOK
    /\ LinkedList
    /\ TasksOK
    /\ FillingOK
    /\ LinkingOK
    /\ SweepingOK

\* Twigs: no live entry is behind the oldest active twig, and that twig is full before
\* compaction starts on it, so that what compaction moves lands behind it.
TwigsOK ==
    /\ IsFiniteSet(StoredKeys)
    /\ NoActiveInEvictedTwig
    /\ oldestActiveTwigID * LeafCountInTwig <= datTree.maxSerialNum
    /\ phase = "reaping" => (oldestActiveTwigID + 1) * LeafCountInTwig <= datTree.maxSerialNum

\* Heights: nothing stored is from the future, what a block has not yet rewritten is from
\* an earlier block, and a cached entry has the height of the entry it will replace.
HeightsOK ==
    /\ \A k \in StoredKeys : ReadEntry(k).height <= currHeight
    /\ phase \in {"marking", "linking"} => \A k \in StoredKeys : ReadEntry(k).height < currHeight
    /\ phase = "sweeping" => \A k \in todo \cap StoredKeys : ReadEntry(k).height < currHeight
    /\ phase \in {"linking", "sweeping"} =>
          \A k \in Pending : cachedEntries[k].entry.serialNum >= 0 =>
              cachedEntries[k].entry.height = ReadEntry(k).height

\* The whole of what holds at every step: IInv does not depend on the other two, which
\* are inductive relative to it.
FullInv == IInv /\ TwigsOK /\ HeightsOK

=============================================================================
