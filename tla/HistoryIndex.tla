---------------------------- MODULE HistoryIndex ----------------------------
(***************************************************************************)
(* NVTreeMem (indextree): the latest position of every key in an in-memory *)
(* B-tree, and in RocksDB a record per change of a key, filed under the    *)
(* key and the height at which the recorded position expired.  The record  *)
(* that has not expired is filed under the greatest height.  A compaction  *)
(* filter drops records that expired before the prune height, when         *)
(* RocksDB sees fit.                                                       *)
(*                                                                         *)
(* A block's changes are collected in a batch that is written after the    *)
(* index is readable again.  A crash loses the B-tree, the batch and the   *)
(* prune height.  OnvaKV changes the position of a key once per block.     *)
(*                                                                         *)
(* Two kinds of programs keep such an index: OnvaKV, whose metadb shares   *)
(* the RocksDB and which gives Init no function to report to, and the      *)
(* tests and fuzzers, which give one and have a database of their own.     *)
(***************************************************************************)
EXTENDS Integers, Sequences, FiniteSets

CONSTANTS
    Keys,       \* sequences of bytes, the guards of OnvaKV among them
    Positions,
    PositionsAt(_), \* the positions that the changes of a block store
    MaxHeight,  \* bound of the model: blocks
    MaxIters,   \* bound of the model: open iterators
    NoPos,      \* no position: an absent key, or the empty value of a record
    NoRec,      \* no record
    NoChange    \* a record the batch leaves alone

(* No key is empty: keys lie behind the first guard. *)
ASSUME IndexAssumption ==
    /\ \A k \in Keys : k \in Seq(0..255) /\ Len(k) > 0
    /\ \A h \in 0..MaxHeight : PositionsAt(h) \subseteq Positions
    /\ MaxHeight \in Nat /\ MaxIters \in Nat
    /\ NoPos \notin Positions /\ NoRec \notin Positions /\ NoChange \notin Positions
    /\ NoPos # NoRec /\ NoPos # NoChange /\ NoRec # NoChange
    /\ NoRec \notin Keys \X Nat

VARIABLES
    host,           \* whose index it is: "OnvaKV" or "test"
    proc,           \* "running", or "panicked" or "hanging" in Init
    bt,             \* the B-tree: the latest position of every key
    db,             \* RocksDB: the value of the record of a key and a height
    batch,          \* the changes of db that the current block has collected
    isWriting,
    iters,          \* open iterators, each of which holds the read lock
    currHeight,
    pruneHeight,    \* of the filter; -1 until pruning is enabled
    changed,        \* keys that the current block has changed
    hist,           \* hist[h]: the positions after block h
    committed,      \* the last block whose batch was written
    everPruned      \* the greatest prune height ever set

vars == <<host, proc, bt, db, batch, isWriting, iters, currHeight, pruneHeight, changed,
          hist, committed, everPruned>>

Max64 == MaxHeight + 2      \* math.MaxUint64, which is no height plus one
Recs == Keys \X (1..Max64)
Latest == [k \in Keys |-> NoPos]
NoBatch == [r \in Recs |-> NoChange]

(* A new database, before its first batch. *)
Init ==
    /\ host \in {"OnvaKV", "test"} /\ proc = "running"
    /\ bt = Latest
    /\ db = [r \in Recs |-> NoRec]
    /\ batch = NoBatch
    /\ isWriting = FALSE /\ iters = 0 /\ currHeight = 0 /\ pruneHeight = -1 /\ changed = {}
    /\ hist = [h \in 0..MaxHeight |-> Latest]
    /\ committed = 0 /\ everPruned = -1

(* bytes.Compare.  A record is the key, then the height in big-endian bytes. *)
Before(a, b) ==
    \/ \E n \in 1..Len(a) : n <= Len(b) /\ SubSeq(a, 1, n - 1) = SubSeq(b, 1, n - 1) /\ a[n] < b[n]
    \/ Len(a) < Len(b) /\ SubSeq(b, 1, Len(a)) = a
HeightBytes(h) == IF h = Max64 THEN <<255, 255>> ELSE <<0, h>>
AsBytes(r) == r[1] \o HeightBytes(r[2])

(* The first record at or after <<k, h>>, as a forward iterator finds it. *)
Seek(k, h) ==
    LET S == {r \in Recs : db[r] # NoRec /\ ~Before(AsBytes(r), AsBytes(<<k, h>>))} IN
    IF S = {} THEN NoRec
    ELSE CHOOSE r \in S : \A q \in S : q = r \/ Before(AsBytes(r), AsBytes(q))

(* The bound that tells whether the iterator has left the records of k:    *)
(* the greatest height is written one byte too early, over the last byte   *)
(* of k, and leaves the last byte of the height that was sought.           *)
UpperBound(k, h) == [k EXCEPT ![Len(k)] = 255] \o <<255, HeightBytes(h + 1)[2]>>

\* Mutant: a record at the height itself is taken for the answer.
NotPastHeight(k, h) ==
    LET r == Seek(k, h) IN
    IF h <= pruneHeight \/ r = NoRec \/ Before(UpperBound(k, h), AsBytes(r)) THEN NoPos ELSE db[r]

(* The position of k at height h: the record that expires next after h. *)
GetAtHeight(k, h) ==
    LET r == Seek(k, h + 1) IN
    IF h <= pruneHeight \/ r = NoRec \/ Before(UpperBound(k, h), AsBytes(r)) THEN NoPos
    ELSE db[r]

-----------------------------------------------------------------------------
(* A step of a process that has come through Init. *)
Running == proc = "running" /\ UNCHANGED <<host, proc>>

\* Mutant: a block begins while iterators are open.
BeginsAmongReaders ==
    /\ Running /\ ~isWriting /\ committed = currHeight /\ currHeight < MaxHeight
    /\ isWriting' = TRUE
    /\ currHeight' = currHeight + 1
    /\ changed' = {}
    /\ UNCHANGED <<bt, db, batch, iters, pruneHeight, hist, committed, everPruned>>

(* BeginWrite waits for the readers.  The batch of the block before is      *)
(* closed and a new one opened.                                            *)
BeginWrite ==
    /\ Running /\ ~isWriting /\ iters = 0 /\ committed = currHeight /\ currHeight < MaxHeight
    /\ isWriting' = TRUE
    /\ currHeight' = currHeight + 1
    /\ changed' = {}
    /\ UNCHANGED <<bt, db, batch, iters, pruneHeight, hist, committed, everPruned>>

Change(k) ==
    /\ Running /\ isWriting /\ k \notin changed
    /\ changed' = changed \cup {k}
    /\ UNCHANGED <<db, isWriting, iters, currHeight, pruneHeight, hist, committed, everPruned>>

\* Mutant: no record says that a new key was absent before.
NewKeyLeavesNoRecord(k, v) ==
    /\ Change(k)
    /\ bt' = [bt EXCEPT ![k] = v]
    /\ batch' = IF bt[k] = NoPos THEN [batch EXCEPT ![<<k, Max64>>] = v]
                ELSE [batch EXCEPT ![<<k, currHeight>>] = bt[k], ![<<k, Max64>>] = v]

(* Set records the old position, or an empty value for a new key. *)
Set(k, v) ==
    /\ Change(k)
    /\ bt' = [bt EXCEPT ![k] = v]
    /\ batch' = [batch EXCEPT ![<<k, currHeight>>] = bt[k], ![<<k, Max64>>] = v]

\* Mutant: a deletion leaves the latest record.
DeleteKeepsLatest(k) ==
    /\ bt[k] # NoPos /\ Change(k)
    /\ bt' = [bt EXCEPT ![k] = NoPos]
    /\ batch' = [batch EXCEPT ![<<k, currHeight>>] = bt[k]]

Delete(k) ==
    /\ bt[k] # NoPos /\ Change(k)
    /\ bt' = [bt EXCEPT ![k] = NoPos]
    /\ batch' = [batch EXCEPT ![<<k, currHeight>>] = bt[k], ![<<k, Max64>>] = NoRec]

EndWrite ==
    /\ Running /\ isWriting
    /\ isWriting' = FALSE
    /\ hist' = [hist EXCEPT ![currHeight] = bt]
    /\ UNCHANGED <<bt, db, batch, iters, currHeight, pruneHeight, changed, committed, everPruned>>

(* CloseOldBatch, after EndWrite: readers may come in between. *)
CloseOldBatch ==
    /\ Running /\ ~isWriting /\ committed < currHeight
    /\ db' = [r \in Recs |-> IF batch[r] = NoChange THEN db[r] ELSE batch[r]]
    /\ batch' = NoBatch
    /\ committed' = currHeight
    /\ UNCHANGED <<bt, isWriting, iters, currHeight, pruneHeight, changed, hist, everPruned>>

(* Iterator and ReverseIterator keep the read lock until they are closed. *)
OpenIterator ==
    /\ Running /\ ~isWriting /\ iters < MaxIters
    /\ iters' = iters + 1
    /\ UNCHANGED <<bt, db, batch, isWriting, currHeight, pruneHeight, changed, hist, committed, everPruned>>
CloseIterator ==
    /\ Running
    /\ iters > 0
    /\ iters' = iters - 1
    /\ UNCHANGED <<bt, db, batch, isWriting, currHeight, pruneHeight, changed, hist, committed, everPruned>>

SetPruneHeight(h) ==
    /\ Running
    /\ pruneHeight' = IF pruneHeight < h THEN h ELSE pruneHeight
    /\ everPruned' = IF everPruned < h THEN h ELSE everPruned
    /\ UNCHANGED <<bt, db, batch, isWriting, iters, currHeight, changed, hist, committed>>

(* Filter: whether a record may be dropped. *)
Filter(r) == pruneHeight > r[2]

(* RocksDB compacts a file of records at a time of its own choosing. *)
Compaction(r) ==
    /\ Running /\ db[r] # NoRec /\ Filter(r)
    /\ db' = [db EXCEPT ![r] = NoRec]
    /\ UNCHANGED <<bt, batch, isWriting, iters, currHeight, pruneHeight, changed, hist, committed, everPruned>>

(* The records that have not expired. *)
Unexpired == [k \in Keys |-> IF db[<<k, Max64>>] = NoRec THEN NoPos ELSE db[<<k, Max64>>]]

(* Init of NVTreeMem reads the records in the order of their bytes, first  *)
(* those of the index.  It reports every one; OnvaKV gives it nil for a    *)
(* function.  At a record that is not of the index it goes on without      *)
(* advancing; metadb has had one since the database was made.              *)
InitPanics == host = "OnvaKV" /\ \E r \in Recs : db[r] # NoRec
InitHangs == host = "OnvaKV" /\ ~InitPanics

(* The B-tree as Init leaves it. *)
InitFromDB == IF InitPanics THEN Latest ELSE Unexpired

(* A crash or a shutdown, and the next start. *)
Restart ==
    /\ proc' = CASE InitPanics -> "panicked" [] InitHangs -> "hanging" [] OTHER -> "running"
    /\ bt' = InitFromDB
    /\ batch' = NoBatch
    /\ isWriting' = FALSE /\ iters' = 0 /\ pruneHeight' = -1 /\ changed' = {}
    /\ currHeight' = committed
    /\ hist' = [h \in 0..MaxHeight |-> IF h <= committed THEN hist[h] ELSE Latest]
    /\ UNCHANGED <<host, db, committed, everPruned>>

Next ==
    \/ BeginWrite \/ EndWrite \/ CloseOldBatch \/ OpenIterator \/ CloseIterator \/ Restart
    \/ \E k \in Keys : Delete(k) \/ \E v \in PositionsAt(currHeight) : Set(k, v)
    \/ \E h \in 0..committed : SetPruneHeight(h)
    \/ \E r \in Recs : Compaction(r)

Spec == Init /\ [][Next]_vars

-----------------------------------------------------------------------------
(* Type correctness, and that the index is never written while an iterator *)
(* holds the read lock (BeginWrite, iterators of NVTreeMem).               *)
TypeOK ==
    /\ host \in {"OnvaKV", "test"} /\ proc \in {"running", "panicked", "hanging"}
    /\ bt \in [Keys -> Positions \cup {NoPos}]
    /\ db \in [Recs -> Positions \cup {NoPos, NoRec}]
    /\ batch \in [Recs -> Positions \cup {NoPos, NoRec, NoChange}]
    /\ isWriting \in BOOLEAN /\ iters \in 0..MaxIters
    /\ currHeight \in 0..MaxHeight /\ committed \in 0..currHeight
    /\ {pruneHeight, everPruned} \subseteq (-1)..MaxHeight
    /\ changed \subseteq Keys
    /\ hist \in [0..MaxHeight -> [Keys -> Positions \cup {NoPos}]]
    /\ isWriting => iters = 0

(* No record of another key begins with s, which is k or more of a record *)
(* of k: none lies among the records of k that begin with s.               *)
BeginsWith(b, s) == Len(s) <= Len(b) /\ \A i \in 1..Len(s) : b[i] = s[i]
Undisturbed(k, s) ==
    \A r \in Recs : r[1] # k /\ db[r] # NoRec => ~BeginsWith(AsBytes(r), s)

(* The lookups GetAtHeight is right about.  If the position has expired    *)
(* since, the keys that begin with k and a height must have no record; if  *)
(* it has not, no other key that begins with k, and k must not end in 255, *)
(* the byte that UpperBound writes.                                        *)
Answerable(k, h) ==
    IF \E g \in h + 1 .. Max64 - 1 : db[<<k, g>>] # NoRec THEN Undisturbed(k, k \o <<0>>)
    ELSE db[<<k, Max64>>] # NoRec /\ k[Len(k)] # 255 /\ Undisturbed(k, k)

(* A lookup above every prune height answers with the position the key had *)
(* then, however often it was changed, deleted and set again since,        *)
(* whatever compaction dropped, and also between the end of a write phase  *)
(* and the writing of its batch; and with nothing when the key was only    *)
(* stored later, as its next record hides the later positions              *)
(* (GetAtHeight).  It says nothing, as the code answers wrongly, of a key  *)
(* with neither a later nor a latest record, of one that records of a      *)
(* longer key lie among, and of one that ends in 255 and has not expired.  *)
LookupsSeeHistory ==
    \A h \in 0..committed, k \in Keys :
        h > everPruned /\ Answerable(k, h) => GetAtHeight(k, h) = hist[h][k]

(* The records that have not expired are the last committed block, with    *)
(* nothing of a block whose batch was lost and nothing that pruning        *)
(* touched; and where Init comes to its last record, which it does in a    *)
(* test, and in OnvaKV only before the first batch, when it hangs there,   *)
(* the B-tree is that block, and stays the last block from then on.        *)
InitRebuildsLatest ==
    /\ Unexpired = hist[committed]
    /\ proc = "running" /\ ~isWriting => bt = hist[currHeight]
    /\ proc = "hanging" => bt = hist[committed]

(* GetAtHeight leaves the records of k when it meets "a different k"       *)
(* (indextree.go:247): a key that was not stored at a height has no        *)
(* position there.                                                         *)
AbsentIsNotFound ==
    \A h \in 0..committed, k \in Keys :
        h > everPruned /\ hist[h][k] = NoPos => GetAtHeight(k, h) = NoPos
=============================================================================
