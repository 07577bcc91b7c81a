# OnvaKV in TLA+

TLA+ models of OnvaKV, a key-value store for blockchains with a provable state:
what the code does while blocks are executed, checked with TLC on small
instances and proved with TLAPS where it matters most. Every definition is a
translation of the Go source; `PROJECT.json` maps each one to its lines.

## 1. The system

OnvaKV keeps the latest value of every key in an append-only *entry file*. An
entry carries the key, the value, the *next key* in key order (so that absence of
a key can be proved), the height that wrote it, the height of the version before
it, and a serial number. An in-memory index maps a key to the position of its
live entry. Entries are grouped into *twigs* of 2048, each with a small Merkle
tree and one *active bit* per entry; the twig roots are the leaves of the
upper Merkle tree, whose root is the block's root hash.

| Component | State | Operations | Talks to |
|---|---|---|---|
| `onvakv.go` (OnvaKV) | hot-entry map `k2heMap`, next-key map `k2nkMap`, `cachedEntries` | `PrepareForUpdate/Deletion`, `BeginWrite`, `Set`, `Delete`, `EndWrite`, `PruneBeforeHeight`, `Close` | index, data tree, metadb, by calls |
| `datatree/tree.go`, `proof.go` | active twigs, `deactivedSNList`, upper nodes, touched positions | `AppendEntry`, `DeactiviateEntry`, `EvictTwig`, `EndBlock`, `PruneTwigs`, proofs | entry file, twig Merkle file |
| `datatree/entryfile.go` | the bytes of the entries | `Append`, reads, scans, `GetActiveEntriesInTwig` | the file below |
| `datatree/hpfile.go`, `twigmtfile.go` | files split in segments, an append buffer, a pre-read buffer | `Append`, `ReadAt`, `FlushAsync`, `PruneHead`, `Truncate` | the file system |
| `datatree/load_dump.go` | – | `Flush`, `LoadTree`, `RecoverTree`, scans | all of datatree |
| `metadb` | height, max serial number, oldest active twig, last pruned twig, edge nodes, file sizes, `IsRunning` | setters, `Commit`, `ReloadFromKVDB` | RocksDB batch |
| `indextree` | B-tree key → position, history in RocksDB | `BeginWrite`, `Set`, `Delete`, `EndWrite`, `Get`, `GetAtHeight`, iterators | RocksDB batch |
| `store` | RootStore (cache over OnvaKV), TrunkStore (overlay of a block), MultiStore (overlay of a transaction), PrefixedStore | `Get`, `Set`, `Delete`, `Close(writeBack)`, iterators | each the one below |
| `store/rabbit` | short hashed keys with probe chains and pass-by counts | `Get`, `Set`, `Delete` | a SimpleMultiStore over a trunk |
| `store/b`, `indextree/b` | pages of a B+tree, enumerators | `Set`, `Put`, `Delete`, `Seek`, `Next`, `Prev` | – |

A block has three phases. *Filling*: goroutines call `PrepareForUpdate` and
`PrepareForDeletion` for the keys they are about to write, which copies the
entries of these keys and of their neighbours into the hot-entry map. *Marking*:
`BeginWrite`, then `Set` and `Delete` on hot entries only. *Sweeping*:
`EndWrite` repairs the next-key list, appends the changed entries, compacts old
twigs, computes the root hash and commits the metadata and the index in one
RocksDB batch.

What is hard here:

* *concurrency* – the filling phase is concurrent, and correctness rests on every
  neighbour `EndWrite` needs having been stored by somebody; compaction reads a
  twig in a goroutine while the writer moves its entries; files are flushed
  asynchronously;
* *three records of one fact* – whether an entry is live is recorded in the
  index, in the active bits and in the log of deactivated serial numbers;
* *a list rewritten while it is walked* – next keys of adjacent inserted and
  deleted keys are repaired one after the other;
* *incremental computation* – the root hash, the pass-by counts and the pages of
  the B-tree are changed locally and must agree with what a computation from
  scratch would give, after any history of changes, evictions and prunings;
* *layers that hide each other* – a transaction over a block over a cache over the
  store, with deletions, moved-out objects and iterators at every level;
* *limits* – the list of deactivated serial numbers has a length of one byte;
  compaction appends to the file whose size decides whether it goes on;
* *failure* – entry file, twig file and database are written by different calls;
  after a crash the tree is rebuilt from what happens to be there.

The properties that make the components correct: block atomicity of the map,
agreement of index, active bits and log, the sorted next-key list, unreachability
of the panics, the limits, termination of compaction (`OnvaKV`); what survives a
crash or a clean shutdown (`Recovery`); the contents of a pruned file (`HPFile`);
that an entry reads as it was written, wherever it is moved (`EntryFile`);
equality of the incremental root hash with the one of the whole tree, proofs and
recovery (`MerkleTree`); historical lookups (`HistoryIndex`); coherence of the
store layers (`Stores`); reachability of every key in the probe chains (`Rabbit`);
that the B-tree is an ordered map (`BTree`).

## 2. Modules

| Module | Contents |
|---|---|
| `KVBlockSpec` | abstract specification: a map that changes once per block, by the last request made for each key |
| `OnvaKV` | `onvakv.go` with the parts of datatree, indextree and metadb it drives during blocks; the refinement mapping to `KVBlockSpec` |
| `OnvaKVInv` | the inductive invariant: `IInv`, `TwigsOK`, `HeightsOK`, and `FullInv`, their conjunction |
| `OnvaKV_proofs` | the proof of `IInv` and the theorems that follow from it |
| `OnvaKV_refinement` | extends it: the proof of `FullInv`, the chain of versions, and the refinement of `KVBlockSpec` |
| `Recovery` | extends `OnvaKV` with what is on disk when: asynchronous flushes, the database batch, `Close`, `PruneBeforeHeight`, crashes, and reopening |
| `HPFile` | the head-prunable file under the entry file and the twig Merkle file |
| `EntryFile` | the bytes of entries, and compaction with its reading goroutine |
| `MerkleTree` | twig trees, upper nodes, `syncMT`, eviction, pruning, proofs, dump and recovery |
| `HistoryIndex` | the index with history in RocksDB, its batch, pruning and restarts |
| `Stores` | RootStore, TrunkStore, MultiStore, PrefixedStore and merged iteration |
| `Rabbit` | probe chains in a transaction's cache over a trunk |
| `BTree` | the B+tree of `store/b` with an enumerator |
| `Recovery_proofs`, `Stores_proofs`, `HistoryIndex_proofs`, `Rabbit_proofs`, `HPFile_proofs`, `EntryFile_proofs` | the inductive invariant, lemmas and theorems of the module they are named after |
| `MC...` | the instance of each for TLC |

The modules meet where the code does. `Recovery` runs the actions of `OnvaKV`
itself. `OnvaKV` and `Stores` take from below what a module of its own shows:
`OnvaKV` a root hash, an entry file that reads back (`EntryFile`, `HPFile`) and an
index that is a map (`HistoryIndex`); `Stores` an OnvaKV that is a map changed once
per block (`KVBlockSpec`) and caches that are ordered maps (`BTree`); `Rabbit` a
trunk that is a map (`Stores`). The definitions with a bug put in, which test the
properties, stand before the definitions they replace, are marked as mutants, and
nothing else uses them.

### OnvaKV: state and code

| Variable | Code |
|---|---|
| `phase` | which of the three phases the block is in, and within `EndWrite` which loop: `linking` and `sweeping` are the two loops of `update()`, `compacting` the test of the compaction loop, `reaping` its body |
| `currHeight`, `oldestActiveTwigID` | the fields of metadb |
| `idxTree` | the B-tree of `NVTreeMem`, key → position |
| `datTree` | `entryFile` (entry and flushed list of deactivated serial numbers per serial number), `activeBits` of all twigs, `deactivedSNList`, and metadb's `maxSerialNum` |
| `k2heMap`, `k2nkMap` | the two bucket maps (the buckets only spread the locks) |
| `task` | per goroutine, the stores its Prepare call has not made yet |
| `forUpdate`, `forDeletion` | keys the client has prepared in this block |
| `cachedEntries`, `todo` | the sorted array of `update()` and the part of it the loop has not reached |
| `batch` | history variable: the last request per key in this block |

Positions and serial numbers are identified: an entry's position in the file is
found from its serial number and back in every place the model needs. Keys are
integers in place of byte strings; values are model values; a Go `nil` value is
`NoValue`, a `nil` key is `NoKey`.

A Prepare call reads index and entry file in one step, because during the
filling phase nothing writes them (`BeginWrite` takes the index lock and the
client joins its goroutines first), and then stores into the maps one bucket lock
at a time: each `Store` is a step of its own, interleaved with those of the other
goroutines. `EndWrite` is single-threaded where it matters, but each iteration of
its loops is a step, so the invariants also hold half-way through. The goroutine
that feeds compaction reads bits of a twig in ascending order while the writer
clears the bit of an entry only after it has received it, so the entries arrive
in ascending order and none is missed: `ReapEntry` takes the least active one.
(`EntryFile` has the goroutine and its channel, and checks this.)

The client is the one the stores are: it sets keys it prepared for update and
deletes keys it prepared for deletion. `OneOpPerKey` is TRUE for TrunkStore, whose
write-back issues one operation per key and block, and FALSE for a client that
calls `Set` and `Delete` freely.

### Recovery: state and code

`Recovery` runs the actions of `OnvaKV` unchanged and adds the durable state. A
block's steps are `Work(...)`, and `EndBlock` of `OnvaKV` is split where the code
becomes durable: `TreeEndBlock` takes both file locks for the goroutines of
`FlushAsync`, `CommitBatch` writes the RocksDB batch.

| Variable | Code |
|---|---|
| `proc`, `blockEnded` | whether the process runs, is within `Close`, or is down; between `datTree.EndBlock` and `CloseOldBatch` |
| `entriesOnDisk`, `entriesFlushing`, `tornEntry` | the entry file's length in entries, the lock held by its flushing goroutine, an incomplete last entry |
| `twigsOnDisk`, `twigsFlushing` | the same for the twig Merkle file |
| `lostTwigs` | twigs whose segment `PruneHead` has deleted; any number up to the pruned one, since segments do not end where twigs do |
| `lastPrunedTwig` | metadb's field in memory, written by the next `Commit` |
| `db` | what RocksDB holds: the fields of `Commit`, and `TwigHeight`, `IsRunning` and the positions of the edge nodes (`edgeNodes`), which are written at once |
| `dump` | what `Tree.Flush` has written: `<<>>`, or the sequence of one element, the active bits |
| `opened` | what `NewOnvaKV` has rebuilt, or that it panicked |
| `committed`, `quiet`, `prunedBefore` | history: the state at the last commit; whether the process ended between two blocks with nothing pending; the greatest height pruned |

Reading and appending wait while the file's lock is held; a buffer that fills is
written earlier than any flush, which `Crash` covers by choosing any prefix of the
appended entries. `Open` reads the files as they are, because the code does.
`RecoverTree` panics where the code does: when the scan or the roots of the inactive
twigs cannot be read, and when `syncNodesByLevel` does not find a child. For the latter the
model has the positions of the upper nodes, not their hashes: the ones above the twigs
that are read again (`TouchedAt`) and the edge nodes the last pruning has saved for the
levels the tree had then; `CanSyncUpperNodes` asks for the two children of every node
that is computed, level by level (`MerkleTree` has the hashes).
A behaviour ends when the store is open again: what blocks after a restart do is
what `OnvaKV` does from another initial state.

### HPFile: state and code

| Variable | Code |
|---|---|
| `files` | `fileMap` with the contents of the segment files |
| `largestID`, `latestFileSize`, `buffer` | the fields of that name |
| `writeOffset` | the operating system's offset of the latest segment's handle |
| `locked` | `mtx` held by the goroutine of `FlushAsync` |
| `preReader`, `readPanic` | the read-ahead window; `readAtWithBuf` has panicked |
| `slices`, `prunedTo`, `truncated` | history: what was appended where, how far the head was pruned, and whether the open file was truncated |

A byte is the position it was appended at plus one, so that a misplaced byte is
seen; padding is 0. Every other call is one step, since each holds the lock for its
duration; `PruneHead` takes no lock and may come between `FlushAsync` and its
goroutine. `Truncate` is called by a test only; like it, the model's caller truncates
a flushed file and opens it again before it appends. The loop of `Append` over its
slices is `AppendLoop`, which ends before the segment is compared with its limit, as in
the code: a call may therefore leave bytes behind the end of its segment.

`HPFileAssumption` asks two things of a call that the code does not check. What lies
behind the end of the segment must not exceed the buffer, of which the padding of the
next segment is made (`hpf.buffer[:overflowByteCount]` panics otherwise). And a call
must not be longer than a segment, because `latestFileSize` is reduced by one segment
only: a longer one that starts at the last byte would leave it at `BlockSize`, and the
next slice would be looked for at the head of a segment that does not exist. With a buffer
smaller than a segment the first implies the second. `NewOnvaKV` uses 16 MB and 1 GB, so
that both hold as long as no entry comes close to 16 MB.

### EntryFile: state and code

| Variable | Code |
|---|---|
| `file` | the contents of the entry file |
| `maxSN`, `oldest` | metadb's `maxSerialNum` and `oldestActiveTwigID` |
| `active`, `deactivedSNList`, `firstEntryPos` | active bits of all twigs, the pending list, `Twig.FirstEntryPos` |
| `reader`, `chan` | the goroutine of `GetActiveEntriesInTwig` (its loop variables) and its channel |
| `log`, `live` | history: what was appended where; how many entries with each body clients wrote and did not remove |

The file is at half scale: a cell stands for two bytes, so that a 64-bit field is
four cells and MagicBytes are four cells with the shape of the code's eight (a
palindrome, so that occurrences overlap). Everything that is arithmetic
on positions is kept: escaping, the list of positions before the strings, the
length that leaves out the list of serial numbers, padding, and the places from
which the raw extractors read. `Base` is the number of values of a cell, any even number
from 64 on (128 in the instance); entries are shorter than `MaxEntryBytes`, as
`readMagicBytesAndLength` demands. A client's write is `Insert`, `Change` or `Delete`; the
compaction of one twig is `GetActiveEntriesInTwig`, the steps of the reader,
`MoveEntry` (one iteration of the loop of `EndWrite`) and `EvictTwig`.

### MerkleTree: state and code

| Variable | Code |
|---|---|
| `tree` | `Tree`: `twigs` (the active ones, with bits and the trees of the right half), `mtree` (`mtree4YoungestTwig`), `nodes`, `touched`, `leaves` (the changed range of the youngest twig), `toBeDeleted`, `mtFile` (the twig Merkle file), `panic` |
| `maxSerialNum`, `oldest`, `lastPruned`, `dbLastPruned`, `edgeNodes` | metadb, in memory and in the database |
| `lostTwigs`, `pending`, `unlogged` | what pruning took from the file; the pending list; deactivations no entry lists |
| `stage`, `ops`, `restarts`, `staleTop` | inside or outside a block; bounds; the state of the finding `boundary` |

A hash is the term it was computed from: two hashes are equal if and only if they
were computed from the same thing, which is what collision resistance gives.
`syncMT` is one step as far as its goroutines are concerned, since those of a level
write different nodes and are joined before the next level. `Reload` is a clean
close and load, `Recover` what follows a crash between two blocks.

### HistoryIndex: state and code

| Variable | Code |
|---|---|
| `host`, `proc` | whose index it is: that of OnvaKV, which passes nil to `Init` and whose metadb is in the same RocksDB, or that of a test; and whether the process runs or has ended in `Init`, with a panic or an endless loop |
| `bt` | the B-tree of `NVTreeMem` |
| `db`, `batch` | RocksDB's records and the open batch |
| `isWriting`, `iters` | the flag, and the read locks of open iterators |
| `currHeight`, `pruneHeight` | the fields; the filter's height, -1 until enabled |
| `changed`, `hist`, `committed`, `everPruned` | history: keys changed in the block, the positions after each block, the last durable block, the greatest prune height |

Records are ordered as bytes, so that the bounds of `GetAtHeight` can be translated
literally; heights and keys are short. A key may be a prefix of another one and may end
in 255, as a guard does. The first start makes a new index; `Restart` is every later one,
and runs `Init`. A block begins when
the batch of the one before it has been written, as `OnvaKV.EndWrite` calls
`CloseOldBatch` before it returns. `Compaction` may drop any record the filter
allows, at any step. A restart loses `bt`, `batch` and `pruneHeight`. `PositionsAt` bounds the
positions a block may store.

### Stores, Rabbit, BTree: state and code

`Stores`: `okv` is the map below, `prepU` and `prepD` the keys prepared in it; `cache` and
`cacheBuf` are RootStore's object cache and the objects read during a block, which
enter the cache when the block is written; `trunk` and `multi` the caches of the block and of each transaction;
`phase` where the block stands; `block` and `mine` are history, the map the block
must become and the writes of each transaction. A cache entry is a value, a
deletion, or the hole `GetObj` leaves. A block ends with a write-back or, by `DiscardTrunk`, without
one. Reads and iterations change nothing and
are operators which the invariants evaluate in every state.

`Rabbit`: `trunk` and `cache` map short keys to slots (content, `passbyNum`, `isEmpty`);
`prepU`, `prepD` are the slots prepared; `committed` and `view` are history, the map
as it is and as the open transaction sees it. The hash chain of a key is the constant
`Path`.

`BTree`: `t` is the tree with its pages in a table in place of pointers (0 is `nil`), `e`
the enumerator, `asc`, `last` and `final` its user (direction, the item returned last, and whether it was
the last one on its way), `kv` the map as history. Every operation is
one step, with the recursion of the code as operators on the table.

## 3. Runs

| Run | Properties | Instance | States |
|---|---|---|---|
| `core` | `TypeOK`, `NoPanic`, `LinkedList`, `ImplementsKVBlockSpec` | 2 keys, 2 values, 2 goroutines, 2 blocks | 126466 |
| `blocks` | `ActiveIffIndexed`, `LogExplainsActiveBits`, `SNListFits`, `NoActiveInEvictedTwig`, `FullInv`, `VersionStep` | 3 keys, 1 value, 1 goroutine, 3 blocks | 1745632 |
| `restart` | `RTypeOK`, `KeepsStoredKeys`, `RestoresActiveBits`, `QuietRestartSucceeds`, `PrunedIsDeadAndOld`, `EndWriteTerminates` | 1 key and the guards, 5 blocks, twigs of 3, prunings before heights 2 and 5, `RFairSpec` | 727712 |
| `segments` | `NothingLost`, `WindowIsCurrent` | buffer 2, segment 4, window 4, size up to 10 | 138396 |
| `entries` | `ReadsBack`, `LeavesAreRecovered`, `CompactionKeepsEntries`, `MagicOnlyAtEntries` | 2 bodies full of MagicBytes, twigs of 2, up to 9 entries | 67177 |
| `merkle` | `HashesConsistent`, `RootIsReference`, `ProofsCheck`, `RecoveredIsTheTree` | twigs of 4 entries, up to 20 entries | 264785 |
| `boundary` | `RecoveredRootIsReference`, violated | the same | |
| `history` | `TypeOK`, `LookupsSeeHistory`, `InitRebuildsLatest` | 3 keys, of which one is a prefix of another and one ends in 255, a new position per block, 3 blocks | 1040626 |
| `absent` | `AbsentIsNotFound`, violated | the same | |
| `stores` | `ReadsSeeLatest`, `IterationIsTheView`, `RootCacheCoherent`, `TrunkCanBeWritten`, `BlockIsCommitted` | 3 keys under 2 prefixes, 2 transactions, 2 changes per block | 324819 |
| `rabbit` | `FindsTheMap`, `PassbyCounts`, `WritesArePrepared` | 3 keys, 4 slots, chains of 4 | 117280 |
| `btree` | `ImplementsMap`, `EnumeratesInOrder`, `NeverSkips` | 8 keys, pages of 2 items | 49230 |

Bounds of `OnvaKV` and `Recovery`. `MaxHeight` bounds the number of blocks and is the
only cut of the state space. Twigs have 2 entries, compaction may start with 3
indexed keys (guards included) and `DeactivedSNListMaxLen` is 1 or 2, so that
within two or three blocks twigs fill, dummies are appended, live entries are
moved and several twigs are evicted; with the code's 2048, 10000 and 64 none of
this would happen in a small instance. Two keys make every pattern of neighbours
with the guards; three keys (`blocks`) make runs of adjacent insertions and
deletions. Two goroutines are enough for stores to be overtaken, since a Prepare
call only ever stores copies of committed entries. The `ASSUME`s of `OnvaKV` say
what the constants must satisfy; the code's values do.

`Recovery` needs one key only: the guards and the dummies are further entries, and
what is restored does not depend on how keys interleave. Twigs have 3 entries
there: with 2, the guards alone would complete the twig after the dummies, which
they do not in the code. `TwigAssumption` says that the oldest twig a compaction
leaves is complete, as it is with the code's sizes; otherwise its first entry's
position would not be in the twig file. Five blocks are enough for two twigs to be evicted,
pruned (`MinPruneCount` is the code's 2) and the pruning committed, with the tree one level
higher when it is recovered than when the edge nodes were saved; and for a third twig to go with them when
nothing was pruned before, so that the edge nodes stand behind an odd and an even number of
twigs. `PruneHeights` are the heights asked for: one soon, one at the end.

The other bounds. In `HPFile` a segment is two buffers and the size allows three
segments, so that a call fills the buffer, the segment, or both, and a middle
segment exists; a call has one to three slices, one of which may be empty. In `EntryFile` one body has three occurrences of MagicBytes, two of them
overlapping and one that runs into the height, the other has them in every
string; `MaxWritten` entries are written and compaction, which needs dummies, goes
on to `MaxSN`; the channel holds one entry, so the reader is between zero and two
entries ahead of the loop. In `MerkleTree` `MaxSN` makes five twigs: the height of the upper tree
grows twice, twigs are evicted and several are pruned at once, to even and to odd
numbers, and the youngest twig is empty at times; `MaxActive` and `MaxOps` bound how many entries
are alive and how much a block does. The same invariants were also checked once
with seven twigs of two entries (417157 states). In `HistoryIndex` a key is
written, deleted and written again within the three blocks, with a pruning
height between them; a longer key has records among those of the key it begins with. In `Stores` the cache of RootStore has room for one object, so that
a second one evicts it; two changes per block let one transaction see what another
has committed and hide what it deletes. In `Rabbit` the paths of the keys meet in
both orders, and one path visits a slot twice. In `BTree` pages are the smallest the
code allows and eight keys make three levels, with every kind of split and join;
`MaxEnumLen` bounds the tree only while an enumerator is open.

The type invariants of `HPFile`, `EntryFile`, `MerkleTree`, `Stores` and `Rabbit` are
conjuncts of `NothingLost`, `CompactionKeepsEntries`, `HashesConsistent`,
`RootCacheCoherent` and `PassbyCounts`. Every passing property has at least one
mutant in `PROJECT.json`: a definition with a plausible bug put in, under which TLC
finds the property violated.

Deadlock is checked in the runs of `OnvaKV`, `MerkleTree`, `HistoryIndex`, `Stores`,
`Rabbit` and `BTree`, in which something can always happen next. In `Recovery` a
behaviour ends when the store is open again or the process has panicked, in
`HPFile` when a read has panicked, and in `EntryFile` when the bounded file is full, so
their runs do not check it; `EndWriteTerminates` covers the waiting for file locks.

Fairness. `RFairSpec` adds weak fairness of the steps of `EndWrite`, that is, the
goroutine that has called `EndWrite` keeps being scheduled, and of the two
flushing goroutines, which are runnable until they release their lock. Nothing is
assumed of the client, which need not start or end a block; crashes and closes may
come at any time. `EndWriteTerminates` then says that a sweep that has begun ends.

## 4. What the code does against its documentation

Two runs are violated.

* `absent`: `GetAtHeight` decides whether the record it found belongs to the key with a
  bound that forgets the type byte (`indextree/indextree.go:246`), so that a key that
  was never stored is answered with the position of its neighbour. `LookupsSeeHistory`
  says what remains right.
* `boundary`: when the last entry filled a twig, a recovered tree has not touched the
  new twig (`datatree/load_dump.go:331` against `datatree/tree.go:354`) and its root
  hash differs until the next append (`docs/PackagesIntro.md:58`). The other
  properties leave this state out (`staleTop`).

Further disagreements which the models contain and no run is spent on. In
`OnvaKV` and `Recovery`:

* with `OneOpPerKey = FALSE`, a client that sets and then deletes a key that is not
  stored, in one block, finds the key stored afterwards: the hot entry has
  `Operation == OpDelete` and `SerialNum == -1`, and falls through to the branch that
  appends it (`onvakv.go:421`), although the comment at `onvakv.go:422` says that this
  case is ignored. The stores of this repository never make both requests;
* the upper nodes do not always fit together again. OnvaKV records `end-1` as the last
  pruned twig (`datatree/fuzz/dtfuzz.go` records `end`), and `RecoverTree` starts at the left one
  of its pair; when the number of pruned twigs is a multiple of four, that is below a right
  child two levels up, for whose left sibling there is neither a twig nor an edge node, and
  `syncNodesByLevel` panics (`datatree/tree.go:531`). The same happens after a crash between a pruning and the
  next commit, when the edge nodes are those of a later pruning than the recorded number
  (`onvakv.go:576`). `docs/PackagesIntro.md:110` promises a recovery in both cases. `QuietRestartSucceeds`
  says that a restart succeeds in all others (`Recoverable`);
* deactivations made after the last append of a block are in memory only; a crash
  between two blocks, with everything flushed and committed, brings the entries
  back to life (`datatree/tree.go:430`, against `docs/PackagesIntro.md:58`);
  `RestoresActiveBits` says that nothing else goes wrong with the bits, and that
  an entry in a twig that is no longer active does not come back;
* before the first committed pruning `LastPrunedTwig` is -1 and
  `RecoverInactiveTwigRoots` reads the hash of twig -1, which panics
  (`datatree/load_dump.go:397`, against `docs/PackagesIntro.md:110`);
* nothing truncates the files before recovery, so that entries of an uncommitted
  block are recovered (`onvakv.go:112`, against `docs/PackagesIntro.md:201`);
* `IsRunning` is cleared before the tree is dumped, so that a crash within `Close` is
  taken for a clean one (`onvakv.go:147`, against `docs/PackagesIntro.md:198`);
* `PruneBeforeHeight` may ask for a single twig, which `PruneTwigs` refuses with a
  panic (`onvakv.go:574`, `datatree/tree.go:377`);
* without history the reopened index also holds dummies and deleted keys
  (`onvakv.go:126`: "only latest index"); `KeepsStoredKeys` says that the stored keys
  are right;
* the batch may be durable before the entries are, since `EndWrite` does not wait
  for `FlushAsync` (`docs/PackagesIntro.md:178`: "If the batch commits, the block
  commits.").

In `HPFile`:

* a buffered read that ends at the end of the file panics, because `TryRead` requires
  `start + len < end` strictly (`datatree/hpfile.go:315`, against the assertion at
  `datatree/hpfile.go:219`). The padding behind an entry hides it most of the time;
* `ReadAt` does not look into the append buffer (`docs/PackagesIntro.md:40`);
* after `Truncate` the handle is at offset 0, so that an append would overwrite the
  segment (`docs/PackagesIntro.md:38`); the model's caller opens the file again
  first, as the only one, a test, does.

In `MerkleTree`:

* recovery panics when a multiple of four twigs was pruned, or none, as said above;
  `RecoveredIsTheTree`, which is about the hashes, leaves these cases out;
* after an odd number of pruned twigs the first remaining twig cannot be proved,
  since its peer is gone (`ProofsCheck` leaves it out);
* after a restart before the commit of a pruning, the heights of the pruned twigs are
  gone while their number is not recorded: `PruneBeforeHeight` never prunes again;
* after a reopening `rootHash` is empty until the next block ends.

In `EntryFile`:

* `getAllPos` stops at `start + len(sep) < len(s)`, so that of two adjacent
  occurrences at the end of NextKey the second stays; and when NextKey ends with
  the beginning of MagicBytes and the height's low byte continues it, an occurrence
  reaches into the height, although `entryfile.go:136` says "MagicBytes can not lay in or
  overlap with these 64b integers". `docs/PackagesIntro.md:50`, "you can find MagicBytes
  only at the beginning of every entries", has these exceptions, and
  `MagicOnlyAtEntries` no others. Entries are still read correctly (`ReadsBack`);
* the documentation spells MagicBytes "ILOVEYOU", the code does not;
* an entry of 2^24 bytes or more is written with its length cut to 24 bits;
* `EntryFromRawBytes`, which only the mock calls and the model leaves out, skips four
  bytes more than `recoverMagicBytes` asks for.

In `HistoryIndex`:

* the prune height is not persisted: after a restart nothing is dropped until the
  next pruning;
* OnvaKV cannot be opened again with history, although `docs/PackagesIntro.md:216-224` describes
  how the B-tree is loaded: `NewOnvaKV` passes nil to `Init` (`onvakv.go:122`), which calls it
  for the first record (`indextree/indextree.go:151`) and panics. Without that it would not end: at a record of
  another kind, such as those of metadb in the same RocksDB, the loop goes on without
  advancing the iterator (`indextree/indextree.go:147-148`). `Restart` does both. `InitRebuildsLatest` says what
  is right nevertheless: the records that have not expired are the last committed block, and where
  `Init` comes to its end, which it does in the tests, so is the B-tree;
* the bound of a lookup overwrites the last byte of the key with 255, so that a key which
  ends in 255, as the upper guard of every OnvaKV does, is not found at a height unless its
  position has expired since (`indextree/indextree.go:246`);
* nothing separates the key of a record from the height that follows it. If a
  stored key is the beginning of another, say k and k followed by 0, the records of the
  longer one may lie between the expired records of the shorter one and its latest,
  and `GetAtHeight` (`indextree/indextree.go:232-247`) takes the first record behind the height it
  looks for: it may answer with a position of the other key. Keys of one length, such
  as those of `store/rabbit`, are safe.

  The instance has such keys. `Answerable` says of which lookups `GetAtHeight` is right: an expired
  position is found unless a record of another key begins with k and a zero byte; the one
  that has not expired, unless k ends in 255 or a record of another key begins with k. It is
  a condition on the records there are at that moment, for the key that is looked up
  only.

In `Stores`, `Rabbit` and `BTree`:

* `root.go:74` calls `isCacheableKey` without testing for nil, which the other
  methods do; the model has a function;
* `MultiStore.Set` accepts a nil value, which an iterator then skips; the model's
  clients set values;
* a slot of `Rabbit` that is deleted after its object was moved out stops `ScanAllEntries`
  (`rabbit/simple_cache.go:101`); the panic ends the transaction in the model;
* an enumerator whose tree changed may return its last item once more
  (`btree.go:105-108`: "automatically resumes the enumeration at the proper key");
  `NeverSkips` says when it does not leave one out;
* an enumerator sets its error when it returns the last item (`btree.go:864`, `btree.go:878-880`), and
  from then on does not look at the tree any more (`btree.go:841`): an item that is then inserted
  behind the last one is left out, although no `io.EOF` was returned yet
  (`btree.go:105-112`: "once an Enumerator returns io.EOF"). This is the one
  exception in `NeverSkips` (`final`); an item inserted earlier is returned.

## 5. Proofs

Every theorem holds for all values of the constants that the named `ASSUME`s of its
module allow, and for any number of blocks; TLC evaluates the `ASSUME`s on every
instance. The theorems, the property each one states and its hypotheses:

| Module | Theorem | States | If |
|---|---|---|---|
| `OnvaKV_proofs` | `Invariance` | `IInv` | `OneOpPerKey` |
| | `TypeCorrect` | `TypeOK` | `OneOpPerKey` |
| | `IndexAgreesWithActiveBits` | `ActiveIffIndexed` | `OneOpPerKey` |
| | `LinksAreSorted` | `LinkedList` | `OneOpPerKey` |
| | `NoPanicReachable` | `NoPanic` | `OneOpPerKey` |
| | `LogIsComplete` | `LogExplainsActiveBits /\ SNListFits` | `OneOpPerKey` |
| `OnvaKV_refinement` | `FullInvariance` | `FullInv` | `OneOpPerKey` |
| | `EvictedTwigsAreDead` | `NoActiveInEvictedTwig` | `OneOpPerKey` |
| | `SNListsFit` | `SNListFits` | `OneOpPerKey` |
| | `VersionsAreChained` | `VersionStep`, an action property | `OneOpPerKey` |
| | `RefinesKVBlockSpec` | `ImplementsKVBlockSpec` | `OneOpPerKey` |
| `Recovery_proofs` | `RecoveryInvariance` | `RInv` | `OneOpPerKey` |
| | `DurableTypeCorrect` | `RTypeOK` | `OneOpPerKey` |
| | `ActiveBitsAreRestored` | `RestoresActiveBits` | `OneOpPerKey` |
| | `KeysAreKept` | `KeepsStoredKeys` | `OneOpPerKey`, and no key is that of the dummies |
| | `QuietRestartsSucceed` | `QuietRestartSucceeds`, which asks for `Recoverable` after a crash | `OneOpPerKey` |
| | `PruningIsSafe` | `PrunedIsDeadAndOld` | `OneOpPerKey` |
| `Stores_proofs` | `Invariance` | `Inv` | |
| | `CacheIsCoherent` | `RootCacheCoherent` | |
| | `WriteBackNeverStops` | `TrunkCanBeWritten` | |
| | `BlocksAreCommitted` | `BlockIsCommitted` | |
| | `TransactionsReadLatest` | `ReadsSeeLatest` | |
| `HistoryIndex_proofs` | `Invariance` | `Inv` | |
| | `TypeCorrect` | `TypeOK` | |
| | `InitIsFaithful` | `InitRebuildsLatest` | |
| | `LookupsAreHistorical` | `LookupsSeeHistory`, for the lookups that are `Answerable` | |
| `Rabbit_proofs` | `RabbitInvariance` | `RabbitInv` | |
| | `ProbingFindsTheMap` | `FindsTheMap` | |
| | `CountersBalance` | `PassbyCounts` | |
| | `WriteBackIsPrepared` | `WritesArePrepared` | |
| `HPFile_proofs` | `Invariance` | `Inv` | |
| | `NothingIsLost` | `NothingLost` | |
| | `WindowStaysCurrent` | `WindowIsCurrent` | |
| `EntryFile_proofs` | `Invariance` | `Inv` | |
| | `EntriesReadBack` | `ReadsBack` | |
| | `LeavesSurvive` | `LeavesAreRecovered` | |
| | `CompactionIsSafe` | `CompactionKeepsEntries` | |
| | `MagicMarksEntries` | `MagicOnlyAtEntries` | `SmallNumbers`: heights and serial numbers below 2^48 |

### OnvaKV

Assumptions: `KeyAssumption` and `KeyOrderAssumption` (keys are integers between the guards, and
every non-empty set of them has a least and a greatest member), `ValueAssumption` (the
special values differ from the stored ones), and `SizeAssumption` (compaction only
starts when the oldest twig is full, an inequality that 2 * 10001 >= 2048
satisfies). `OneOpPerKey` is what the stores above guarantee.

None of the properties is inductive: that the list is sorted at the
end of a sweep depends on what the Prepare calls stored several phases earlier.
`IInv` carries that through. While the maps are filled (`FillingOK`) every hot
entry is the committed entry of its key plus at most the requested operation, and
the keys that are hot, *or will be when the running calls have finished*, contain
the neighbours of every key prepared for insertion or deletion (`Closed`). When
`EndWrite` gathers them, this becomes `LinkingOK`: with `FinalKeys` the keys that
will be stored when the sweep is over, every entry the loop has marked as touched
points to its successor in `FinalKeys`, and every entry it has passed has a
touched predecessor. At the end of the loop that gives `SweepingOK`: for every key
of `FinalKeys`, the next key it has once its pending change is written is its
successor in `FinalKeys`. `FinalKeys` is unchanged by every write of the sweep, so
that when nothing is pending the list is sorted. The neighbour lemmas (the
predecessor in `FinalKeys` of a changed key is at hand among the cached entries)
are where the integers and the least and greatest members of sets are used; the
data-tree lemmas (`DataTreeStep`) say what appending and deactivating do to the
file, the bits and the list, and are shared by sweeping and compaction.
`LogIsComplete` has an invariant of its own about the log.

`FullInv` adds two parts that are inductive relative to `IInv`. `TwigsOK`: the oldest active
twig is full before compaction starts on it, so that what compaction moves lands
behind it and the twig that is then evicted is dead. `HeightsOK`: what a block has not
rewritten is from an earlier block, and a cached entry has the height of the entry
it will replace, from which the chain of versions (`VersionStep`) follows.

The refinement. `AbstractStore` takes a key's value from its hot entry while that entry's
change is not written, and from the index and the file otherwise. The initial states
map to the initial state of `KVBlockSpec`; a `Set` or `Delete` maps to a request; `Gather`, where
`EndWrite` takes over the requests, maps to the block's change, because by `FillingOK` the hot
entries carry exactly the last request for every key; every other step, including
each write of the sweep and each move of compaction, is a stutter.

### Recovery

`TwigAssumption` says that the oldest twig a compaction leaves is complete. `RInv` consists
of `FullInv` and of what relates memory, files and database:

* `FileOK`: the file beyond what `OnvaKV` needs to know: of the entries of a stored key the
  indexed one is the last, nothing in it is from the future;
* `CommittedOK`: the state of the last commit can be *read off* the part of the file that
  was written then (`ReadOff`): a serial number is active if and only if no entry lists
  it, but for the pending list. As the file is append-only, later blocks, flushes and
  half-written blocks do not disturb this (`ReadOffFrame`), and a restart that reads
  exactly that part finds the committed state;
* `DbOK`: RocksDB is of one batch: the oldest active twig is that of the committed state
  and is full, and the heights recorded for twigs bound those of their entries;
* `PrunedOK`: pruning stays behind that twig, in memory and in the database, and the edge nodes
  are those of the last pruning, up to a level at which one node covered the tree (`EdgesOK`);
* `DiskOK`: what a flush that is not running any more has put on disk;
* `ProcOK`: how the process went down, and what the dump holds;
* `OpenedOK`: what a restart gave back; three of the theorems are its conjuncts.

The steps of a block are those of `OnvaKV` (one lemma says so), so that `FullInv` is not
proved again.

That a recovery finds all nodes (`QuietCanSync`) is an argument about halves. `RecoverTree`
reads the twigs from s on, where s is even and the pruning ended at s+1 or at s+2, to the youngest one without
a gap. At a level whose nodes cover `Width[level]` twigs the touched nodes are then those
from `s \div Width[level]` to the right edge, and of a touched node above, the right child is one of them or
beyond the edge, where it may be missing (`Closes`). The left child is one of them too but for the first
touched node, whose left child may be the one before; there the edge node has to be. It begins where
the pruning ended, rounded down to a left child, and `SameRightChild` shows that this is the place unless
the pruning ended at a multiple of four; the lemmas `EdgesAt` and `UpperNodesFit` put it together. At levels that the
tree did not have when the edge nodes were saved the first touched node is node 0, a left child. `Width` is a
recursive function, whose equations come from `DoublingExists` and `DoublingUnique`; `QuotientHalves` is the
one fact about division that is needed.

### Stores

`StoresAssumption`: finitely many keys. `Inv` is `TypeOK`, `CacheCoherent`, `CacheBounded`, `PhaseOK`, `TxOK`
(the cache of a transaction holds its last writes, but for objects moved out),
`PreparedOK` (whatever a cache holds was announced to OnvaKV, in the trunk and in every
transaction, which is why a merge cannot introduce an unannounced change), and
`BlockOK`: the block is the trunk over OnvaKV, also when the trunk is half written.

### HistoryIndex

`IndexAssumption`: keys are non-empty strings of bytes.
`Inv` is `Types`, `PhaseOK`, `BatchOK` (the open batch is exactly the difference between the last
committed block and the current one), `LatestOK` (the records under the greatest height
are those of the last committed block), and `HistoryOK`: for every height above all pruning, the
first record of the key that expires after it holds the position of that height, or
there is none and the key was absent. That survives compaction, which drops only
records that expired too early, and a block, which files the position it replaces
under its own height. `LookupAnswers` then shows that for a lookup that is `Answerable` the seek of
`GetAtHeight`, in the order of bytes, arrives at that record (`SeekFinds`: what stands between two records of k
begins with what these have in common, and is a record of another key that `Undisturbed` excludes) and that
the bound recognises it (`WithinBound`). The lemmas on `bytes.Compare` (`BeforePointwise`, `RecordOrder`,
`RecordPrefix`) are pointwise and need no induction.

### Rabbit

`PathAssumption`: the probe path of a key is any function to slots, cyclic ones
included. `RabbitInv` states the same thing twice, of the trunk and the committed map, and
of what the cache shows on top of it and the map of the open transaction:
`MapOK(g, m, H)`, where H is the depth at which a key is stored. Every stored key is at
its depth, and on the way there every slot exists and holds another key; every
slot that is not empty is the home of a stored key; the counter of a slot is the
number of probes of stored keys that pass by it, and an empty slot has a positive one.
`H` is not in the code, and is what makes the counters inductive: an insertion adds
exactly the probes before the new home, a deletion removes exactly those, and
slots whose counter falls to zero can go because nobody else's way leads through them.
`CacheOK` says that a slot which is not dirty is the one in the trunk, `Prepared` that every
dirty one was prepared for what will happen to it.

### HPFile

`HPFileAssumption`, as above: any sizes such that a segment is a whole number of buffers, and
calls with any number of slices. Neither property is inductive. `Inv` is

* `Types`;
* `SegmentsOK`: no segment is missing behind the point of pruning, all but the latest one are
  full, and the file handle is at the end of the latest one, where the buffer belongs, except
  between `Truncate` and `Reopen`;
* `SlicesOK`: the slices lie one behind the other from the head of the file to its end.
  Truncating at the start of a slice relies on it: the slice before ends there, which is
  the new end of the file;
* `ContentsOK`: every kept slice is whole in the segment it starts in, followed by the buffer if
  that is the latest one;
* `WindowOK`: `WindowIsCurrent`, and the window never reaches beyond what is on disk of the latest
  segment. This is why nothing has to invalidate it: what it covers was
  written before it was filled, and an append changes only what is behind it.

The slices of a call are summed up, and appended, by recursive functions. What such a function
computes is proved from `SetInduction` (a set of numbers with 0 and closed under successor up to n
contains 0..n, from a least counterexample): `RecursionExists` says that the defining equations have a
solution on 0..n, from which `SumsDef` and `LoopDef` conclude that `CHOOSE` has picked one.
`LoopProp` then follows the loop: after n slices the segment followed by the buffer is what it was,
followed by the bytes of these slices, and the buffer is within its capacity.

### EntryFile

`EntryFileAssumption`: the sizes of twigs, lists and of the channel are arbitrary, with three
inequalities the code's numbers satisfy (compaction starts only when the oldest twig is
full, the length of a list fits its field, serial numbers fit theirs); bodies are any
entries shorter than `MaxEntryBytes`.

Everything about bytes is said cell by cell: `Holds(b, p, s)` means that s stands in b behind its
first p cells. Lemmas say where `EntryToBytes` puts what (`EntryLayout`), that nothing but these parts
determines the bytes (`LayoutUnique`), and what a reader gets out of any bytes with these parts
(`RecoverProp`, `DecodeProp`): arithmetic with remainders for the numbers
(`Uint32RoundTrip`, `Int64RoundTrip`), and the places of an entry, which are apart from
each other and hold MagicBytes, for the escaping. `getAllPos` is a recursive function; that it
finds such places, and leaves out only what overlaps one of them or ends the strings
(`Found`), follows with `SetInduction`, as for `HPFile`. As an entry that is moved
keeps its parts but for the serial number and the list (`MoveProp`), its bytes are those of
the entry that was meant.

`Inv` is

* `Types`;
* `DataOK`: every entry of the log is in the file as it was meant and the next one
  follows it (`EntryOK`), and `firstEntryPos` has exactly the twigs that have begun (`FirstOK`). It is a
  property of the record that appending and deactivating map to another one, so that a
  step that deactivates, writes out a full list with a dummy and appends is three uses of
  two lemmas;
* `LiveFor`: for each body, as many active entries carry it as clients wrote and did not remove;
* `ReaderOK`: where the goroutine stands in the oldest twig, that the twig is full, and that there is
  room for what compaction may still write;
* `ChanOK`: the channel holds exactly the active entries the goroutine has passed, each
  once. This is why the goroutine may read the active bits while the loop clears them: the loop
  clears the bits of entries the goroutine has passed, and sets those of later twigs. At the end the channel
  is empty, so that no active entry is left in the twig that is evicted.

`MagicOnlyAtEntries` goes through the parts of an entry: no window of four cells that begins in one of
them is MagicBytes (`RegionClean`), and every cell of the file belongs to an entry (`EntryCovers`).
The code replaces MagicBytes in the strings only, so the rest has to be free of them for another
reason: a length or a position is smaller than `MaxEntryBytes`, and a number of less than 48 bits
has a zero on top. `SmallNumbers` says the latter, and is necessary: a height of eight
MagicBytes would be one. Nothing else needs it.

### About the prover

The SMT encoding of tlapm 1.4.5 asserts of *every* value s, and not only of sequences, that
`Len(s)` is a natural number and that `DOMAIN s = 1..n <=> Len(s) = n`. A leaf can be proved with this
for values that are no functions. All proof modules were therefore also checked with these axioms
restricted to sequences; every obligation is proved without them. And tlapm takes the `@` of a
second `![..]` of one EXCEPT to be the value in the original function, which is not its meaning
when both change the same place: `Change` in `EntryFile`, where an entry may be replaced by an equal
one, writes two EXCEPTs.

## 6. Only model-checked

* `EndWriteTerminates`: liveness under fairness, out of the prover's reach;
* `IterationIsTheView`: the merged iteration is a recursive function of the items that
  remain, over the sorted sequences that `SetToSortSeq` makes of the caches; the provers know
  nothing of sorting or of `SelectSeq`, and a proof would begin with a theory of both;
* the properties of `MerkleTree`: folds over the levels of a tree whose height is a logarithm
  and whose node numbers are multiples of `2^n`; the provers know no law of `2^n` for a variable
  `n` (not even `2^(n+1) = 2 * 2^n`);
* the properties of `BTree`: `RECURSIVE` operators over pages, out of the prover's reach.

TLC checks all of these on small instances.

`OneOpPerKey = FALSE` is used by no run: the refinement and the theorems of `OnvaKV` and
`Recovery` need it to be TRUE (section 4 says what happens otherwise).

## 7. Not modelled

* a crash while a new directory is set up, or while a dump is written;
* the layout of the dump files, the twig Merkle file and the values in metadb;
* `indextree/b/btree_nocgo.go`: the algorithm of `store/b` with other types (`BTree` is
  the model of both); the C++ B-tree behind cgo, and RocksDB: ordered maps with
  atomic batches;
* the append buffer under compaction: entries of earlier blocks are flushed before
  a block appends, so that the reads of `GetActiveEntriesInTwig`
  (`datatree/entryfile.go:413`), which see files only, could miss an entry only in a
  block that deletes dozens of keys for each key that remains;
* a crash between the creation of a segment and its first flush
  (`datatree/hpfile.go:259`), and the unlocked deletion from `fileMap` beside a running
  flush (`datatree/hpfile.go:284`), which is a race of Go's map and not of the contents;
* a read or iteration that overlaps the write-back of a trunk: the client joins its
  transactions first, and the counter `isWriting` only checks that it does;
* the encoding of accounts and coins in the benchmarks, mocks and fuzzers;
* timing counters and log output.

## 8. Plan

1. `HPFile`: a crash action, with what of the unflushed segments survives it.
