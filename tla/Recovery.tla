------------------------------ MODULE Recovery ------------------------------
(***************************************************************************)
(* What OnvaKV leaves on disk and what it gets back when it is opened      *)
(* again.  The steps of module OnvaKV run against three stores that become *)
(* durable at different times: the entry file and the twig Merkle file,    *)
(* written when a buffer is full and flushed by goroutines that EndBlock   *)
(* starts, and the RocksDB database, whose batch is committed when         *)
(* EndWrite returns.  The process may crash at any step, or be closed      *)
(* between two blocks.  NewOnvaKV then loads the dumped tree or recovers   *)
(* it from the files, and rebuilds the index (canQueryHistory = false).    *)
(*                                                                         *)
(* The entries on disk are the first entriesOnDisk ones of datTree, the    *)
(* twigs on disk the first twigsOnDisk full ones.  A behaviour ends when   *)
(* the database is open again.                                             *)
(***************************************************************************)
EXTENDS OnvaKV

CONSTANTS
    MinPruneCount,
    PruneHeights    \* the heights PruneBeforeHeight is called with

\* The oldest twig left by a compaction is full: 2*(10000+1) + 1 >= 2*2048 in the code.
ASSUME TwigAssumption ==
    /\ KeptEntriesToActiveEntriesRatio * (StartReapThres + 1) + 1 >= 2 * LeafCountInTwig
    /\ MinPruneCount \in Nat \ {0}
    /\ PruneHeights \subseteq Nat

VARIABLES
    proc,           \* running, closing, down, opened, or dead after a panic
    blockEnded,     \* EndBlock has run, the batch is not committed yet
    entriesOnDisk, entriesFlushing, \* the entry file, and its lock held by FlushAsync
    tornEntry,      \* the entry file ends in the middle of an entry
    twigsOnDisk, twigsFlushing,     \* the same for the twig Merkle file
    lostTwigs,      \* twigs below this one have left the disk with their segment
    lastPrunedTwig, \* meta.lastPrunedTwig, in memory
    db,             \* what RocksDB holds
    dump,           \* <<>>, or <<the active bits>> Tree.Flush wrote when the process was closed
    committed,      \* history: the state at the last commit
    quiet,          \* history: the process ended between two blocks, with all flushes done
    prunedBefore,   \* history: the greatest height asked of PruneBeforeHeight
    opened          \* what NewOnvaKV has rebuilt

diskVars == <<entriesOnDisk, entriesFlushing, tornEntry, twigsOnDisk, twigsFlushing>>
pruneVars == <<lostTwigs, lastPrunedTwig, prunedBefore>>
recVars == <<proc, blockEnded, diskVars, pruneVars, db, dump, committed, quiet, opened>>
allVars == <<vars, recVars>>

-----------------------------------------------------------------------------
(* State *)

FullTwigs(sn) == sn \div LeafCountInTwig

Snapshot == [activeBits |-> datTree.activeBits, idxTree |-> idxTree,
             pending |-> SNSet(datTree.deactivedSNList), maxSerialNum |-> datTree.maxSerialNum]

\* A database that does not exist yet, and what opening one that cannot be read gives.
NotOpened == [panic |-> FALSE, activeBits |-> {}, idxTree |-> <<>>]
Panicked == [panic |-> TRUE, activeBits |-> {}, idxTree |-> <<>>]

\* NewOnvaKV has returned: the guards are committed, the first flush is on its way.  The
\* height recorded for the twig after the dummies is the 0 of meta.Init.
RInit ==
    /\ Init
    /\ proc = "running"
    /\ blockEnded = FALSE
    /\ entriesOnDisk = 0 /\ entriesFlushing = TRUE /\ tornEntry = FALSE
    /\ twigsOnDisk = 0 /\ twigsFlushing = TRUE
    /\ lostTwigs = 0 /\ lastPrunedTwig = -1 /\ prunedBefore = 0
    /\ db = [currHeight |-> -1, maxSerialNum |-> LeafCountInTwig + 2, oldestActiveTwigID |-> 0,
             lastPrunedTwig |-> -1, edgeNodes |-> {}, isRunning |-> TRUE,
             twigHeight |-> [t \in {1} |-> 0]]
    /\ dump = <<>>
    /\ committed = Snapshot
    /\ quiet = FALSE
    /\ opened = NotOpened

-----------------------------------------------------------------------------
(* Blocks *)

Reads == \E w \in Workers : task[w] = Idle /\ task'[w] # Idle
Appends == datTree'.maxSerialNum # datTree.maxSerialNum
AppendsTwig == FullTwigs(datTree'.maxSerialNum) # FullTwigs(datTree.maxSerialNum)

\* A step of a block before EndBlock; reading and appending wait for the file's lock.
Sweep ==
    \/ Gather \/ LinkEntry \/ EndLinking \/ SweepEntry \/ EndSweeping
    \/ StartReaping \/ ReapEntry \/ EvictTwig

Work(step) ==
    /\ proc = "running" /\ ~blockEnded
    /\ step
    /\ Reads \/ Appends => ~entriesFlushing
    /\ AppendsTwig => ~twigsFlushing
    /\ UNCHANGED recVars

\* Mutant: the twig Merkle file is not flushed.
TreeEndBlockNoTwigFlush ==
    /\ proc = "running" /\ ~blockEnded
    /\ phase = "compacting" /\ ~NeedCompaction
    /\ ~entriesFlushing
    /\ blockEnded' = TRUE
    /\ entriesFlushing' = TRUE
    /\ UNCHANGED <<vars, proc, entriesOnDisk, tornEntry, twigsOnDisk, twigsFlushing, pruneVars,
                   db, dump, committed, quiet, opened>>

\* Tree.EndBlock: FlushAsync takes the locks and leaves the writing to goroutines.
TreeEndBlock ==
    /\ proc = "running" /\ ~blockEnded
    /\ phase = "compacting" /\ ~NeedCompaction
    /\ ~entriesFlushing /\ ~twigsFlushing
    /\ blockEnded' = TRUE
    /\ entriesFlushing' = TRUE
    /\ twigsFlushing' = TRUE
    /\ UNCHANGED <<vars, proc, entriesOnDisk, tornEntry, twigsOnDisk, pruneVars, db, dump,
                   committed, quiet, opened>>

\* Twigs whose height IncrMaxSerialNum has put into the batch of this block.
StartedTwigs ==
    {t \in 0..datTree.maxSerialNum :
        committed.maxSerialNum < t * LeafCountInTwig /\ t * LeafCountInTwig <= datTree.maxSerialNum}

\* Mutant: the number of entries is not part of the batch.
CommitBatchNoSerialNum ==
    /\ proc = "running" /\ blockEnded
    /\ EndBlock
    /\ blockEnded' = FALSE
    /\ db' = [db EXCEPT !.currHeight = currHeight,
                        !.oldestActiveTwigID = oldestActiveTwigID,
                        !.lastPrunedTwig = lastPrunedTwig]
    /\ committed' = Snapshot
    /\ UNCHANGED <<proc, diskVars, pruneVars, dump, quiet, opened>>

\* The rest of EndWrite: the batch is written at once.
CommitBatch ==
    /\ proc = "running" /\ blockEnded
    /\ EndBlock
    /\ blockEnded' = FALSE
    /\ db' = [db EXCEPT !.currHeight = currHeight,
                        !.maxSerialNum = datTree.maxSerialNum,
                        !.oldestActiveTwigID = oldestActiveTwigID,
                        !.lastPrunedTwig = lastPrunedTwig,
                        !.twigHeight = [t \in DOMAIN @ \cup StartedTwigs |->
                                          IF t \in StartedTwigs THEN currHeight ELSE @[t]]]
    /\ committed' = Snapshot
    /\ UNCHANGED <<proc, diskVars, pruneVars, dump, quiet, opened>>

\* Mutant: the lock is not released.
FlushEntriesKeepsLock ==
    /\ proc = "running" /\ entriesFlushing
    /\ entriesOnDisk' = datTree.maxSerialNum
    /\ UNCHANGED <<vars, proc, blockEnded, entriesFlushing, tornEntry, twigsOnDisk, twigsFlushing,
                   pruneVars, db, dump, committed, quiet, opened>>

\* The goroutines of FlushAsync: write the buffer, sync, release the lock.
FlushEntries ==
    /\ proc = "running" /\ entriesFlushing
    /\ entriesOnDisk' = datTree.maxSerialNum
    /\ entriesFlushing' = FALSE
    /\ UNCHANGED <<vars, proc, blockEnded, tornEntry, twigsOnDisk, twigsFlushing, pruneVars,
                   db, dump, committed, quiet, opened>>

FlushTwigs ==
    /\ proc = "running" /\ twigsFlushing
    /\ twigsOnDisk' = FullTwigs(datTree.maxSerialNum)
    /\ twigsFlushing' = FALSE
    /\ UNCHANGED <<vars, proc, blockEnded, entriesOnDisk, entriesFlushing, tornEntry, pruneVars,
                   db, dump, committed, quiet, opened>>

-----------------------------------------------------------------------------
(* Pruning, between two blocks *)

HasHeight(t) == t \in DOMAIN db.twigHeight /\ db.twigHeight[t] >= 0
\* Mutant: the height itself is pruned too.
PrunableAtHeight(t, h) == HasHeight(t) /\ db.twigHeight[t] <= h /\ t < oldestActiveTwigID

Prunable(t, h) == HasHeight(t) /\ db.twigHeight[t] < h /\ t < oldestActiveTwigID

\* The first twig after start at which the loop of PruneBeforeHeight stops.
FirstUnprunable(start, h) ==
    Least({t \in (start + 1)..(datTree.maxSerialNum + 1) : ~Prunable(t, h)})

\* The upper nodes, by their level above the twig roots: each stands over Width[level] twigs.
Width[level \in Nat] == IF level = 0 THEN 1 ELSE 2 * Width[level - 1]
calcMaxLevel(youngest) == Least({level \in 0..youngest : youngest < Width[level]})

\* Mutant: the edge nodes above the twigs are not rounded to left children.
NotRounded(end, level) == end \div Width[level]

\* The first node kept at a level: a left child above the twigs.
EndRound(end, level) ==
    LET e == end \div Width[level] IN IF e % 2 # 0 /\ level # 0 THEN e - 1 ELSE e

\* Positions of the nodes getEdgeNodes returns.
EdgePositions(end) ==
    {<<level, EndRound(end, level)>> : level \in 0..calcMaxLevel(FullTwigs(datTree.maxSerialNum))}

\* The edge nodes are written at once, the number of the last pruned twig with the next batch.
PruneTwigs(start, end) ==
    /\ ~twigsFlushing
    /\ lostTwigs' \in lostTwigs..end
    /\ lastPrunedTwig' = end - 1
    /\ db' = [db EXCEPT !.edgeNodes = EdgePositions(end),
                        !.twigHeight = [t \in DOMAIN @ \ (start..(end - 1)) |-> @[t]]]
    /\ UNCHANGED proc

\* PruneTwigs panics when there are too few twigs to prune.
PruneBeforeHeight(h) ==
    LET start == lastPrunedTwig + 1
        stop == FirstUnprunable(start, h)
        end == stop - 1
    IN  /\ proc = "running" /\ phase = "filling"
        /\ prunedBefore < h
        /\ prunedBefore' = h
        /\ \/ ~HasHeight(stop) /\ UNCHANGED <<proc, lostTwigs, lastPrunedTwig, db>>
           \/ HasHeight(stop) /\ end <= start /\ UNCHANGED <<proc, lostTwigs, lastPrunedTwig, db>>
           \/ /\ HasHeight(stop) /\ end > start /\ end - start < MinPruneCount
              /\ proc' = "dead"
              /\ UNCHANGED <<lostTwigs, lastPrunedTwig, db>>
           \/ HasHeight(stop) /\ end - start >= MinPruneCount /\ PruneTwigs(start, end)
        /\ UNCHANGED <<vars, blockEnded, diskVars, dump, committed, quiet, opened>>

-----------------------------------------------------------------------------
(* Closing and crashing *)

\* Close, up to the closing of the database: the shutdown is recorded first.
BeginClose ==
    /\ proc = "running" /\ phase = "filling"
    /\ \A w \in Workers : task[w] = Idle
    /\ proc' = "closing"
    /\ db' = [db EXCEPT !.isRunning = FALSE]
    /\ UNCHANGED <<vars, blockEnded, diskVars, pruneVars, dump, committed, quiet, opened>>

\* Close, datTree.Flush: it waits for the locks, flushes the files and dumps the tree.
FinishClose ==
    /\ proc = "closing"
    /\ proc' = "down"
    /\ entriesOnDisk' = datTree.maxSerialNum
    /\ twigsOnDisk' = FullTwigs(datTree.maxSerialNum)
    /\ entriesFlushing' = FALSE
    /\ twigsFlushing' = FALSE
    /\ dump' = <<datTree.activeBits>>
    /\ quiet' = TRUE
    /\ UNCHANGED <<vars, blockEnded, tornEntry, pruneVars, db, committed, opened>>

\* The buffers may have been written up to any point, also in the middle of an entry.  Of a
\* twig recovery reads only the first entry's position and the root, which come first: one
\* whose head has been written counts as on disk.
Crash ==
    /\ proc \in {"running", "closing"}
    /\ proc' = "down"
    /\ entriesOnDisk' \in entriesOnDisk..datTree.maxSerialNum
    /\ twigsOnDisk' \in twigsOnDisk..FullTwigs(datTree.maxSerialNum)
    /\ tornEntry' \in IF entriesOnDisk' < datTree.maxSerialNum THEN BOOLEAN ELSE {FALSE}
    /\ entriesFlushing' = FALSE
    /\ twigsFlushing' = FALSE
    /\ quiet' = /\ ~entriesFlushing /\ ~twigsFlushing
                /\ proc = "running" /\ ~blockEnded
                /\ datTree.maxSerialNum = committed.maxSerialNum
    /\ UNCHANGED <<vars, blockEnded, pruneVars, db, dump, committed, opened>>

-----------------------------------------------------------------------------
(* Opening: NewOnvaKV for a directory that exists *)

CanReadTwig(t) == lostTwigs <= t /\ t < twigsOnDisk

\* The entries ScanEntries and ScanEntriesLite visit.
Scanned == {sn \in 0..(entriesOnDisk - 1) : sn >= db.oldestActiveTwigID * LeafCountInTwig}
CanScan ==
    /\ CanReadTwig(db.oldestActiveTwigID)
    /\ tornEntry => entriesOnDisk < db.oldestActiveTwigID * LeafCountInTwig

ScannedKeys == {datTree.entryFile[sn].entry.key : sn \in Scanned}
\* Mutant: the position found first stays.
ScannedIndexFirst ==
    [k \in ScannedKeys |-> Least({sn \in Scanned : datTree.entryFile[sn].entry.key = k})]

\* ScanEntriesLite: the position found last is the one that stays in the index.
ScannedIndex ==
    [k \in ScannedKeys |-> Greatest({sn \in Scanned : datTree.entryFile[sn].entry.key = k})]

\* Mutant: the lists of deactivated serial numbers are skipped.
RecoveredBitsNoList == Scanned

\* RecoverActiveTwigs: every entry is activated, those listed by an entry are deactivated
\* before it.
RecoveredBits ==
    {sn \in Scanned : \A later \in Scanned :
        sn < later => sn \notin SNSet(datTree.entryFile[later].snList)}

\* The inactive twigs RecoverTree reads the roots of; Go's -1 % 2 is not 1.
StartingInactiveTwigID ==
    IF db.lastPrunedTwig > 0 /\ db.lastPrunedTwig % 2 = 1
    THEN db.lastPrunedTwig - 1
    ELSE db.lastPrunedTwig
InactiveTwigs == StartingInactiveTwigID..(db.oldestActiveTwigID - 1)

\* The twigs whose roots RecoverTree computes, and the nodes above them.
TouchedTwigs == InactiveTwigs \cup {FullTwigs(sn) : sn \in Scanned}
TouchedAt(level) == {t \div Width[level] : t \in TouchedTwigs}
RecoveredYoungest == FullTwigs(IF Scanned = {} THEN db.maxSerialNum ELSE entriesOnDisk)

HasNode(level, n) ==
    \/ n \in TouchedAt(level)
    \/ <<level, n>> \in db.edgeNodes
    \/ level = 0 /\ n = db.oldestActiveTwigID

\* What syncNodesByLevel panics without: a left child, or, except at the right edge of the
\* tree, a right child.  Above the twigs a missing one stands for a null twig.
HasChildren(level, i) ==
    /\ HasNode(level - 1, 2 * i)
    /\ level > 1 =>
        \/ HasNode(level - 1, 2 * i + 1)
        \/ RecoveredYoungest \div Width[level - 1] \in {2 * i, 2 * i + 1}

\* RecoverUpperNodes: only the nodes above touched twigs and the edge nodes are there.
CanSyncUpperNodes ==
    \A level \in 1..calcMaxLevel(RecoveredYoungest) : \A i \in TouchedAt(level) : HasChildren(level, i)

RecoverTree ==
    IF CanScan /\ (\A t \in InactiveTwigs : CanReadTwig(t)) /\ CanSyncUpperNodes
    THEN [panic |-> FALSE, activeBits |-> RecoveredBits, idxTree |-> ScannedIndex]
    ELSE Panicked

LoadTree ==
    IF CanScan /\ dump # <<>>
    THEN [panic |-> FALSE, activeBits |-> dump[1], idxTree |-> ScannedIndex]
    ELSE Panicked

Open ==
    /\ proc = "down"
    /\ proc' = "opened"
    /\ opened' = IF db.isRunning THEN RecoverTree ELSE LoadTree
    /\ db' = [db EXCEPT !.isRunning = TRUE]
    /\ UNCHANGED <<vars, blockEnded, diskVars, pruneVars, dump, committed, quiet>>

-----------------------------------------------------------------------------
RNext ==
    \/ Work(Prepare) \/ Work(Mark) \/ Work(Sweep)
    \/ TreeEndBlock \/ CommitBatch \/ FlushEntries \/ FlushTwigs
    \/ \E h \in PruneHeights : PruneBeforeHeight(h)
    \/ BeginClose \/ FinishClose \/ Crash \/ Open

RSpec == RInit /\ [][RNext]_allVars

\* The goroutine that has called EndWrite and those started by FlushAsync keep running.
RFairSpec ==
    /\ RSpec
    /\ WF_allVars(FlushEntries) /\ WF_allVars(FlushTwigs)
    /\ WF_allVars(Work(Sweep)) /\ WF_allVars(TreeEndBlock) /\ WF_allVars(CommitBatch)

-----------------------------------------------------------------------------
(* Properties *)

\* Type correctness of the durable state.
RTypeOK ==
    /\ proc \in {"running", "closing", "down", "opened", "dead"}
    /\ entriesOnDisk \in 0..datTree.maxSerialNum
    /\ twigsOnDisk \in 0..FullTwigs(datTree.maxSerialNum)
    /\ {blockEnded, entriesFlushing, tornEntry, twigsFlushing, quiet} \subseteq BOOLEAN
    /\ lostTwigs \in 0..(lastPrunedTwig + 1)
    /\ db.lastPrunedTwig <= lastPrunedTwig /\ lastPrunedTwig < oldestActiveTwigID
    /\ db.edgeNodes \subseteq Nat \X Nat
    /\ db.maxSerialNum = committed.maxSerialNum
    /\ db.twigHeight \in [DOMAIN db.twigHeight -> Int]
    /\ dump = <<>> \/ dump[1] \subseteq Nat

QuietRestart == proc = "opened" /\ quiet /\ ~opened.panic

\* A restart between two blocks finds every stored key at the position it had, although the
\* index is rebuilt from a scan that meets old versions, moved entries and dummies.
KeepsStoredKeys ==
    QuietRestart =>
        \A k \in DOMAIN committed.idxTree :
            k \in DOMAIN opened.idxTree /\ opened.idxTree[k] = committed.idxTree[k]

\* A restart between two blocks restores the active bits: exactly those of the dump after
\* Close; after a crash those the log explains, which leaves out what the last block
\* deactivated after its last append (in the twigs that are still active: the others are
\* not scanned).
RestoresActiveBits ==
    QuietRestart =>
        opened.activeBits = committed.activeBits \cup
            {sn \in committed.pending :
                dump = <<>> /\ sn >= db.oldestActiveTwigID * LeafCountInTwig}

\* What a recovery needs besides flushed files: a committed pruning whose edge nodes fit, and
\* the twigs RecoverTree starts from.  Edge nodes do not fit when a later pruning has replaced
\* them, or when the number of pruned twigs is a multiple of four: RecoverTree then starts
\* below a right child, and they begin behind it.
Recoverable ==
    /\ 0 <= db.lastPrunedTwig /\ db.lastPrunedTwig = lastPrunedTwig
    /\ (db.lastPrunedTwig + 1) % 4 # 0
    /\ lostTwigs <= StartingInactiveTwigID

\* A restart between two blocks succeeds after Close, and after a crash if what is left can
\* be recovered: the nodes above the twigs scanned again and the edge nodes the last pruning
\* saved, at the levels the tree had then, close the tree that has grown since.
QuietRestartSucceeds ==
    proc = "opened" /\ quiet /\ (dump # <<>> \/ Recoverable) => ~opened.panic

\* Only dead entries written before the requested height are pruned.
PrunedIsDeadAndOld ==
    \A sn \in DOMAIN datTree.entryFile :
        sn < (lastPrunedTwig + 1) * LeafCountInTwig =>
            sn \notin datTree.activeBits /\ datTree.entryFile[sn].entry.height < prunedBefore

\* Every EndWrite returns: compaction catches up with the dead entries, although every twig
\* it empties appends to the file it measures, and the locks its appends and flushes wait
\* for, held by the goroutines of the previous block's FlushAsync, are released.
EndWriteTerminates ==
    phase = "linking" ~> phase = "filling" \/ proc # "running"
=============================================================================
