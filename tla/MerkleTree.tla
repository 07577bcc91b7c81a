----------------------------- MODULE MerkleTree -----------------------------
(***************************************************************************)
(* The Merkle tree of datatree.Tree.  Entries are the leaves of twigs; the *)
(* left half of a twig is the tree of its entries, the right half the tree *)
(* of its active bits; above the twigs lie the upper nodes.  A block       *)
(* changes leaves and bits, and EndBlock recomputes the hashes that depend *)
(* on them.  Evicted twigs leave their root behind, pruned twigs only the  *)
(* nodes along the edge.  After a crash the tree is recovered from the     *)
(* entry file, the twig Merkle file and the edge nodes.                    *)
(*                                                                         *)
(* A hash is the term of what it was computed from.  The content of an     *)
(* entry stands for its serial number.  The tree of the code has twigs of  *)
(* 2^11 entries and 2^3 chunks of active bits.                             *)
(***************************************************************************)
EXTENDS Integers, Sequences, FiniteSets, SequencesExt

CONSTANTS
    TwigShift,      \* 2^TwigShift entries in a twig
    ChunkShift,     \* 2^ChunkShift chunks of active bits
    MinPruneCount,
    TwigsPerSegment,    \* of the twig Merkle file
    MaxSN,          \* bound of the model: entries
    MaxActive,      \* bound of the model: active entries
    MaxOps,         \* bound of the model: operations of a block
    MaxRestarts     \* bound of the model: reloads and recoveries

ASSUME ShiftAssumption ==
    /\ ChunkShift \in Nat \ {0} /\ TwigShift \in Nat /\ ChunkShift <= TwigShift
    /\ MinPruneCount \in Nat /\ TwigsPerSegment \in Nat \ {0}

VARIABLES
    tree,           \* Tree: a record, see NewEmptyTree
    maxSerialNum,   \* the serial number of the next entry
    oldest,         \* the oldest active twig (meta.OldestActiveTwigID)
    lostTwigs,      \* twigs below this one have left the file with their segment
    pending,        \* deactivedSNList, as far as recovery would look at it
    unlogged,       \* entries of active twigs, deactivated, that no entry of the file lists
    lastPruned,     \* meta.LastPrunedTwig in memory ...
    dbLastPruned,   \* ... and in the database
    edgeNodes,      \* meta.EdgeNodes
    stage,          \* in a block, after its end, or after a recovery
    ops,            \* operations of the current block
    restarts,       \* reloads and recoveries so far
    staleTop        \* history: recovered with an empty youngest twig, and of an even number,
                    \* and nothing appended since

vars == <<tree, maxSerialNum, oldest, lostTwigs, pending, unlogged, lastPruned,
          dbLastPruned, edgeNodes, stage, ops, restarts, staleTop>>

LeafCountInTwig == 2^TwigShift
TwigTop == TwigShift + 1                    \* the level of twig roots
FirstLevelAboveTwig == TwigShift + 2
TwigOf(sn) == sn \div LeafCountInTwig
PosOf(sn) == sn % LeafCountInTwig
Pos(level, n) == <<level, n>>

-----------------------------------------------------------------------------
(* Hashes *)

hash2(level, a, b) == <<level, a, b>>
EntryHash(sn) == <<sn>>
ZeroHash == <<-1>>
NullEntryHash == <<>>

\* The nodes above null entries, the nodes above empty chunks.
NullLeft[level \in 0..TwigShift] ==
    IF level = 0 THEN NullEntryHash ELSE hash2(level - 1, NullLeft[level - 1], NullLeft[level - 1])

ChunkSize == LeafCountInTwig \div 2^ChunkShift
Chunk(bits, c) == <<-2>> \o [i \in 1..ChunkSize |-> IF c * ChunkSize + i - 1 \in bits THEN 1 ELSE 0]

\* activeBitsMTL1 to activeBitsMTL3 are the levels 1 to ChunkShift over the chunks.
BitLevel(l) == TwigShift - ChunkShift + l - 1
NullBits[l \in 0..ChunkShift] ==
    IF l = 0 THEN Chunk({}, 0) ELSE hash2(BitLevel(l), NullBits[l - 1], NullBits[l - 1])

NullTwig == [activeBits |-> {},
             mtl |-> [l \in 1..ChunkShift |-> [i \in 0..(2^(ChunkShift - l) - 1) |-> NullBits[l]]],
             leftRoot |-> NullLeft[TwigShift],
             twigRoot |-> hash2(TwigShift, NullLeft[TwigShift], NullBits[ChunkShift])]

LevelOf(i) == CHOOSE l \in 0..TwigShift : 2^(TwigShift - l) <= i /\ i < 2^(TwigShift - l + 1)
NullMT4Twig == [i \in 1..(2 * LeafCountInTwig - 1) |-> NullLeft[LevelOf(i)]]

calcMaxLevel(youngest) ==
    IF youngest = 0 THEN FirstLevelAboveTwig - 1
    ELSE FirstLevelAboveTwig + (CHOOSE b \in 0..youngest : 2^b <= youngest /\ youngest < 2^(b + 1))

NullNodeInHigherTree[level \in TwigTop..(TwigTop + MaxSN + 2)] ==
    IF level = TwigTop THEN NullTwig.twigRoot
    ELSE hash2(level - 1, NullNodeInHigherTree[level - 1], NullNodeInHigherTree[level - 1])

-----------------------------------------------------------------------------
(* The tree *)

\* NewEmptyTree; panic is set where the code panics.
NewEmptyTree ==
    [nodes |-> [p \in {Pos(FirstLevelAboveTwig, 0)} |-> ZeroHash],
     youngest |-> 0,
     twigs |-> [t \in {0} |-> NullTwig],
     mtree |-> NullMT4Twig,
     mtFile |-> <<>>,               \* the twig Merkle file: the left trees of full twigs
     leaves |-> {},                 \* serial numbers of leave4YoungestTwig
     changeStart |-> -1, changeEnd |-> -1,
     toBeDeleted |-> {},
     touched |-> {},                \* touchedPosOf512b: pairs of chunks
     panic |-> FALSE]

TouchedBy(sn) == sn \div (2 * ChunkSize)
TwigOfTouched(i) == i \div 2^(ChunkShift - 1)

SetEntryActiviation(t, sn, active) ==
    [t EXCEPT !.twigs[TwigOf(sn)].activeBits = IF active THEN @ \cup {PosOf(sn)} ELSE @ \ {PosOf(sn)},
              !.touched = @ \cup {TouchedBy(sn)}]

\* One level of the left tree, from the nodes ChangeStart and ChangeEnd lie under.
SyncLeftLevel(t, m, level) ==
    LET base == 2^(TwigShift - level)
        start == t.changeStart \div 2^level
        end == t.changeEnd \div 2^level
        endRound == end + (end % 2)
    IN  [i \in DOMAIN m |->
            IF i \in (base \div 2)..(base - 1) /\ i - base \div 2 \in (start \div 2)..(endRound \div 2)
            THEN hash2(level, m[2 * i], m[2 * i + 1]) ELSE m[i]]

syncMT4YoungestTwig(t) ==
    LET hashed == [i \in DOMAIN t.mtree |->
                     IF \E sn \in t.leaves : i = LeafCountInTwig + PosOf(sn)
                     THEN EntryHash(CHOOSE sn \in t.leaves : i = LeafCountInTwig + PosOf(sn))
                     ELSE t.mtree[i]]
        Up(m, level) == SyncLeftLevel(t, m, level)
        mtree == FoldLeft(Up, hashed, [n \in 1..TwigShift |-> n - 1])
    IN  IF t.changeStart = -1 THEN t
        ELSE [t EXCEPT !.mtree = mtree, !.leaves = {}, !.changeStart = -1, !.changeEnd = 0,
                       !.twigs[t.youngest].leftRoot = mtree[1]]

\* Mark the change, and the twig when it is full: a new youngest twig.
Grown(t, sn) ==
    LET synced == syncMT4YoungestTwig(t) IN
    [synced EXCEPT !.youngest = @ + 1,
                   !.twigs = [id \in DOMAIN @ \cup {TwigOf(sn) + 1} |->
                                IF id = TwigOf(sn) + 1 THEN NullTwig ELSE @[id]],
                   !.mtree = NullMT4Twig]

Changed(t, sn) ==
    [SetEntryActiviation([t EXCEPT !.youngest = TwigOf(sn)], sn, TRUE) EXCEPT
        !.changeStart = IF @ = -1 THEN PosOf(sn) ELSE @,
        !.changeEnd = PosOf(sn)]

IsLast(sn) == PosOf(sn) = LeafCountInTwig - 1

AppendTwig(t) == [id \in DOMAIN t.mtFile \cup {t.youngest} |->
                    IF id = t.youngest THEN syncMT4YoungestTwig(t).mtree ELSE t.mtFile[id]]

\* Mutant: a new youngest twig is not marked as touched.
ForgetsNewTwig(t, sn) ==
    LET appended == [Changed(t, sn) EXCEPT !.leaves = @ \cup {sn}] IN
    IF IsLast(sn) THEN [Grown(appended, sn) EXCEPT !.mtFile = AppendTwig(appended)] ELSE appended

\* The new youngest twig counts as touched.
appendEntry(t, sn) ==
    LET appended == [Changed(t, sn) EXCEPT !.leaves = @ \cup {sn}] IN
    IF IsLast(sn) THEN [Grown(appended, sn) EXCEPT !.mtFile = AppendTwig(appended),
                                                   !.touched = @ \cup {TouchedBy(sn + 1)}]
    ELSE appended

-----------------------------------------------------------------------------
(* syncMT *)

SyncBitsLevel(id, twig, touched, l) ==
    LET below(i) == IF l = 1 THEN Chunk(twig.activeBits, i) ELSE twig.mtl[l - 1][i]
        dirty == {i \div 2^(l - 1) : i \in {i \in touched : TwigOfTouched(i) = id}}
        base == id * 2^(ChunkShift - l)
    IN  [twig EXCEPT !.mtl[l] = [i \in DOMAIN @ |->
            IF base + i \in dirty THEN hash2(BitLevel(l), below(2 * i), below(2 * i + 1)) ELSE @[i]]]

SyncedTwig(id, twig, touched) ==
    LET Up(w, l) == SyncBitsLevel(id, w, touched, l)
        synced == FoldLeft(Up, twig, [l \in 1..ChunkShift |-> l])
    IN  [synced EXCEPT !.twigRoot = hash2(TwigShift, synced.leftRoot, synced.mtl[ChunkShift][0])]

TouchedTwigs(t) == {TwigOfTouched(i) : i \in t.touched}

\* syncL1 to syncTop of the touched twigs; the nodes above them are the next to compute.
syncMT4ActiveBits(t) ==
    [t EXCEPT !.twigs = [id \in DOMAIN @ |->
        IF id \in TouchedTwigs(t) THEN SyncedTwig(id, @[id], t.touched) ELSE @[id]]]
ParentsOfTouched(t) == {id \div 2 : id \in TouchedTwigs(t)}

HasTwigRoot(t, n) == n \in DOMAIN t.twigs \/ Pos(TwigTop, n) \in DOMAIN t.nodes
getTwigRoot(t, n) ==
    IF n \in DOMAIN t.twigs THEN t.twigs[n].twigRoot
    ELSE IF Pos(TwigTop, n) \in DOMAIN t.nodes THEN t.nodes[Pos(TwigTop, n)]
    ELSE NullTwig.twigRoot

maxNAtLevel(youngest, level) == youngest \div 2^(level - FirstLevelAboveTwig)

\* A missing right child gets the null node of its parent's level.
NullChild(level) == NullNodeInHigherTree[level]

syncNodesByLevel(t, level, nList) ==
    LET maxN == maxNAtLevel(t.youngest, level)
        HasLeft(i) == IF level = FirstLevelAboveTwig THEN HasTwigRoot(t, 2 * i)
                      ELSE Pos(level - 1, 2 * i) \in DOMAIN t.nodes
        created == IF level = FirstLevelAboveTwig THEN {}
                   ELSE {Pos(level - 1, 2 * i + 1) : i \in nList} \ DOMAIN t.nodes
        Child(n) == IF level = FirstLevelAboveTwig THEN getTwigRoot(t, n)
                    ELSE IF Pos(level - 1, n) \in created THEN NullChild(level)
                    ELSE t.nodes[Pos(level - 1, n)]
        parents == {Pos(level, i) : i \in nList}
    IN  IF \/ \E i \in nList : ~HasLeft(i)
           \/ \E p \in created : p[2] - 1 # maxN /\ p[2] # maxN     \* "Not at the right edge"
        THEN [t EXCEPT !.panic = TRUE]
        ELSE [t EXCEPT !.nodes = [p \in DOMAIN @ \cup created \cup parents |->
                CASE p \in parents -> hash2(level - 1, Child(2 * p[2]), Child(2 * p[2] + 1))
                  [] p \in created -> NullChild(level)
                  [] OTHER -> @[p]]]

syncUpperNodes(t, nList) ==
    LET Up(u, level) ==
            IF u.panic THEN u
            ELSE syncNodesByLevel(u, level, {i \div 2^(level - FirstLevelAboveTwig) : i \in nList})
        levels == [n \in 1..(calcMaxLevel(t.youngest) - TwigTop) |-> TwigTop + n]
    IN  FoldLeft(Up, t, levels)

syncMT(t) ==
    LET twigs == syncMT4ActiveBits(syncMT4YoungestTwig(t))
    IN  [syncUpperNodes(twigs, ParentsOfTouched(t)) EXCEPT !.touched = {}]

\* Mutant: evicted twigs are deleted before the hashes are computed.
DeletedBeforeSync(t) ==
    LET gone == t.toBeDeleted IN
    syncMT([t EXCEPT !.nodes = [p \in DOMAIN @ \cup {Pos(TwigTop, id) : id \in gone} |->
                        IF p[1] = TwigTop /\ p[2] \in gone THEN t.twigs[p[2]].twigRoot ELSE @[p]],
                     !.twigs = [id \in DOMAIN @ \ gone |-> @[id]],
                     !.touched = {i \in @ : TwigOfTouched(i) \notin gone},
                     !.toBeDeleted = {}])

\* Tree.EndBlock: then the evicted twigs leave their root behind.
TreeEndBlock(t) ==
    LET s == syncMT(t)
        gone == s.toBeDeleted
    IN  [s EXCEPT !.nodes = [p \in DOMAIN @ \cup {Pos(TwigTop, id) : id \in gone} |->
                        IF p[1] = TwigTop /\ p[2] \in gone THEN s.twigs[p[2]].twigRoot ELSE @[p]],
                  !.twigs = [id \in DOMAIN @ \ gone |-> @[id]],
                  !.toBeDeleted = {}]

RootHash(t) == t.nodes[Pos(calcMaxLevel(t.youngest), 0)]

-----------------------------------------------------------------------------
(* Pruning *)

LevelsFrom(t) == TwigTop..calcMaxLevel(t.youngest)
\* Mutant: the end of the pruned nodes is not rounded to an even number.
RoundsToEnd(end, level) == end \div 2^(level - TwigTop)

\* The first node kept at a level: a left child above the twigs.
EndRound(end, level) ==
    LET e == end \div 2^(level - TwigTop) IN IF e % 2 # 0 /\ level # TwigTop THEN e - 1 ELSE e

\* Mutant: the nodes above the first kept twig are removed too.
UselessToEnd(t, start, end) ==
    {p \in DOMAIN t.nodes :
        p[1] \in LevelsFrom(t)
        /\ p[2] \in (start \div 2^(p[1] - TwigTop) - 1)..EndRound(end, p[1])}

Useless(t, start, end) ==
    {p \in DOMAIN t.nodes :
        p[1] \in LevelsFrom(t)
        /\ p[2] \in (start \div 2^(p[1] - TwigTop) - 1)..(EndRound(end, p[1]) - 1)}

removeUselessNodes(t, start, end) ==
    [t EXCEPT !.nodes = [p \in DOMAIN @ \ Useless(t, start, end) |-> @[p]]]

EdgePositions(t, end) == {Pos(level, EndRound(end, level)) : level \in LevelsFrom(t)}
getEdgeNodes(t, end) == [p \in EdgePositions(t, end) |-> t.nodes[p]]

-----------------------------------------------------------------------------
(* RecoverTree *)

CanReadTwig(id) == lostTwigs <= id /\ id < TwigOf(maxSerialNum)

\* Mutant: the scan starts at the last pruned twig itself.
NotRounded(last) == last

\* Go's -1 % 2 is not 1.
StartingInactiveTwigID(last) == IF last > 0 /\ last % 2 = 1 THEN last - 1 ELSE last

\* RecoverInactiveTwigRoots: evicted twigs have no active bits.
InactiveRoots(ids) == [p \in {Pos(TwigTop, id) : id \in ids} |->
                          hash2(TwigShift, tree.mtFile[p[2]][1], NullBits[ChunkShift])]

\* The leaf is computed at once; a new twig does not count as touched.
RecoverEntry(t, sn) ==
    LET leaf == [Changed(t, sn) EXCEPT !.mtree[LeafCountInTwig + PosOf(sn)] = EntryHash(sn)] IN
    IF IsLast(sn) THEN Grown(leaf, sn) ELSE leaf

\* Mutant: the lists of deactivated serial numbers are not applied.
IgnoresLists(t, active) ==
    LET first == oldest * LeafCountInTwig
        scanned == FoldLeft(RecoverEntry, t, [n \in 1..(maxSerialNum - first) |-> first + n - 1])
    IN  syncMT4ActiveBits(syncMT4YoungestTwig(scanned))

\* ScanEntries from the first entry of the oldest active twig; an entry stays active unless
\* an entry lists it.
RecoverActiveTwigs(t, active) ==
    LET first == oldest * LeafCountInTwig
        scanned == FoldLeft(RecoverEntry, t, [n \in 1..(maxSerialNum - first) |-> first + n - 1])
        cleared == [scanned EXCEPT !.twigs = [id \in DOMAIN @ |->
                       [@[id] EXCEPT !.activeBits =
                           {b \in @ : id * LeafCountInTwig + b \in active}]]]
    IN  syncMT4ActiveBits(syncMT4YoungestTwig(cleared))

RecoverTree(edges, last, active) ==
    LET inactive == StartingInactiveTwigID(last)..(oldest - 1)
        empty == [NewEmptyTree EXCEPT !.nodes = InactiveRoots(inactive), !.mtFile = tree.mtFile,
                                      !.youngest = TwigOf(maxSerialNum),
                                      !.twigs = [id \in {oldest} |-> NullTwig]]
        twigs == RecoverActiveTwigs(empty, active)
        nList == {id \div 2 : id \in inactive} \cup ParentsOfTouched(twigs)
        edged == [twigs EXCEPT !.nodes = [p \in DOMAIN @ \cup DOMAIN edges |->
                                            IF p \in DOMAIN edges THEN edges[p] ELSE @[p]],
                               !.touched = {}]
    IN  IF \A id \in inactive \cup {oldest} : CanReadTwig(id)
        THEN syncUpperNodes(edged, nList)
        ELSE [NewEmptyTree EXCEPT !.panic = TRUE]

Active(t) == UNION {{id * LeafCountInTwig + b : b \in t.twigs[id].activeBits} : id \in DOMAIN t.twigs}
Recovered == RecoverTree(edgeNodes, dbLastPruned, Active(tree) \cup unlogged)

-----------------------------------------------------------------------------
(* Proofs *)

Step(self, peer, n) == [self |-> self, peer |-> peer, peerAtLeft |-> n % 2 = 1]

getLeftPath(mtree, sn) ==
    [k \in 1..TwigShift |->
        LET base == 2^(TwigShift - k + 1)
            self == PosOf(sn) \div 2^(k - 1)
            peer == IF self % 2 = 1 THEN self - 1 ELSE self + 1
        IN  Step(mtree[base + self], mtree[base + peer], self)]

getRightPath(twig, sn) ==
    [k \in 1..ChunkShift |->
        LET self == PosOf(sn) \div (ChunkSize * 2^(k - 1))
            peer == IF self % 2 = 1 THEN self - 1 ELSE self + 1
            At(i) == IF k = 1 THEN Chunk(twig.activeBits, i) ELSE twig.mtl[k - 1][i]
        IN  Step(At(self), At(peer), self)]

PeerOf(n) == IF n % 2 = 1 THEN n - 1 ELSE n + 1

UpperIsThere(t, id) ==
    /\ HasTwigRoot(t, id)
    /\ \A level \in FirstLevelAboveTwig..(calcMaxLevel(t.youngest) - 1) :
        LET n == id \div 2^(level - TwigTop) IN {Pos(level, n), Pos(level, PeerOf(n))} \subseteq DOMAIN t.nodes

getUpperPath(t, id) ==
    [k \in 1..(calcMaxLevel(t.youngest) - TwigTop) |->
        LET n == id \div 2^(k - 1) IN
        IF k = 1 THEN Step(getTwigRoot(t, id), getTwigRoot(t, PeerOf(id)), id)
        ELSE Step(t.nodes[Pos(TwigTop + k - 1, n)], t.nodes[Pos(TwigTop + k - 1, PeerOf(n))], n)]

GetProof(t, sn) ==
    LET id == TwigOf(sn) IN
    [left |-> getLeftPath(IF id = t.youngest THEN t.mtree ELSE t.mtFile[id], sn),
     right |-> getRightPath(IF id \in DOMAIN t.twigs THEN t.twigs[id] ELSE NullTwig, sn),
     upper |-> getUpperPath(t, id), sn |-> sn, root |-> RootHash(t)]

\* ToBytes keeps the first hash of each half, the peers, the serial number and the root;
\* BytesToProofPath finds the sides in the serial number.
BytesToProofPath(path) ==
    LET Decoded(steps, shift) ==
            [k \in DOMAIN steps |-> Step(IF k = 1 THEN steps[k].self ELSE ZeroHash, steps[k].peer,
                                         path.sn \div 2^(shift + k - 1))]
    IN  [path EXCEPT !.left = Decoded(@, 0), !.right = Decoded(@, TwigShift - ChunkShift),
                     !.upper = [Decoded(@, TwigShift) EXCEPT ![1].self = ZeroHash]]

Parent(step, level) ==
    IF step.peerAtLeft THEN hash2(level, step.peer, step.self) ELSE hash2(level, step.self, step.peer)

\* Check: complete fills in the hashes on the way, otherwise they are compared.
Climb(steps, level, complete) ==
    LET up[k \in 1..Len(steps)] ==
            LET self == IF k = 1 \/ ~complete THEN steps[k].self ELSE up[k - 1]
            IN  Parent([steps[k] EXCEPT !.self = self], level + k - 1)
    IN  up
Matches(steps, level, complete) ==
    complete \/ \A k \in 1..(Len(steps) - 1) : Climb(steps, level, complete)[k] = steps[k + 1].self
Top(steps, level, complete) == Climb(steps, level, complete)[Len(steps)]

Check(path, complete) ==
    LET bitsLevel == BitLevel(1)
        twigRoot == hash2(TwigShift, Top(path.left, 0, complete), Top(path.right, bitsLevel, complete))
        upper == IF complete THEN [path.upper EXCEPT ![1].self = twigRoot] ELSE path.upper
    IN  /\ Matches(path.left, 0, complete) /\ Matches(path.right, bitsLevel, complete)
        /\ twigRoot = upper[1].self
        /\ Matches(upper, TwigTop, complete)
        /\ Top(upper, TwigTop, complete) = path.root

-----------------------------------------------------------------------------
(* Steps *)

\* NewOnvaKV: a twig of dummies, which are deactivated, and the two guards.
FirstTree ==
    LET Dummy(t, sn) == SetEntryActiviation(appendEntry(t, sn), sn, FALSE)
        dummies == FoldLeft(Dummy, NewEmptyTree, [n \in 1..LeafCountInTwig |-> n - 1])
    IN  TreeEndBlock(appendEntry(appendEntry(dummies, LeafCountInTwig), LeafCountInTwig + 1))

Init ==
    /\ tree = FirstTree
    /\ maxSerialNum = LeafCountInTwig + 2
    /\ oldest = 0
    /\ lostTwigs = 0 /\ pending = {} /\ unlogged = {}
    /\ lastPruned = -1 /\ dbLastPruned = -1 /\ edgeNodes = <<>>
    /\ stage = "ended" /\ ops = 0 /\ restarts = 0 /\ staleTop = FALSE

InBlock == ops < MaxOps /\ stage' = "block" /\ ops' = ops + 1

\* AppendEntry and AppendEntryRawBytes: the list of deactivated entries is written with it.
AppendEntry ==
    /\ InBlock /\ maxSerialNum < MaxSN /\ Cardinality(Active(tree)) < MaxActive
    /\ tree' = appendEntry(tree, maxSerialNum)
    /\ maxSerialNum' = maxSerialNum + 1
    /\ pending' = {} /\ unlogged' = unlogged \ pending
    /\ staleTop' = FALSE
    /\ UNCHANGED <<oldest, lostTwigs, lastPruned, dbLastPruned, edgeNodes, restarts>>

DeactiviateEntry(sn) ==
    /\ InBlock
    /\ tree' = SetEntryActiviation(tree, sn, FALSE)
    /\ pending' = pending \cup {sn} /\ unlogged' = unlogged \cup {sn}
    /\ UNCHANGED <<maxSerialNum, oldest, lostTwigs, lastPruned, dbLastPruned, edgeNodes, restarts, staleTop>>

\* Mutant: the oldest twig is evicted and stays the oldest.
EvictsWithoutAdvancing ==
    /\ InBlock /\ oldest + 1 < tree.youngest
    /\ tree.twigs[oldest].activeBits = {}
    /\ tree' = [tree EXCEPT !.toBeDeleted = @ \cup {oldest}]
    /\ UNCHANGED <<maxSerialNum, oldest, lostTwigs, pending, unlogged, lastPruned, dbLastPruned,
                   edgeNodes, restarts, staleTop>>

\* EvictTwig, when compaction has moved what was active; the next oldest twig is full.
EvictTwig ==
    /\ InBlock /\ oldest + 1 < tree.youngest
    /\ tree.twigs[oldest].activeBits = {}
    /\ tree' = [tree EXCEPT !.toBeDeleted = @ \cup {oldest}]
    /\ oldest' = oldest + 1
    /\ pending' = {sn \in pending : TwigOf(sn) > oldest}
    /\ unlogged' = {sn \in unlogged : TwigOf(sn) > oldest}
    /\ UNCHANGED <<maxSerialNum, lostTwigs, lastPruned, dbLastPruned, edgeNodes, restarts, staleTop>>

\* EndBlock and the commit of the block.
EndBlock ==
    /\ stage' = "ended" /\ ops' = 0
    /\ tree' = TreeEndBlock(tree)
    /\ dbLastPruned' = lastPruned
    /\ UNCHANGED <<maxSerialNum, oldest, lostTwigs, pending, unlogged, lastPruned, edgeNodes, restarts, staleTop>>

\* The heights of the twigs below have been deleted.
EdgeEnd == IF edgeNodes = <<>> THEN 0 ELSE (CHOOSE p \in DOMAIN edgeNodes : p[1] = TwigTop)[2]

\* PruneBeforeHeight and PruneTwigs, between two blocks.  The twig at the end is evicted; when
\* the number of the last pruned twig was lost, no height is found and nothing is pruned.
PruneTwigs(end) ==
    LET start == lastPruned + 1
        kept == removeUselessNodes(tree, start, end)
    IN  /\ stage # "block" /\ start >= EdgeEnd /\ end < oldest /\ end - start >= MinPruneCount
        /\ tree' = IF EdgePositions(kept, end) \subseteq DOMAIN kept.nodes THEN kept
                   ELSE [kept EXCEPT !.panic = TRUE]
        /\ edgeNodes' = IF tree'.panic THEN edgeNodes ELSE getEdgeNodes(kept, end)
        /\ lastPruned' = end - 1
        /\ lostTwigs' = end - (end % TwigsPerSegment)
        /\ UNCHANGED <<maxSerialNum, oldest, pending, unlogged, dbLastPruned, stage, ops, restarts,
                       staleTop>>

\* Close and LoadTree: the tree is dumped, the list of deactivated entries is not.
Reload ==
    /\ stage # "block" /\ restarts < MaxRestarts
    /\ restarts' = restarts + 1
    /\ tree' = [tree EXCEPT !.youngest = CHOOSE id \in DOMAIN tree.twigs : \A o \in DOMAIN tree.twigs : o <= id,
                            !.changeStart = -1, !.changeEnd = -1]
    /\ lastPruned' = dbLastPruned
    /\ pending' = {}
    /\ UNCHANGED <<maxSerialNum, oldest, lostTwigs, unlogged, dbLastPruned, edgeNodes,
                   stage, ops, staleTop>>

\* A crash between two blocks, all files flushed.
Recover ==
    /\ stage # "block" /\ restarts < MaxRestarts /\ ~Recovered.panic
    /\ restarts' = restarts + 1
    /\ tree' = Recovered
    /\ lastPruned' = dbLastPruned
    /\ pending' = {} /\ unlogged' = {}
    /\ stage' = "recovered" /\ ops' = 0
    /\ staleTop' = (PosOf(maxSerialNum) = 0 /\ TwigOf(maxSerialNum) % 2 = 0)
    /\ UNCHANGED <<maxSerialNum, oldest, lostTwigs, dbLastPruned, edgeNodes>>

Next ==
    \/ AppendEntry \/ EvictTwig \/ EndBlock \/ Reload \/ Recover
    \/ \E sn \in Active(tree) : DeactiviateEntry(sn)
    \/ \E end \in 2..MaxSN : PruneTwigs(end)

Spec == Init /\ [][Next]_vars
-----------------------------------------------------------------------------
(* check.go: every node is the hash of its children, where they are there. *)

checkTwig(w) ==
    /\ \A l \in 1..ChunkShift : \A i \in DOMAIN w.mtl[l] :
        LET below(c) == IF l = 1 THEN Chunk(w.activeBits, c) ELSE w.mtl[l - 1][c]
        IN  w.mtl[l][i] = hash2(BitLevel(l), below(2 * i), below(2 * i + 1))
    /\ w.twigRoot = hash2(TwigShift, w.leftRoot, w.mtl[ChunkShift][0])

checkUpperNode(t, level, n) ==
    IF level = FirstLevelAboveTwig
    THEN HasTwigRoot(t, 2 * n) =>
            t.nodes[Pos(level, n)] = hash2(level - 1, getTwigRoot(t, 2 * n), getTwigRoot(t, 2 * n + 1))
    ELSE {Pos(level - 1, 2 * n), Pos(level - 1, 2 * n + 1)} \subseteq DOMAIN t.nodes =>
            t.nodes[Pos(level, n)] =
                hash2(level - 1, t.nodes[Pos(level - 1, 2 * n)], t.nodes[Pos(level - 1, 2 * n + 1)])
checkUpperNodes(t) == \A p \in DOMAIN t.nodes : p[1] > TwigTop => checkUpperNode(t, p[1], p[2])

checkMT(m) == \A i \in 1..(LeafCountInTwig - 1) : m[i] = hash2(LevelOf(i) - 1, m[2 * i], m[2 * i + 1])

CheckHashConsistency(t) ==
    /\ \A id \in DOMAIN t.twigs : checkTwig(t.twigs[id])
    /\ checkUpperNodes(t)
    /\ checkMT(t.mtree)

-----------------------------------------------------------------------------
(* Properties *)

\* The active twigs are those from the oldest on, the file has the complete ones, and a block
\* leaves no pending work behind.
TypeOK ==
    /\ tree.youngest = TwigOf(maxSerialNum)
    /\ DOMAIN tree.twigs = (oldest..tree.youngest) \cup tree.toBeDeleted
    /\ DOMAIN tree.mtFile = 0..(tree.youngest - 1)
    /\ stage # "block" => tree.touched = {} /\ tree.leaves = {} /\ tree.toBeDeleted = {}
    /\ pending \subseteq unlogged /\ unlogged \subseteq 0..(maxSerialNum - 1)
    /\ lostTwigs <= EdgeEnd /\ lastPruned < EdgeEnd /\ dbLastPruned <= lastPruned

\* Outside a block every hash is the hash of its children (check.go): EndBlock recomputes
\* enough, whatever the block appended, deactivated and evicted, and no block and no pruning
\* meets a node that is missing or "Not at the right edge" (syncNodesByLevel, getEdgeNodes),
\* also in a tree that has been pruned and recovered.
HashesConsistent ==
    /\ TypeOK
    /\ ~tree.panic
    /\ stage # "block" /\ ~staleTop => CheckHashConsistency(tree)

\* The hash of all entries and active bits, computed from scratch.
RefRoot ==
    LET left[k \in 0..TwigShift] ==
            [n \in 0..((tree.youngest + 1) * 2^(TwigShift - k) - 1) |->
                IF k # 0 THEN hash2(k - 1, left[k - 1][2 * n], left[k - 1][2 * n + 1])
                ELSE IF n < maxSerialNum THEN EntryHash(n) ELSE NullEntryHash]
        BitsOf(id) == IF id \in DOMAIN tree.twigs THEN tree.twigs[id].activeBits ELSE {}
        right[l \in 0..ChunkShift] ==
            [n \in 0..((tree.youngest + 1) * 2^(ChunkShift - l) - 1) |->
                IF l # 0 THEN hash2(BitLevel(l), right[l - 1][2 * n], right[l - 1][2 * n + 1])
                ELSE Chunk(BitsOf(n \div 2^ChunkShift), n % 2^ChunkShift)]
        max == calcMaxLevel(tree.youngest)
        upper[level \in TwigTop..max] ==
            [n \in 0..(2^(max - level) - 1) |->
                IF n * 2^(level - TwigTop) > tree.youngest
                THEN IF level = TwigTop THEN NullTwig.twigRoot ELSE NullNodeInHigherTree[level + 1]
                ELSE IF level = TwigTop THEN hash2(TwigShift, left[TwigShift][n], right[ChunkShift][n])
                ELSE hash2(level - 1, upper[level - 1][2 * n], upper[level - 1][2 * n + 1])]
    IN  upper[max][0]

\* The root is the one a computation from scratch gives, of all entries ever appended and the
\* bits that are active now: it does not depend on how the changes were cut into blocks, nor
\* on evictions, prunings, reloads and recoveries (syncMT, ReapNodes, RecoverTree).
RootIsReference == stage # "block" /\ ~staleTop => RootHash(tree) = RefRoot

\* Every entry of a twig behind the pruned ones can be proved, in memory and from the bytes of
\* the path (GetProof, Check); the first such twig only when its peer is not pruned.
ProofsCheck ==
    stage # "block" /\ ~staleTop =>
        \A sn \in (EdgeEnd * LeafCountInTwig)..(maxSerialNum - 1) :
            \/ TwigOf(sn) = EdgeEnd /\ EdgeEnd % 2 = 1
            \/ /\ UpperIsThere(tree, TwigOf(sn))
               /\ LET path == GetProof(tree, sn)
                  IN  Check(path, FALSE) /\ Check(BytesToProofPath(path), TRUE)

\* What a crash leaves is recovered as it was, or not at all: the twigs and the nodes, also
\* when the edge nodes of a pruning were written and the number of the last pruned twig was
\* not (CompareTreeTwigs).  Deactivations no entry lists are the exception.  A recovery
\* succeeds once twigs have been pruned and the number of the last one is committed, if the
\* file still has that twig and its left neighbour, and unless the number of pruned twigs is a
\* multiple of four (RecoverTree starts at the last pruned twig, for which there are no edge
\* nodes then).
RecoveredIsTheTree ==
    stage = "ended" =>
        /\ EdgeEnd > 0 /\ dbLastPruned = EdgeEnd - 1
           /\ lostTwigs <= StartingInactiveTwigID(dbLastPruned) /\ EdgeEnd % 4 # 0
               => ~Recovered.panic
        /\ ~Recovered.panic /\ unlogged = {} =>
              /\ Recovered.twigs = tree.twigs /\ Recovered.mtree = tree.mtree
              /\ PosOf(maxSerialNum) # 0 \/ TwigOf(maxSerialNum) % 2 = 1
                     => RootHash(Recovered) = RootHash(tree)

\* "If all the information in memory is lost, we can re-scan the entry file from beginning to
\* end to rebuild all the state" (docs/PackagesIntro.md:58): a recovered tree has the root of
\* its entries and bits.
RecoveredRootIsReference == stage = "recovered" => RootHash(tree) = RefRoot
=============================================================================
