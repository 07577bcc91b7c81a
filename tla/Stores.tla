------------------------------- MODULE Stores -------------------------------
(***************************************************************************)
(* The layers of package store above OnvaKV.  RootStore adds a cache of    *)
(* decoded objects that outlives blocks; TrunkStore holds the changes of   *)
(* one block; a MultiStore holds the changes of one transaction, several   *)
(* of which are open at a time.  Every change is announced to OnvaKV when  *)
(* it is made (PrepareFor...) and carried out when the trunk is written    *)
(* back.  OnvaKV itself is the map it promises to be (KVBlockSpec).        *)
(*                                                                         *)
(* Keys are byte strings in the order of bytes.Compare.  The caller closes *)
(* the transactions of a block before the block: a call that reaches the   *)
(* trunk while it writes panics ("Is Writing").  An object that GetObj     *)
(* moved out is not read again before it is returned.                      *)
(***************************************************************************)
EXTENDS Integers, Sequences, FiniteSets, SequencesExt

CONSTANTS
    Keys, Vals, Txs,
    Cacheable,          \* the keys for which isCacheableKey holds
    CacheSizeLimit,     \* of the cache of RootStore
    MaxOps,             \* bound of the model: changes between two write-backs
    None                \* no value

ASSUME StoresAssumption ==
    /\ IsFiniteSet(Keys) /\ None \notin Vals
    /\ CacheSizeLimit \in Nat /\ MaxOps \in Nat

VARIABLES
    okv,        \* the map in OnvaKV
    prepU,      \* keys given to PrepareForUpdate since the last write-back
    prepD,      \* keys given to PrepareForDeletion since the last write-back
    cache,      \* RootStore.cache
    cacheBuf,   \* RootStore.cacheBuf
    phase,      \* "idle", "open" (a trunk is), "begin" or "write" (inside its writeBack)
    trunk,      \* TrunkStore.cache
    multi,      \* MultiStore.cache of every transaction
    open,       \* the open transactions
    ops,        \* changes made since the last write-back
    block,      \* the map that the closed transactions of the block have made
    mine        \* what an open transaction has written, by key

rootVars == <<okv, prepU, prepD, cache, cacheBuf>>
vars == <<rootVars, phase, trunk, multi, open, ops, block, mine>>

(* b.Value in a CacheStore: raw bytes, an object, a deletion, the nil      *)
(* object, or no entry.                                                    *)
Entry(kind, v) == [kind |-> kind, val |-> v]
Missed == Entry("missed", None)
DeletedValue == Entry("deleted", None)
NilValue == Entry("nil", None)
Entries == [kind : {"raw", "obj"}, val : Vals] \cup {Missed, DeletedValue, NilValue}
EmptyCache == [k \in Keys |-> Missed]

(* What the transaction reads: its own last write, or the block. *)
View(t) == [k \in Keys |-> IF mine[t][k] = Missed THEN block[k] ELSE mine[t][k].val]
Nothing == [k \in Keys |-> None]

Init ==
    /\ okv = Nothing /\ prepU = {} /\ prepD = {}
    /\ cache = Nothing /\ cacheBuf = Nothing
    /\ phase = "idle"
    /\ trunk = EmptyCache /\ open = {} /\ ops = 0
    /\ multi = [t \in Txs |-> EmptyCache]
    /\ block = Nothing
    /\ mine = [t \in Txs |-> EmptyCache]

-----------------------------------------------------------------------------
(* Reads. *)

RootGet(k) == IF k \in Cacheable /\ cache[k] # None THEN cache[k] ELSE okv[k]
RootHas(k) == okv[k] # None

\* Mutant: a deletion in the cache does not hide the key below.
DeletedFallsThrough(cs, k, below) ==
    IF cs[k].kind \in {"missed", "deleted"} THEN below ELSE cs[k].val

(* CacheStore.Get answers unless it misses; then the layer below does. *)
Layered(cs, k, below) ==
    CASE cs[k].kind = "missed" -> below
      [] cs[k].kind = "deleted" -> None
      [] OTHER -> cs[k].val
LayeredHas(cs, k, below) ==
    IF cs[k].kind = "missed" THEN below ELSE cs[k].kind # "deleted"

TrunkGet(k) == Layered(trunk, k, RootGet(k))
TrunkHas(k) == LayeredHas(trunk, k, RootHas(k))
MultiGet(t, k) == Layered(multi[t], k, TrunkGet(k))
MultiHas(t, k) == LayeredHas(multi[t], k, TrunkHas(k))

(* bytes.Compare(a, b) < 0 *)
Before(a, b) ==
    \E n \in 0..Len(a) :
        /\ n < Len(b) /\ SubSeq(a, 1, n) = SubSeq(b, 1, n)
        /\ n = Len(a) \/ a[n + 1] < b[n + 1]

Ascending == SetToSortSeq(Keys, Before)
Descending == Reverse(Ascending)
Sorted(S, asc) == SelectSeq(IF asc THEN Ascending ELSE Descending, LAMBDA k : k \in S)

(* The bounds of iterations, and the keys that are not before a bound. *)
SubStores == {SubSeq(k, 1, 1) : k \in Keys}
Bounds == Keys \cup SubStores \cup {p \o <<255>> : p \in SubStores \cup {<<>>}}
KeysFrom == [b \in Bounds |-> {k \in Keys : ~Before(k, b)}]
InRange(k, start, end) == k \in KeysFrom[start] /\ k \notin KeysFrom[end]

(* The items an iterator of OnvaKV or of a CacheStore yields. *)
RootItems(start, end, asc) ==
    LET ks == Sorted({k \in Keys : okv[k] # None /\ InRange(k, start, end)}, asc) IN
    [i \in DOMAIN ks |-> [key |-> ks[i], val |-> RootGet(ks[i])]]
CacheItems(cs, start, end, asc) ==
    LET ks == Sorted({k \in Keys : cs[k].kind # "missed" /\ InRange(k, start, end)}, asc) IN
    [i \in DOMAIN ks |-> [key |-> ks[i], val |-> cs[ks[i]].val]]

Items == Seq([key : Keys, val : Vals \cup {None}])

(* skipCacheDeletes: drop leading deletions before the key of the parent,  *)
(* if it has one.                                                          *)
SkipCacheDeletes(p, c, asc) ==
    LET keep == {i \in DOMAIN c : c[i].val # None
                     \/ (p # <<>> /\ IF asc THEN c[i].key \in KeysFrom[p[1].key]
                                               ELSE p[1].key \in KeysFrom[c[i].key])}
    IN IF keep = {} THEN <<>> ELSE SubSeq(c, CHOOSE i \in keep : \A j \in keep : i <= j, Len(c))

\* Mutant: the items of the parent come before those of the cache.
ParentFirst(parent, cch, asc) == parent \o SelectSeq(cch, LAMBDA it : it.val # None)

(* cacheMergeIterator: skipUntilExistsOrInvalid, then Key and Value of the *)
(* first item, then Next, until it is invalid.  The cache shadows the      *)
(* parent.                                                                 *)
Merged(parent, cch, asc) ==
    LET less(a, b) == IF asc THEN a.key \notin KeysFrom[b.key] ELSE b.key \notin KeysFrom[a.key]
        merge[p \in Items, c \in Items] ==
            CASE p = <<>> /\ SkipCacheDeletes(p, c, asc) = <<>> -> <<>>
              [] p = <<>> /\ SkipCacheDeletes(p, c, asc) # <<>> ->
                     LET d == SkipCacheDeletes(p, c, asc) IN <<d[1]>> \o merge[p, Tail(d)]
              [] p # <<>> /\ c = <<>> -> p
              [] OTHER ->
                     CASE less(p[1], c[1]) -> <<p[1]>> \o merge[Tail(p), c]
                       [] p[1].key = c[1].key /\ c[1].val = None -> merge[Tail(p), Tail(c)]
                       [] p[1].key = c[1].key /\ c[1].val # None ->
                              <<c[1]>> \o merge[Tail(p), Tail(c)]
                       [] less(c[1], p[1]) /\ c[1].val = None ->
                              merge[p, SkipCacheDeletes(p, c, asc)]
                       [] OTHER -> <<c[1]>> \o merge[p, Tail(c)]
    IN merge[parent, cch]

MultiIterator(t, start, end, asc) ==
    Merged(Merged(RootItems(start, end, asc), CacheItems(trunk, start, end, asc), asc),
           CacheItems(multi[t], start, end, asc), asc)

\* Mutant: the end of the range is not prefixed.
EndWithoutPrefix(t, prefix, start, end, asc) ==
    LET its == MultiIterator(t, prefix \o start, end, asc)
    IN [i \in DOMAIN its |-> [its[i] EXCEPT !.key = SubSeq(@, Len(prefix) + 1, Len(@))]]

(* PrefixedStore: an iteration ends at the first key without the prefix,   *)
(* and the prefix is stripped from the keys.                               *)
PrefixIterator(t, prefix, start, end, asc) ==
    LET its == MultiIterator(t, prefix \o start, prefix \o end, asc)
        has(i) == IsPrefix(prefix, its[i].key)
        n == CHOOSE m \in 0..Len(its) :
                 (\A i \in 1..m : has(i)) /\ (m = Len(its) \/ ~has(m + 1))
    IN [i \in 1..n |-> [its[i] EXCEPT !.key = SubSeq(@, Len(prefix) + 1, Len(@))]]

-----------------------------------------------------------------------------
(* Blocks and transactions. *)

(* GetTrunkStore *)
NewTrunk ==
    /\ phase = "idle"
    /\ phase' = "open"
    /\ trunk' = EmptyCache
    /\ UNCHANGED <<rootVars, multi, open, ops, block, mine>>

Cached(t) ==
    /\ phase = "open" /\ t \notin open
    /\ open' = open \cup {t}
    /\ UNCHANGED <<rootVars, phase, trunk, multi, ops, block, mine>>

(* A change of a transaction: its cache, then the announcement. *)
Change(t, k, e) ==
    /\ t \in open /\ ops < MaxOps
    /\ multi' = [multi EXCEPT ![t][k] = e]
    /\ mine' = [mine EXCEPT ![t][k] = e]
    /\ ops' = ops + 1
    /\ UNCHANGED <<okv, cache, cacheBuf, phase, trunk, open, block>>

Set(t, k, v) == Change(t, k, Entry("raw", v)) /\ prepU' = prepU \cup {k} /\ UNCHANGED prepD
SetObj(t, k, v) == Change(t, k, Entry("obj", v)) /\ prepU' = prepU \cup {k} /\ UNCHANGED prepD
\* Mutant: a deletion is not prepared.
DeleteUnprepared(t, k) == Change(t, k, DeletedValue) /\ UNCHANGED <<prepU, prepD>>
Delete(t, k) == Change(t, k, DeletedValue) /\ prepD' = prepD \cup {k} /\ UNCHANGED prepU

(* GetObj moves an object out of the transaction's cache; raw bytes are    *)
(* decoded and stay; a miss is answered with a copy from below.            *)
GetObj(t, k) ==
    /\ t \in open /\ multi[t][k].kind = "obj"
    /\ multi' = [multi EXCEPT ![t][k] = NilValue]
    /\ UNCHANGED <<rootVars, phase, trunk, open, ops, block, mine>>

(* GetReadOnlyObj that reaches RootStore and misses its cache keeps the    *)
(* decoded object for the cache.                                           *)
GetReadOnlyObj(t, k) ==
    /\ t \in open /\ multi[t][k] = Missed /\ trunk[k] = Missed
    /\ k \in Cacheable /\ cache[k] = None /\ okv[k] # None
    /\ cacheBuf' = [cacheBuf EXCEPT ![k] = okv[k]]
    /\ UNCHANGED <<okv, prepU, prepD, cache, phase, trunk, multi, open, ops, block, mine>>

EndTx(t) ==
    /\ t \in open
    /\ open' = open \ {t}
    /\ multi' = [multi EXCEPT ![t] = EmptyCache]
    /\ mine' = [mine EXCEPT ![t] = EmptyCache]
    /\ UNCHANGED <<rootVars, phase, ops>>

(* ScanAllEntries panics on a dangling object. *)
Dangling(cs) == \E k \in Keys : cs[k] = NilValue

(* MultiStore.writeBack: the entries of the transaction into the trunk. *)
WrittenBack(cs, below) == [k \in Keys |-> IF cs[k] = Missed THEN below[k] ELSE cs[k]]

CloseTx(t) ==
    /\ ~Dangling(multi[t])
    /\ trunk' = WrittenBack(multi[t], trunk)
    /\ block' = View(t)
    /\ EndTx(t)

DiscardTx(t) == EndTx(t) /\ UNCHANGED <<trunk, block>>

(* The dangling object ends the process.  Everything but OnvaKV is gone.   *)
ClosePanics(t) ==
    /\ t \in open /\ Dangling(multi[t])
    /\ cache' = Nothing /\ cacheBuf' = Nothing /\ prepU' = {} /\ prepD' = {}
    /\ phase' = "idle" /\ open' = {} /\ trunk' = EmptyCache /\ ops' = 0
    /\ multi' = [u \in Txs |-> EmptyCache] /\ mine' = [u \in Txs |-> EmptyCache]
    /\ block' = okv
    /\ UNCHANGED okv

(* TrunkStore.Close(false): the block is dropped.  What was announced in it *)
(* stays with OnvaKV, whose maps of prepared keys only EndWrite empties.   *)
DiscardTrunk ==
    /\ phase = "open" /\ open = {}
    /\ phase' = "idle" /\ trunk' = EmptyCache
    /\ block' = okv
    /\ UNCHANGED <<rootVars, multi, open, ops, mine>>

-----------------------------------------------------------------------------
(* TrunkStore.writeBack *)

\* Mutant: the cache grows past its capacity.
NeverEvicted == {cache}

(* addToCache: a full cache loses a random entry first. *)
Evicted ==
    LET full == {k \in Keys : cache[k] # None} IN
    IF Cardinality(full) > CacheSizeLimit THEN {[cache EXCEPT ![k] = None] : k \in full}
    ELSE {cache}
AddToCache(k, v) == \E c \in Evicted : cache' = [c EXCEPT ![k] = v]

BeginWrite ==
    /\ phase = "open" /\ open = {}
    /\ phase' = "begin"
    /\ UNCHANGED <<rootVars, trunk, multi, open, ops, block, mine>>

(* One round of the loop of RootStore.BeginWrite over cacheBuf. *)
MoveToCache(k) ==
    /\ phase = "begin" /\ cacheBuf[k] # None
    /\ AddToCache(k, cacheBuf[k])
    /\ cacheBuf' = [cacheBuf EXCEPT ![k] = None]
    /\ UNCHANGED <<okv, prepU, prepD, phase, trunk, multi, open, ops, block, mine>>

BufferMoved ==
    /\ phase = "begin" /\ cacheBuf = Nothing
    /\ phase' = "write"
    /\ UNCHANGED <<rootVars, trunk, multi, open, ops, block, mine>>

\* Mutant: a write leaves the cached value as it is.
SetBypassesCache(k, v) == okv' = [okv EXCEPT ![k] = v] /\ UNCHANGED cache
\* Mutant: a deletion does not reach the database.
DeleteFromCacheOnly(k) == cache' = [cache EXCEPT ![k] = None] /\ UNCHANGED okv

(* Set decodes into the object that is cached, SetObj caches its object,   *)
(* Delete removes it.                                                      *)
RootSet(k, v) ==
    /\ okv' = [okv EXCEPT ![k] = v]
    /\ cache' = IF k \in Cacheable /\ cache[k] # None THEN [cache EXCEPT ![k] = v] ELSE cache
RootSetObj(k, v) ==
    /\ okv' = [okv EXCEPT ![k] = v]
    /\ IF k \in Cacheable THEN AddToCache(k, v) ELSE UNCHANGED cache
RootDelete(k) ==
    /\ okv' = [okv EXCEPT ![k] = None]
    /\ cache' = [cache EXCEPT ![k] = None]

(* One round of ScanAllEntries over the trunk, in the order of the keys. *)
WriteBack(k) ==
    /\ phase = "write" /\ trunk[k] # Missed
    /\ \A j \in Keys : Before(j, k) => trunk[j] = Missed
    /\ CASE trunk[k].kind = "deleted" -> RootDelete(k)
         [] trunk[k].kind = "obj" -> RootSetObj(k, trunk[k].val)
         [] trunk[k].kind = "raw" -> RootSet(k, trunk[k].val)
    /\ trunk' = [trunk EXCEPT ![k] = Missed]
    /\ UNCHANGED <<prepU, prepD, cacheBuf, phase, multi, open, ops, block, mine>>

EndWrite ==
    /\ phase = "write" /\ trunk = EmptyCache
    /\ phase' = "idle" /\ prepU' = {} /\ prepD' = {} /\ ops' = 0
    /\ UNCHANGED <<okv, cache, cacheBuf, trunk, multi, open, block, mine>>

TxStep(t) ==
    \/ Cached(t) \/ CloseTx(t) \/ DiscardTx(t) \/ ClosePanics(t)
    \/ \E k \in Keys :
          \/ \E v \in Vals : Set(t, k, v) \/ SetObj(t, k, v)
          \/ Delete(t, k) \/ GetObj(t, k) \/ GetReadOnlyObj(t, k)

Next ==
    \/ NewTrunk \/ DiscardTrunk \/ BeginWrite \/ BufferMoved \/ EndWrite
    \/ \E t \in Txs : TxStep(t)
    \/ \E k \in Keys : MoveToCache(k) \/ WriteBack(k)

Spec == Init /\ [][Next]_vars

-----------------------------------------------------------------------------
(* Caches, prepared keys and maps have their types. *)
TypeOK ==
    /\ {okv, cache, cacheBuf, block} \subseteq [Keys -> Vals \cup {None}]
    /\ prepU \subseteq Keys /\ prepD \subseteq Keys /\ open \subseteq Txs
    /\ ops \in 0..MaxOps
    /\ phase \in {"idle", "open", "begin", "write"}
    /\ trunk \in [Keys -> Entries]
    /\ {multi, mine} \subseteq [Txs -> [Keys -> Entries]]

(* A transaction reads its own last write of a key, else what the closed   *)
(* transactions of the block wrote, else what earlier blocks left, through *)
(* whichever layers and caches the answer comes; Has, which asks OnvaKV    *)
(* past the cache of RootStore, agrees with Get (MultiStore.Get, Has).     *)
ReadsSeeLatest ==
    \A t \in open, k \in Keys :
        multi[t][k] # NilValue =>
            /\ MultiGet(t, k) = View(t)[k]
            /\ MultiHas(t, k) <=> View(t)[k] # None

(* Iterating over a transaction, or over one of its substores, in either   *)
(* direction visits exactly the keys the transaction can read, once, in    *)
(* order, with their values, although three layers of additions,           *)
(* overwritings and deletions are merged (cacheMergeIterator).             *)
IterationIsTheView ==
    \A t \in open, asc \in BOOLEAN :
        ~Dangling(multi[t]) =>
            LET v == View(t)
                visited(S, name(_)) ==
                    LET ks == Sorted({k \in S : v[k] # None}, asc)
                    IN [i \in DOMAIN ks |-> [key |-> name(ks[i]), val |-> v[ks[i]]]]
            IN /\ \A start \in Keys :
                     MultiIterator(t, start, <<255>>, asc) = visited(KeysFrom[start], LAMBDA k : k)
               /\ \A prefix \in SubStores :
                     PrefixIterator(t, prefix, <<>>, <<255>>, asc) =
                         visited({k \in Keys : IsPrefix(prefix, k)}, Tail)

(* The cache of RootStore never differs from OnvaKV, neither during the    *)
(* write-back nor in later blocks, and neither do the objects that wait    *)
(* for BeginWrite (root.go:162); and it keeps to its limit, since          *)
(* addToCache evicts one entry before it adds one, although the entries of *)
(* a block come from cacheBuf and from the write-back.                     *)
RootCacheCoherent ==
    /\ TypeOK
    /\ Cardinality({k \in Keys : cache[k] # None}) <= CacheSizeLimit + 1
    /\ \A k \in Keys :
          /\ cache[k] # None => cache[k] = okv[k]
          /\ cacheBuf[k] # None => cacheBuf[k] = okv[k]

(* The write-back of a trunk, which starts after BeginWrite and must not   *)
(* stop in the middle of a block, meets no dangling object and no key that *)
(* was not prepared for the change, whatever the transactions of the block *)
(* set, deleted, moved out, discarded or overwrote (trunk.go:128).         *)
TrunkCanBeWritten ==
    \A k \in Keys :
        /\ trunk[k] # NilValue
        /\ trunk[k].kind = "deleted" => k \in prepD
        /\ trunk[k].kind \in {"raw", "obj"} => k \in prepU

(* Between blocks OnvaKV holds what the closed transactions wrote, in the  *)
(* order in which they were closed, and nothing of the discarded ones.     *)
BlockIsCommitted == phase = "idle" => okv = block
=============================================================================
