---------------------------- MODULE Stores_proofs ----------------------------
(***************************************************************************)
(* The layers of stores, for every set of keys, values and transactions    *)
(* and every size of the cache of RootStore: the cache is coherent, reads  *)
(* see the latest write, the trunk can be written, and a block leaves in   *)
(* OnvaKV what its closed transactions wrote.                              *)
(***************************************************************************)
EXTENDS Stores, FiniteSetTheorems, TLAPS

-----------------------------------------------------------------------------
(* The inductive invariant *)

\* A key that is cached by RootStore, or waits to be, is one that may be, and
\* has the value in OnvaKV.
CacheCoherent ==
    \A k \in Keys :
        /\ cache[k] # None => k \in Cacheable /\ cache[k] = okv[k]
        /\ cacheBuf[k] # None => k \in Cacheable /\ cacheBuf[k] = okv[k]

CachedKeys(c) == {k \in Keys : c[k] # None}
CacheBounded == Cardinality(CachedKeys(cache)) <= CacheSizeLimit + 1

\* What may be left over in which phase: transactions belong to an open trunk,
\* the write-back finds the buffer moved, and leaves the trunk empty.
PhaseOK ==
    /\ phase # "open" => open = {}
    /\ phase = "write" => cacheBuf = Nothing
    /\ phase = "idle" => trunk = EmptyCache

\* The cache of a transaction holds its last writes, but for objects that were
\* moved out; one that is not open holds nothing.
TxOK ==
    \A t \in Txs, k \in Keys :
        /\ t \notin open => multi[t][k] = Missed /\ mine[t][k] = Missed
        /\ mine[t][k] # NilValue
        /\ multi[t][k] # NilValue => multi[t][k] = mine[t][k]

\* A change of k was announced to OnvaKV.
Announced(e, k) ==
    /\ e.kind = "deleted" => k \in prepD
    /\ e.kind \in {"raw", "obj"} => k \in prepU

PreparedOK ==
    \A k \in Keys :
        /\ trunk[k] # NilValue /\ Announced(trunk[k], k)
        /\ \A t \in Txs : Announced(multi[t][k], k)

\* The block is the trunk over OnvaKV, also when the trunk is half written.
BlockOK == \A k \in Keys : block[k] = IF trunk[k] = Missed THEN okv[k] ELSE trunk[k].val

Inv ==
    /\ TypeOK /\ CacheCoherent /\ CacheBounded /\ PhaseOK
    /\ TxOK /\ PreparedOK /\ BlockOK

-----------------------------------------------------------------------------
(* Entries *)

\* The type invariant, variable by variable.
Types ==
    /\ okv \in [Keys -> Vals \cup {None}] /\ block \in [Keys -> Vals \cup {None}]
    /\ cache \in [Keys -> Vals \cup {None}] /\ cacheBuf \in [Keys -> Vals \cup {None}]
    /\ prepU \subseteq Keys /\ prepD \subseteq Keys /\ open \subseteq Txs
    /\ ops \in 0..MaxOps
    /\ phase \in {"idle", "open", "begin", "write"}
    /\ trunk \in [Keys -> Entries]
    /\ multi \in [Txs -> [Keys -> Entries]] /\ mine \in [Txs -> [Keys -> Entries]]

LEMMA TypesEquiv == TypeOK <=> Types
BY DEF TypeOK, Types

LEMMA TypesEquivPrime == TypeOK' <=> Types'
BY DEF TypeOK, Types

\* An entry is determined by its kind, unless it is a value, which is not None.
LEMMA EntryKinds ==
    ASSUME NEW e \in Entries
    PROVE  /\ e.kind \in {"missed", "deleted", "nil", "raw", "obj"}
           /\ e.kind = "missed" <=> e = Missed
           /\ e.kind = "deleted" <=> e = DeletedValue
           /\ e.kind = "nil" <=> e = NilValue
           /\ e.kind \in {"raw", "obj"} <=> e.val # None
           /\ e.val \in Vals \cup {None}
BY StoresAssumption DEF Entries, Missed, DeletedValue, NilValue, Entry

LEMMA EntryTypes ==
    /\ Missed \in Entries /\ DeletedValue \in Entries /\ NilValue \in Entries
    /\ \A v \in Vals : Entry("raw", v) \in Entries /\ Entry("obj", v) \in Entries
BY DEF Entries, Missed, DeletedValue, NilValue, Entry

LEMMA EntryFields ==
    /\ \A kd, v : Entry(kd, v).kind = kd /\ Entry(kd, v).val = v
    /\ Missed.kind = "missed" /\ DeletedValue.kind = "deleted" /\ NilValue.kind = "nil"
    /\ Missed.val = None /\ DeletedValue.val = None /\ NilValue.val = None
    /\ Missed # NilValue /\ DeletedValue # NilValue /\ Missed # DeletedValue
BY DEF Missed, DeletedValue, NilValue, Entry

-----------------------------------------------------------------------------
(* The cache of RootStore *)

\* addToCache evicts before it adds: the bound is kept, and what remains
\* cached is as it was.
LEMMA AddToCacheBounded ==
    ASSUME cache \in [Keys -> Vals \cup {None}], CacheBounded,
           NEW k \in Keys, NEW v \in Vals, AddToCache(k, v)
    PROVE  /\ cache' \in [Keys -> Vals \cup {None}]
           /\ CacheBounded'
           /\ cache'[k] = v
           /\ \A j \in Keys \ {k} : cache'[j] \in {cache[j], None}
<1> DEFINE full == CachedKeys(cache)
<1>1. PICK c \in Evicted : cache' = [c EXCEPT ![k] = v]
  BY DEF AddToCache
<1>2. IsFiniteSet(full) /\ Cardinality(full) \in Nat
  <2>1. full \subseteq Keys
    BY DEF CachedKeys
  <2>. QED
    BY <2>1, FS_Subset, FS_CardinalityType, StoresAssumption
<1>3. /\ c \in [Keys -> Vals \cup {None}]
      /\ \A j \in Keys : c[j] \in {cache[j], None}
      /\ IsFiniteSet(CachedKeys(c)) /\ Cardinality(CachedKeys(c)) \in Nat
      /\ Cardinality(CachedKeys(c)) <= CacheSizeLimit
  <2>1. CASE Cardinality(full) > CacheSizeLimit
    <3>1. PICK j \in full : c = [cache EXCEPT ![j] = None]
      BY <2>1 DEF Evicted, CachedKeys
    <3>2. j \in Keys /\ CachedKeys(c) = full \ {j}
      BY <3>1 DEF CachedKeys
    <3>3. IsFiniteSet(full \ {j}) /\ Cardinality(full \ {j}) = Cardinality(full) - 1
      BY <1>2, <3>1, FS_RemoveElement
    <3>4. Cardinality(full) \in Nat /\ Cardinality(full) <= CacheSizeLimit + 1
      BY <1>2 DEF CacheBounded
    <3>5. Cardinality(full) - 1 \in Nat /\ Cardinality(full) - 1 <= CacheSizeLimit
      BY <2>1, <3>4, StoresAssumption
    <3>6. c \in [Keys -> Vals \cup {None}] /\ \A i \in Keys : c[i] \in {cache[i], None}
      BY <3>1, <3>2
    <3>. QED
      BY <3>2, <3>3, <3>5, <3>6
  <2>2. CASE ~(Cardinality(full) > CacheSizeLimit)
    <3>1. c = cache
      BY <2>2 DEF Evicted, CachedKeys
    <3>. QED
      BY <1>2, <2>2, <3>1, StoresAssumption
  <2>. QED
    BY <2>1, <2>2
<1>4. CachedKeys(cache') = CachedKeys(c) \cup {k}
  BY <1>1, <1>3, StoresAssumption DEF CachedKeys
<1>5. Cardinality(CachedKeys(c) \cup {k}) <= CacheSizeLimit + 1
  <2>1. /\ IsFiniteSet(CachedKeys(c) \cup {k})
        /\ Cardinality(CachedKeys(c) \cup {k}) = IF k \in CachedKeys(c)
              THEN Cardinality(CachedKeys(c)) ELSE Cardinality(CachedKeys(c)) + 1
    BY <1>3, FS_AddElement
  <2>. QED
    BY <1>3, <2>1, StoresAssumption
<1>6. CacheBounded'
  BY <1>4, <1>5 DEF CacheBounded, CachedKeys
<1>. QED
  BY <1>1, <1>3, <1>6

\* Removing a key from the cache, or replacing its cached value, keeps the bound.
LEMMA CacheShrinks ==
    ASSUME CacheBounded, CachedKeys(cache') \subseteq CachedKeys(cache)
    PROVE  CacheBounded'
<1>1. CachedKeys(cache) \subseteq Keys
  BY DEF CachedKeys
<1>2. IsFiniteSet(CachedKeys(cache))
  BY <1>1, FS_Subset, StoresAssumption
<1>3. /\ Cardinality(CachedKeys(cache')) <= Cardinality(CachedKeys(cache))
      /\ Cardinality(CachedKeys(cache)) \in Nat /\ Cardinality(CachedKeys(cache')) \in Nat
  BY <1>2, FS_Subset, FS_CardinalityType
<1>4. Cardinality(CachedKeys(cache')) <= CacheSizeLimit + 1
  BY <1>3, StoresAssumption DEF CacheBounded
<1>. QED
  BY <1>4 DEF CacheBounded, CachedKeys

-----------------------------------------------------------------------------
(* Blocks and transactions *)

LEMMA InitInv == Init => Inv
<1>. SUFFICES ASSUME Init PROVE Inv
  OBVIOUS
<1>1. Types
  BY EntryTypes, StoresAssumption DEF Init, Types, Nothing, EmptyCache
<1>2. CacheBounded
  <2>1. CachedKeys(cache) = {}
    BY DEF Init, CachedKeys, Nothing
  <2>. QED
    BY <2>1, FS_EmptySet, StoresAssumption DEF CacheBounded
<1>3. CacheCoherent /\ PhaseOK
  BY DEF Init, CacheCoherent, PhaseOK, Nothing
<1>4. TxOK /\ PreparedOK /\ BlockOK
  BY EntryFields DEF Init, TxOK, PreparedOK, Announced, BlockOK, EmptyCache, Nothing
<1>. QED
  BY <1>1, <1>2, <1>3, <1>4, TypesEquiv DEF Inv

LEMMA NewTrunkInv == Inv /\ NewTrunk => Inv'
<1>. SUFFICES ASSUME Inv, NewTrunk PROVE Inv'
  OBVIOUS
<1>1. trunk' = trunk
  BY DEF NewTrunk, Inv, PhaseOK
<1>2. Types'
  BY <1>1, TypesEquiv DEF NewTrunk, rootVars, Inv, Types
<1>3. (CacheCoherent /\ CacheBounded /\ TxOK /\ PreparedOK /\ BlockOK)'
  BY <1>1 DEF NewTrunk, rootVars, Inv, CacheCoherent, CacheBounded, CachedKeys, TxOK, PreparedOK,
              Announced, BlockOK
<1>4. PhaseOK'
  BY <1>1 DEF NewTrunk, Inv, PhaseOK
<1>. QED
  BY <1>2, <1>3, <1>4, TypesEquivPrime DEF Inv

LEMMA CachedInv == ASSUME Inv, NEW t \in Txs, Cached(t) PROVE Inv'
<1>1. Types'
  BY TypesEquiv DEF Cached, Inv, Types, rootVars
<1>2. (CacheCoherent /\ CacheBounded /\ PreparedOK /\ BlockOK)'
  BY DEF Cached, Inv, CacheCoherent, CacheBounded, CachedKeys, PreparedOK, Announced, BlockOK, rootVars
<1>3. (PhaseOK /\ TxOK)'
  BY DEF Cached, Inv, PhaseOK, TxOK, rootVars
<1>. QED
  BY <1>1, <1>2, <1>3, TypesEquivPrime DEF Inv

\* A change that is announced keeps the invariant.
LEMMA ChangeInv ==
    ASSUME Inv, NEW t \in Txs, NEW k \in Keys, NEW e \in Entries \ {Missed, NilValue},
           Change(t, k, e), prepU \subseteq prepU', prepD \subseteq prepD',
           prepU' \subseteq Keys, prepD' \subseteq Keys, Announced(e, k)'
    PROVE  Inv'
<1>. USE DEF Change
<1>1. Types
  BY TypesEquiv DEF Inv
<1>2. Types'
  BY <1>1, StoresAssumption DEF Types
<1>3. (CacheCoherent /\ CacheBounded /\ PhaseOK /\ BlockOK)'
  BY DEF Inv, CacheCoherent, CacheBounded, CachedKeys, PhaseOK, BlockOK
<1>4. \A u \in Txs, j \in Keys :
         /\ multi'[u][j] = IF u = t /\ j = k THEN e ELSE multi[u][j]
         /\ mine'[u][j] = IF u = t /\ j = k THEN e ELSE mine[u][j]
  BY <1>1 DEF Types
<1>5. TxOK'
  BY <1>1, <1>4 DEF Inv, TxOK, Types
<1>6. \A j \in Keys : \A u \in Txs : Announced(multi[u][j], j)'
  BY <1>4 DEF Inv, PreparedOK, Announced
<1>7. PreparedOK'
  BY <1>6 DEF Inv, PreparedOK, Announced
<1>. QED
  BY <1>2, <1>3, <1>5, <1>7, TypesEquivPrime DEF Inv

LEMMA SetInv ==
    ASSUME Inv, NEW t \in Txs, NEW k \in Keys, NEW v \in Vals, Set(t, k, v) \/ SetObj(t, k, v)
    PROVE  Inv'
<1>1. PICK kd \in {"raw", "obj"} : Change(t, k, Entry(kd, v)) /\ prepU' = prepU \cup {k} /\ UNCHANGED prepD
  BY DEF Set, SetObj
<1>2. Types
  BY TypesEquiv DEF Inv
<1>3. Entry(kd, v) \in Entries \ {Missed, NilValue} /\ Announced(Entry(kd, v), k)'
  BY <1>1, EntryTypes, EntryFields DEF Announced
<1>. QED
  BY <1>1, <1>2, <1>3, ChangeInv DEF Types

LEMMA DeleteInv ==
    ASSUME Inv, NEW t \in Txs, NEW k \in Keys, Delete(t, k)
    PROVE  Inv'
<1>1. Types
  BY TypesEquiv DEF Inv
<1>2. DeletedValue \in Entries \ {Missed, NilValue} /\ Announced(DeletedValue, k)'
  BY EntryTypes, EntryFields DEF Announced, Delete
<1>. QED
  BY <1>1, <1>2, ChangeInv DEF Types, Delete

\* Moving an object out leaves the nil object, which needs no announcement.
LEMMA GetObjInv ==
    ASSUME Inv, NEW t \in Txs, NEW k \in Keys, GetObj(t, k)
    PROVE  Inv'
<1>. USE DEF GetObj, rootVars
<1>1. Types
  BY TypesEquiv DEF Inv
<1>2. Types'
  BY <1>1, EntryTypes DEF Types
<1>3. (CacheCoherent /\ CacheBounded /\ PhaseOK /\ BlockOK)'
  BY DEF Inv, CacheCoherent, CacheBounded, CachedKeys, PhaseOK, BlockOK
<1>4. \A u \in Txs, j \in Keys :
         multi'[u][j] = IF u = t /\ j = k THEN NilValue ELSE multi[u][j]
  BY <1>1 DEF Types
<1>5. TxOK'
  BY <1>1, <1>4 DEF Inv, TxOK, Types
<1>6. PreparedOK'
  BY <1>4, EntryFields DEF Inv, PreparedOK, Announced
<1>. QED
  BY <1>2, <1>3, <1>5, <1>6, TypesEquivPrime DEF Inv

LEMMA GetReadOnlyObjInv ==
    ASSUME Inv, NEW t \in Txs, NEW k \in Keys, GetReadOnlyObj(t, k)
    PROVE  Inv'
<1>. USE DEF GetReadOnlyObj
<1>1. Types
  BY TypesEquiv DEF Inv
<1>2. Types'
  BY <1>1 DEF Types
<1>3. (CacheCoherent /\ CacheBounded)'
  BY <1>1 DEF Inv, CacheCoherent, CacheBounded, CachedKeys, Types
<1>4. (BlockOK /\ TxOK /\ PreparedOK)'
  BY DEF Inv, BlockOK, TxOK, PreparedOK, Announced
<1>5. PhaseOK'
  <2>1. phase = "open"
    BY DEF Inv, PhaseOK
  <2>. QED
    BY <2>1 DEF Inv, PhaseOK
<1>. QED
  BY <1>2, <1>3, <1>4, <1>5, TypesEquivPrime DEF Inv

\* The end of a transaction, whether its changes go to the trunk or nowhere.
LEMMA EndTxFacts ==
    ASSUME Types, NEW t \in Txs, EndTx(t)
    PROVE  /\ open' = open \ {t}
           /\ \A u \in Txs, j \in Keys :
                 /\ multi'[u][j] = IF u = t THEN Missed ELSE multi[u][j]
                 /\ mine'[u][j] = IF u = t THEN Missed ELSE mine[u][j]
           /\ multi' \in [Txs -> [Keys -> Entries]] /\ mine' \in [Txs -> [Keys -> Entries]]
<1>1. EmptyCache \in [Keys -> Entries]
  BY EntryTypes DEF EmptyCache
<1>. QED
  BY <1>1 DEF EndTx, Types, EmptyCache

LEMMA DiscardTxInv == ASSUME Inv, NEW t \in Txs, DiscardTx(t) PROVE Inv'
<1>. USE DEF DiscardTx, rootVars
<1>1. Types
  BY TypesEquiv DEF Inv
<1>2. Types'
  BY <1>1, EndTxFacts DEF Types, EndTx
<1>3. (CacheCoherent /\ CacheBounded /\ BlockOK)'
  BY DEF Inv, CacheCoherent, CacheBounded, CachedKeys, BlockOK, EndTx
<1>4. PhaseOK'
  BY DEF Inv, PhaseOK, EndTx
<1>5. TxOK'
  BY <1>1, EndTxFacts, EntryFields DEF Inv, TxOK
<1>6. PreparedOK'
  BY <1>1, EndTxFacts, EntryFields DEF Inv, PreparedOK, Announced, EndTx
<1>. QED
  BY <1>2, <1>3, <1>4, <1>5, <1>6, TypesEquivPrime DEF Inv

\* The transaction's entries replace those of the trunk, and its view becomes
\* the block.
LEMMA CloseTxInv == ASSUME Inv, NEW t \in Txs, CloseTx(t) PROVE Inv'
<1>. USE DEF CloseTx, rootVars
<1>1. Types
  BY TypesEquiv DEF Inv
<1>2. \A k \in Keys : multi[t][k] # NilValue /\ multi[t][k] = mine[t][k]
  BY DEF Dangling, Inv, TxOK
<1>3. \A k \in Keys : trunk'[k] = IF multi[t][k] = Missed THEN trunk[k] ELSE multi[t][k]
  BY DEF WrittenBack
<1>4. \A k \in Keys : block'[k] = IF mine[t][k] = Missed THEN block[k] ELSE mine[t][k].val
  BY DEF View
<1>5. trunk' \in [Keys -> Entries]
  BY <1>1 DEF WrittenBack, Types
<1>6. block' \in [Keys -> Vals \cup {None}]
  <2>1. \A k \in Keys : mine[t][k] \in Entries
    BY <1>1 DEF Types
  <2>. QED
    BY <1>1, <2>1, EntryKinds DEF View, Types
<1>7. Types'
  BY <1>1, <1>5, <1>6, EndTxFacts DEF Types, EndTx
<1>8. (CacheCoherent /\ CacheBounded)'
  BY DEF Inv, CacheCoherent, CacheBounded, CachedKeys, EndTx
<1>9. PhaseOK'
  BY DEF Inv, PhaseOK, EndTx
<1>10. TxOK'
  BY <1>1, EndTxFacts, EntryFields DEF Inv, TxOK
<1>11. PreparedOK'
  <2>1. prepU' = prepU /\ prepD' = prepD
    BY DEF EndTx
  <2>2. ASSUME NEW k \in Keys PROVE trunk'[k] # NilValue /\ Announced(trunk[k], k)'
    BY <1>2, <1>3, <2>1 DEF Inv, PreparedOK, Announced
  <2>3. ASSUME NEW k \in Keys, NEW u \in Txs PROVE Announced(multi[u][k], k)'
    BY <1>1, <2>1, EndTxFacts, EntryFields DEF Inv, PreparedOK, Announced
  <2>. QED
    BY <2>2, <2>3 DEF PreparedOK
<1>12. BlockOK'
  BY <1>2, <1>3, <1>4 DEF Inv, BlockOK, EndTx
<1>. QED
  BY <1>7, <1>8, <1>9, <1>10, <1>11, <1>12, TypesEquivPrime DEF Inv

LEMMA ClosePanicsInv == ASSUME Inv, NEW t \in Txs, ClosePanics(t) PROVE Inv'
<1>. USE DEF ClosePanics
<1>1. Types'
  BY TypesEquiv, EntryTypes, StoresAssumption DEF Inv, Types, Nothing, EmptyCache
<1>2. CacheBounded'
  <2>1. CachedKeys(cache') = {}
    BY DEF CachedKeys, Nothing
  <2>. QED
    BY <2>1, CacheShrinks DEF Inv
<1>3. (CacheCoherent /\ PhaseOK)'
  BY DEF CacheCoherent, PhaseOK, Nothing
<1>4. (TxOK /\ PreparedOK /\ BlockOK)'
  BY EntryFields DEF TxOK, PreparedOK, Announced, BlockOK, EmptyCache
<1>. QED
  BY <1>1, <1>2, <1>3, <1>4, TypesEquivPrime DEF Inv

\* A block that is dropped leaves nothing but what it announced.
LEMMA DiscardTrunkInv == ASSUME Inv, DiscardTrunk PROVE Inv'
<1>. USE DEF DiscardTrunk, rootVars
<1>1. Types'
  BY TypesEquiv, EntryTypes DEF Inv, Types, EmptyCache
<1>2. (CacheCoherent /\ CacheBounded /\ TxOK)'
  BY DEF Inv, CacheCoherent, CacheBounded, CachedKeys, TxOK
<1>3. (PhaseOK /\ BlockOK)'
  BY DEF PhaseOK, BlockOK, EmptyCache
<1>4. PreparedOK'
  BY EntryFields DEF Inv, PreparedOK, Announced, EmptyCache
<1>. QED
  BY <1>1, <1>2, <1>3, <1>4, TypesEquivPrime DEF Inv

-----------------------------------------------------------------------------
(* Writing the trunk back *)

LEMMA BeginWriteInv == ASSUME Inv, BeginWrite PROVE Inv'
<1>. USE DEF BeginWrite, rootVars
<1>1. Types'
  BY TypesEquiv DEF Inv, Types
<1>2. (CacheCoherent /\ CacheBounded /\ TxOK /\ PreparedOK /\ BlockOK)'
  BY DEF Inv, CacheCoherent, CacheBounded, CachedKeys, TxOK, PreparedOK, Announced, BlockOK
<1>3. PhaseOK'
  BY DEF PhaseOK
<1>. QED
  BY <1>1, <1>2, <1>3, TypesEquivPrime DEF Inv

LEMMA BufferMovedInv == ASSUME Inv, BufferMoved PROVE Inv'
<1>. USE DEF BufferMoved, rootVars
<1>1. Types'
  BY TypesEquiv DEF Inv, Types
<1>2. (CacheCoherent /\ CacheBounded /\ TxOK /\ PreparedOK /\ BlockOK)'
  BY DEF Inv, CacheCoherent, CacheBounded, CachedKeys, TxOK, PreparedOK, Announced, BlockOK
<1>3. PhaseOK'
  BY DEF Inv, PhaseOK, Nothing
<1>. QED
  BY <1>1, <1>2, <1>3, TypesEquivPrime DEF Inv

LEMMA MoveToCacheInv == ASSUME Inv, NEW k \in Keys, MoveToCache(k) PROVE Inv'
<1>. USE DEF MoveToCache
<1>1. Types
  BY TypesEquiv DEF Inv
<1>2. cacheBuf[k] \in Vals /\ k \in Cacheable /\ cacheBuf[k] = okv[k]
  BY <1>1 DEF Types, Inv, CacheCoherent
<1>3. /\ cache' \in [Keys -> Vals \cup {None}]
      /\ CacheBounded'
      /\ cache'[k] = cacheBuf[k]
      /\ \A j \in Keys \ {k} : cache'[j] \in {cache[j], None}
  BY <1>1, <1>2, AddToCacheBounded DEF Types, Inv
<1>4. Types'
  BY <1>1, <1>3 DEF Types
<1>5. CacheCoherent'
  <2>1. ASSUME NEW j \in Keys
        PROVE  /\ cache'[j] # None => j \in Cacheable /\ cache'[j] = okv[j]
               /\ cacheBuf'[j] # None => j \in Cacheable /\ cacheBuf'[j] = okv[j]
    BY <1>1, <1>2, <1>3 DEF Types, Inv, CacheCoherent
  <2>. QED
    BY <2>1 DEF CacheCoherent
<1>6. (PhaseOK /\ TxOK /\ PreparedOK /\ BlockOK)'
  BY DEF Inv, PhaseOK, TxOK, PreparedOK, Announced, BlockOK
<1>. QED
  BY <1>3, <1>4, <1>5, <1>6, TypesEquivPrime DEF Inv

\* Set, SetObj and Delete of RootStore change OnvaKV and keep the cache with it.
LEMMA RootWrite ==
    ASSUME Inv, NEW k \in Keys, WriteBack(k)
    PROVE  /\ okv' = [okv EXCEPT ![k] = trunk[k].val]
           /\ cache' \in [Keys -> Vals \cup {None}]
           /\ cache'[k] # None => k \in Cacheable /\ cache'[k] = trunk[k].val
           /\ \A j \in Keys \ {k} : cache'[j] \in {cache[j], None}
           /\ CacheBounded'
<1>. USE DEF WriteBack
<1>1. Types /\ CacheBounded
  BY TypesEquiv DEF Inv
<1>2. /\ trunk[k] \in Entries
      /\ trunk[k].kind \in {"deleted", "raw", "obj"}
      /\ trunk[k].kind = "deleted" => trunk[k].val = None
      /\ trunk[k].kind \in {"raw", "obj"} => trunk[k].val \in Vals
  <2>1. trunk[k] \in Entries /\ trunk[k] # NilValue /\ trunk[k] # Missed
    BY <1>1 DEF Types, Inv, PreparedOK
  <2>. QED
    BY <2>1, EntryKinds
<1>3. CASE trunk[k].kind = "deleted"
  <2>1. okv' = [okv EXCEPT ![k] = None] /\ cache' = [cache EXCEPT ![k] = None]
    BY <1>3 DEF RootDelete
  <2>2. CachedKeys(cache') \subseteq CachedKeys(cache)
    BY <1>1, <2>1 DEF CachedKeys, Types
  <2>. QED
    BY <1>1, <1>2, <1>3, <2>1, <2>2, CacheShrinks DEF Types
<1>4. CASE trunk[k].kind = "obj"
  <2>1. RootSetObj(k, trunk[k].val)
    BY <1>4
  <2>2. CASE k \in Cacheable
    BY <1>1, <1>2, <1>4, <2>1, <2>2, AddToCacheBounded DEF RootSetObj, Types
  <2>3. CASE k \notin Cacheable
    <3>1. cache' = cache /\ okv' = [okv EXCEPT ![k] = trunk[k].val]
      BY <2>1, <2>3 DEF RootSetObj
    <3>2. cache'[k] = None
      BY <2>3, <3>1 DEF Inv, CacheCoherent
    <3>. QED
      BY <1>1, <3>1, <3>2 DEF CacheBounded, CachedKeys, Types
  <2>. QED
    BY <2>2, <2>3
<1>5. CASE trunk[k].kind = "raw"
  <2>1. /\ okv' = [okv EXCEPT ![k] = trunk[k].val]
        /\ cache' = IF k \in Cacheable /\ cache[k] # None
                    THEN [cache EXCEPT ![k] = trunk[k].val] ELSE cache
    BY <1>5 DEF RootSet
  <2>2. CachedKeys(cache') \subseteq CachedKeys(cache)
    BY <1>1, <2>1 DEF CachedKeys, Types
  <2>. QED
    BY <1>1, <1>2, <1>5, <2>1, <2>2, CacheShrinks DEF Types, Inv, CacheCoherent
<1>. QED
  BY <1>2, <1>3, <1>4, <1>5

LEMMA WriteBackInv == ASSUME Inv, NEW k \in Keys, WriteBack(k) PROVE Inv'
<1>1. Types
  BY TypesEquiv DEF Inv
<1>2. /\ okv' = [okv EXCEPT ![k] = trunk[k].val]
      /\ cache' \in [Keys -> Vals \cup {None}]
      /\ cache'[k] # None => k \in Cacheable /\ cache'[k] = trunk[k].val
      /\ \A j \in Keys \ {k} : cache'[j] \in {cache[j], None}
      /\ CacheBounded'
  BY RootWrite
<1>3. phase = "write" /\ trunk[k] # Missed /\ trunk' = [trunk EXCEPT ![k] = Missed]
  BY DEF WriteBack
<1>4. UNCHANGED <<prepU, prepD, cacheBuf, phase, multi, open, ops, block, mine>>
  BY DEF WriteBack
<1>5. trunk[k].val \in Vals \cup {None}
  <2>1. trunk[k] \in Entries
    BY <1>1 DEF Types
  <2>. QED
    BY <2>1, EntryKinds
<1>6. Types'
  BY <1>1, <1>2, <1>3, <1>4, <1>5, EntryTypes DEF Types
<1>7. cacheBuf' = Nothing
  BY <1>3, <1>4 DEF Inv, PhaseOK
<1>8. CacheCoherent'
  <2>1. ASSUME NEW j \in Keys, cache'[j] # None PROVE j \in Cacheable /\ cache'[j] = okv'[j]
    BY <1>1, <1>2, <2>1 DEF Types, Inv, CacheCoherent
  <2>. QED
    BY <1>7, <2>1 DEF CacheCoherent, Nothing
<1>9. PhaseOK'
  BY <1>3, <1>4, <1>7 DEF Inv, PhaseOK, Nothing
<1>10. TxOK'
  BY <1>4 DEF Inv, TxOK
<1>11. PreparedOK'
  <2>1. ASSUME NEW j \in Keys PROVE trunk'[j] # NilValue /\ Announced(trunk[j], j)'
    BY <1>1, <1>3, <1>4, EntryFields DEF Types, Inv, PreparedOK, Announced
  <2>2. ASSUME NEW j \in Keys, NEW t \in Txs PROVE Announced(multi[t][j], j)'
    BY <1>4 DEF Inv, PreparedOK, Announced
  <2>. QED
    BY <2>1, <2>2 DEF PreparedOK
<1>12. BlockOK'
  BY <1>1, <1>2, <1>3, <1>4 DEF Types, Inv, BlockOK
<1>. QED
  BY <1>2, <1>6, <1>8, <1>9, <1>10, <1>11, <1>12, TypesEquivPrime DEF Inv

\* OnvaKV forgets what was announced; nothing waits for it any more.
LEMMA EndWriteInv == ASSUME Inv, EndWrite PROVE Inv'
<1>. USE DEF EndWrite
<1>1. Types'
  BY TypesEquiv, StoresAssumption DEF Inv, Types
<1>2. (CacheCoherent /\ CacheBounded /\ TxOK /\ BlockOK)'
  BY DEF Inv, CacheCoherent, CacheBounded, CachedKeys, TxOK, BlockOK
<1>3. open = {}
  BY DEF Inv, PhaseOK
<1>4. PhaseOK'
  BY <1>3 DEF PhaseOK, EmptyCache
<1>5. PreparedOK'
  <2>1. \A k \in Keys : trunk'[k] = Missed /\ \A t \in Txs : multi'[t][k] = Missed
    BY <1>3 DEF Inv, TxOK, EmptyCache
  <2>. QED
    BY <2>1, EntryFields DEF PreparedOK, Announced
<1>. QED
  BY <1>1, <1>2, <1>4, <1>5, TypesEquivPrime DEF Inv

-----------------------------------------------------------------------------
(* The theorems *)

LEMMA NextInv == Inv /\ [Next]_vars => Inv'
<1>. SUFFICES ASSUME Inv, [Next]_vars PROVE Inv'
  OBVIOUS
<1>1. CASE UNCHANGED vars
  <2>1. Types'
    BY <1>1, TypesEquiv DEF Inv, Types, vars, rootVars
  <2>2. (CacheCoherent /\ CacheBounded /\ PhaseOK /\ TxOK /\ PreparedOK /\ BlockOK)'
    BY <1>1 DEF Inv, CacheCoherent, CacheBounded, CachedKeys, PhaseOK, Nothing, EmptyCache,
                TxOK, PreparedOK, Announced, BlockOK, vars, rootVars
  <2>. QED
    BY <2>1, <2>2, TypesEquivPrime DEF Inv
<1>2. ASSUME NEW t \in Txs, TxStep(t) PROVE Inv'
  BY <1>2, CachedInv, CloseTxInv, DiscardTxInv, ClosePanicsInv, SetInv, DeleteInv, GetObjInv,
     GetReadOnlyObjInv DEF TxStep
<1>3. ASSUME NEW k \in Keys, MoveToCache(k) \/ WriteBack(k) PROVE Inv'
  BY <1>3, MoveToCacheInv, WriteBackInv
<1>. QED
  BY <1>1, <1>2, <1>3, NewTrunkInv, DiscardTrunkInv, BeginWriteInv, BufferMovedInv, EndWriteInv DEF Next

\* The invariant that the other theorems read off holds in every reachable state.
THEOREM Invariance == Spec => []Inv
<1>1. Init => Inv
  BY InitInv
<1>2. Inv /\ [Next]_vars => Inv'
  BY NextInv
<1>. QED
  BY <1>1, <1>2, PTL DEF Spec

\* The cache of RootStore and the objects that wait for BeginWrite agree with
\* OnvaKV at every step of every write-back, and the cache keeps to its limit
\* (root.go: addToCache, BeginWrite, Set, SetObj, Delete).
THEOREM CacheIsCoherent == Spec => []RootCacheCoherent
<1>1. Inv => RootCacheCoherent
  BY DEF Inv, RootCacheCoherent, CacheCoherent, CacheBounded, CachedKeys
<1>. QED
  BY <1>1, Invariance, PTL

\* The write-back of a trunk meets only entries that were announced, and no
\* object that was moved out (trunk.go: writeBack).
THEOREM WriteBackNeverStops == Spec => []TrunkCanBeWritten
<1>1. Inv => TrunkCanBeWritten
  BY DEF Inv, TrunkCanBeWritten, PreparedOK, Announced
<1>. QED
  BY <1>1, Invariance, PTL

\* Between blocks OnvaKV is what the closed transactions of all blocks made of
\* it (trunk.go: Close).
THEOREM BlocksAreCommitted == Spec => []BlockIsCommitted
<1>1. Inv => BlockIsCommitted
  <2>. SUFFICES ASSUME Inv, phase = "idle" PROVE okv = block
    BY DEF BlockIsCommitted
  <2>1. \A k \in Keys : block[k] = okv[k]
    BY DEF Inv, PhaseOK, BlockOK, EmptyCache
  <2>. QED
    BY <2>1, TypesEquiv DEF Inv, Types
<1>. QED
  BY <1>1, Invariance, PTL

\* Get and Has of an open transaction answer from its own last write, the
\* block's closed transactions or OnvaKV, whichever is latest, through every
\* layer and cache (multi.go, cache.go, trunk.go, root.go: Get, Has).
THEOREM TransactionsReadLatest == Spec => []ReadsSeeLatest
<1>1. ASSUME Inv, NEW t \in open, NEW k \in Keys, multi[t][k] # NilValue
      PROVE  MultiGet(t, k) = View(t)[k] /\ (MultiHas(t, k) <=> View(t)[k] # None)
  <2>1. Types /\ t \in Txs
    BY <1>1, TypesEquiv DEF Inv, Types
  <2>2. multi[t][k] = mine[t][k] /\ multi[t][k] \in Entries /\ trunk[k] \in Entries /\ trunk[k] # NilValue
    BY <1>1, <2>1 DEF Inv, TxOK, PreparedOK, Types
  <2>3. View(t)[k] = IF mine[t][k] = Missed THEN block[k] ELSE mine[t][k].val
    BY DEF View
  <2>4. RootGet(k) = okv[k] /\ (RootHas(k) <=> okv[k] # None)
    BY <1>1 DEF RootGet, RootHas, Inv, CacheCoherent
  <2>5. block[k] = IF trunk[k] = Missed THEN okv[k] ELSE trunk[k].val
    BY <1>1 DEF Inv, BlockOK
  <2>6. ASSUME NEW e \in Entries, e # NilValue, NEW cs, cs[k] = e, NEW g, NEW h \in BOOLEAN, h <=> g # None
        PROVE  /\ Layered(cs, k, g) = IF e = Missed THEN g ELSE e.val
               /\ LayeredHas(cs, k, h) <=> Layered(cs, k, g) # None
    <3>1. /\ e.kind \in {"missed", "deleted", "raw", "obj"}
          /\ e.kind = "missed" <=> e = Missed
          /\ e.kind = "deleted" => e.val = None
          /\ e.kind \in {"raw", "obj"} <=> e.val # None
      BY <2>6, EntryKinds
    <3>. QED
      BY <2>6, <3>1 DEF Layered, LayeredHas
  <2>7. TrunkGet(k) = block[k] /\ TrunkHas(k) \in BOOLEAN /\ (TrunkHas(k) <=> TrunkGet(k) # None)
    <3>1. RootHas(k) \in BOOLEAN /\ (RootHas(k) <=> RootGet(k) # None)
      BY <2>4 DEF RootHas
    <3>2. TrunkHas(k) \in BOOLEAN
      BY <3>1 DEF TrunkHas, LayeredHas
    <3>. QED
      BY <2>2, <2>4, <2>5, <2>6, <3>1, <3>2 DEF TrunkGet, TrunkHas
  <2>8. /\ MultiGet(t, k) = IF multi[t][k] = Missed THEN TrunkGet(k) ELSE multi[t][k].val
        /\ MultiHas(t, k) <=> MultiGet(t, k) # None
    BY <1>1, <2>2, <2>6, <2>7 DEF MultiGet, MultiHas
  <2>. QED
    BY <2>2, <2>3, <2>7, <2>8
<1>2. Inv => ReadsSeeLatest
  BY <1>1 DEF ReadsSeeLatest
<1>. QED
  BY <1>2, Invariance, PTL

=============================================================================
