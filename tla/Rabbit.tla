------------------------------- MODULE Rabbit -------------------------------
(***************************************************************************)
(* RabbitStore (store/rabbit): a map on top of a TrunkStore in which a key *)
(* is stored under a short key, the first bytes of an iterated hash.  Keys *)
(* whose short keys collide are told apart by probing: Path[k] is the      *)
(* sequence of short keys that hashing k again and again yields, and every *)
(* slot counts the stored keys that were placed further down their path    *)
(* because the slot was taken (passbyNum).  A slot that is deleted while   *)
(* it is passed by stays behind as an empty slot.                          *)
(*                                                                         *)
(* One transaction at a time works on the trunk: a RabbitStore with a      *)
(* cache of the slots it touched, written back when it is closed.  A panic *)
(* ends the transaction without a write-back.                              *)
(***************************************************************************)
EXTENDS Integers, Sequences, FiniteSets, FiniteSetsExt

CONSTANTS
    Keys, Vals,
    Slots,          \* the short keys
    MaxFindDepth,   \* how often find probes before it panics
    Path,           \* Path[k][i] is the i-th short key of k (iterated sha256)
    NoKV,           \* an absent key, slot or cache entry
    Nil             \* the nil object that GetObj leaves behind

ASSUME PathAssumption ==
    /\ IsFiniteSet(Keys)
    /\ MaxFindDepth \in Nat \ {0}
    /\ Path \in [Keys -> [1..MaxFindDepth -> Slots]]

VARIABLES
    trunk,      \* the serialized slots in the TrunkStore; NoKV where there is none
    cache,      \* SimpleCacheStore.m; NoKV where a slot was not touched
    prepU,      \* slots given to PrepareForUpdate
    prepD,      \* slots given to PrepareForDeletion
    committed,  \* the map that the closed transactions have made
    view        \* the map as the open transaction has changed it

vars == <<trunk, cache, prepU, prepD, committed, view>>

Bytes == [isEmpty : BOOLEAN, passbyNum : Nat, key : Keys, value : Vals \cup {NoKV}]
CachedValue == [passbyNum : Nat, key : Keys, obj : Vals \cup {Nil}, isEmpty : BOOLEAN,
                isDeleted : BOOLEAN, isDirty : BOOLEAN]

(* An absent slot is not a slot, and an absent or moved-out object is not  *)
(* an object.                                                              *)
ASSUME AbsenceAssumption ==
    /\ NoKV \notin Bytes /\ NoKV \notin CachedValue
    /\ NoKV # Nil /\ NoKV \notin Vals /\ Nil \notin Vals

(* The value of an empty slot is not serialized. *)
ToBytes(cv) == [isEmpty |-> cv.isEmpty, passbyNum |-> cv.passbyNum, key |-> cv.key,
                value |-> IF cv.isEmpty THEN NoKV ELSE cv.obj]

BytesToCachedValue(bz) ==
    [passbyNum |-> bz.passbyNum, key |-> bz.key, obj |-> IF bz.isEmpty THEN Nil ELSE bz.value,
     isEmpty |-> bz.isEmpty, isDeleted |-> FALSE, isDirty |-> FALSE]

(* GetCachedValue: a slot that was just deleted is absent, a slot that is  *)
(* not in the cache is read from the trunk.                                *)
GetCachedValue(s) ==
    IF cache[s] # NoKV THEN IF cache[s].isDeleted THEN NoKV ELSE cache[s]
    ELSE IF trunk[s] # NoKV THEN BytesToCachedValue(trunk[s]) ELSE NoKV

(* The loop of find ends at an absent slot, at the slot of the key and,    *)
(* when it may exit early, at a slot that no key passes by.                *)
FindStops(k, i, earlyExit) ==
    LET cv == GetCachedValue(Path[k][i]) IN
    cv = NoKV \/ cv.key = k \/ (earlyExit /\ cv.passbyNum = 0)

FindPanics(k, earlyExit) == \A i \in 1..MaxFindDepth : ~FindStops(k, i, earlyExit)

FindDepth(k, earlyExit) == Min({i \in 1..MaxFindDepth : FindStops(k, i, earlyExit)})

FindSlot(k, earlyExit) == Path[k][FindDepth(k, earlyExit)]

FindStatus(k, earlyExit) ==
    LET cv == GetCachedValue(FindSlot(k, earlyExit)) IN
    IF cv = NoKV \/ cv.key # k THEN "NotFount"
    ELSE IF cv.isEmpty THEN "EmptySlot" ELSE "Exists"

(* The cache after find: the slots it read from the trunk are in it. *)
Filled(k, earlyExit) ==
    [s \in Slots |->
        IF cache[s] = NoKV /\ \E i \in 1..FindDepth(k, earlyExit) : Path[k][i] = s
        THEN GetCachedValue(s) ELSE cache[s]]

(* How often find passed by slot s on its way to depth n. *)
Passed(k, n, s) == Cardinality({i \in 1..(n - 1) : Path[k][i] = s})

\* Mutant: every slot before the last is counted, the ones already counted too.
AllPassedBy(k, n, status) == {Path[k][i] : i \in 1..(n - 1)}

(* The slots whose counters an insertion increments. *)
PassedBy(k, n, status) ==
    IF status = "Exists" THEN {} ELSE {Path[k][i] : i \in 1..(n - 1)}

\* Mutant: a slot that is still passed by is deleted.
AlwaysDeleted(cv) == [cv EXCEPT !.isDeleted = TRUE]

(* A deleted slot that is still passed by becomes an empty slot. *)
DeletedSlot(cv) ==
    [cv EXCEPT !.isDeleted = cv.passbyNum = 0, !.isEmpty = @ \/ cv.passbyNum > 0]

\* Mutant: a counter is decremented once too often.
OneTooMany(cv, n) == [cv EXCEPT !.passbyNum = @ - n - 1]
\* Mutant: an empty slot stays when nothing passes by it any more.
KeepsEmpty(cv, n) == [cv EXCEPT !.passbyNum = @ - n]

(* A slot that n fewer keys pass by; an empty one goes with the last. *)
PassedLess(cv, n) ==
    [cv EXCEPT !.passbyNum = @ - n, !.isDeleted = cv.passbyNum = n /\ cv.isEmpty]

\* Mutant: a deleted slot is prepared for an update only.
UpdatesOnly(c, T) ==
    /\ cache' = [s \in Slots |-> IF s \in T THEN [c[s] EXCEPT !.isDirty = TRUE] ELSE c[s]]
    /\ prepU' = prepU \cup T
    /\ UNCHANGED prepD

(* SetCachedValue for every slot of T: the slots become dirty and are      *)
(* prepared for a deletion or an update, as their isDeleted says.          *)
SetCachedValues(c, T) ==
    /\ cache' = [s \in Slots |-> IF s \in T THEN [c[s] EXCEPT !.isDirty = TRUE] ELSE c[s]]
    /\ prepD' = prepD \cup {s \in T : c[s].isDeleted}
    /\ prepU' = prepU \cup {s \in T : ~c[s].isDeleted}

Init ==
    /\ trunk = [s \in Slots |-> NoKV]
    /\ cache = [s \in Slots |-> NoKV]
    /\ prepU = {} /\ prepD = {}
    /\ committed = [k \in Keys |-> NoKV]
    /\ view = committed

(* Has, Get, GetReadOnlyObj and GetShortKeyPath only fill the cache.       *)
(* Reading an object that was moved out panics, so the client does not.    *)
Read(k) ==
    /\ ~FindPanics(k, TRUE) /\ view[k] # Nil
    /\ cache' = Filled(k, TRUE)
    /\ UNCHANGED <<trunk, prepU, prepD, committed, view>>

(* GetObj moves the object out of the cache.  It leaves isDirty alone. *)
GetObj(k) ==
    /\ ~FindPanics(k, TRUE) /\ view[k] # Nil
    /\ FindStatus(k, TRUE) = "Exists"
    /\ cache' = [Filled(k, TRUE) EXCEPT ![FindSlot(k, TRUE)].obj = Nil]
    /\ view' = [view EXCEPT ![k] = Nil]
    /\ UNCHANGED <<trunk, prepU, prepD, committed>>

(* Set and SetObj. *)
setHelper(k, v) ==
    LET n == FindDepth(k, FALSE)
        slot == FindSlot(k, FALSE)
        status == FindStatus(k, FALSE)
        c == Filled(k, FALSE)
        passby == PassedBy(k, n, status)
    IN
    /\ ~FindPanics(k, FALSE)
    /\ SetCachedValues(
          [s \in Slots |->
              CASE s = slot /\ status = "NotFount" ->
                       [passbyNum |-> 0, key |-> k, obj |-> v, isEmpty |-> FALSE,
                        isDeleted |-> FALSE, isDirty |-> TRUE]
                [] s = slot /\ status # "NotFount" -> [c[s] EXCEPT !.obj = v, !.isEmpty = FALSE]
                [] s \in passby \ {slot} -> [c[s] EXCEPT !.passbyNum = @ + Passed(k, n, s)]
                [] OTHER -> c[s]],
          {slot} \cup passby)
    /\ view' = [view EXCEPT ![k] = v]
    /\ UNCHANGED <<trunk, committed>>

Delete(k) ==
    LET n == FindDepth(k, TRUE)
        slot == FindSlot(k, TRUE)
        c == Filled(k, TRUE)
        passby == {Path[k][i] : i \in 1..(n - 1)}
    IN
    /\ ~FindPanics(k, TRUE)
    /\ IF FindStatus(k, TRUE) # "Exists"
       THEN cache' = c /\ UNCHANGED <<prepU, prepD>>
       ELSE SetCachedValues(
              [s \in Slots |->
                  CASE s = slot -> DeletedSlot(c[s])
                    [] s \in passby \ {slot} -> PassedLess(c[s], Passed(k, n, s))
                    [] OTHER -> c[s]],
              {slot} \cup passby)
    /\ view' = [view EXCEPT ![k] = NoKV]
    /\ UNCHANGED <<trunk, committed>>

(* ScanAllEntries panics on a dangling value; ToBytes, which it also calls *)
(* for deleted slots, panics on a nil object that is not marked empty.     *)
WriteBackPanics ==
    \E s \in Slots : cache[s] # NoKV /\ cache[s].obj = Nil /\ ~cache[s].isEmpty
                     /\ (cache[s].isDeleted => cache[s].isDirty)

EndOfTransaction ==
    /\ cache' = [s \in Slots |-> NoKV]
    /\ prepU' = {} /\ prepD' = {}

(* Close(true): the dirty slots go to the trunk. *)
CloseWriteBack ==
    /\ ~WriteBackPanics
    /\ trunk' = [s \in Slots |->
                    IF cache[s] = NoKV \/ ~cache[s].isDirty THEN trunk[s]
                    ELSE IF cache[s].isDeleted THEN NoKV ELSE ToBytes(cache[s])]
    /\ committed' = view
    /\ UNCHANGED view
    /\ EndOfTransaction

(* Close(false), or the end of a transaction by a panic. *)
Abandon ==
    /\ view' = committed
    /\ UNCHANGED <<trunk, committed>>
    /\ EndOfTransaction

Next ==
    \/ \E k \in Keys : Read(k) \/ GetObj(k) \/ Delete(k) \/ \E v \in Vals : setHelper(k, v)
    \/ CloseWriteBack
    \/ Abandon

Spec == Init /\ [][Next]_vars

-----------------------------------------------------------------------------
(* Slots, prepared slots and maps have their types. *)
TypeOK ==
    /\ trunk \in [Slots -> Bytes \cup {NoKV}]
    /\ cache \in [Slots -> CachedValue \cup {NoKV}]
    /\ prepU \subseteq Slots /\ prepD \subseteq Slots
    /\ committed \in [Keys -> Vals \cup {NoKV}]
    /\ view \in [Keys -> Vals \cup {NoKV, Nil}]

(* Probing finds exactly the keys that the transactions have stored, with  *)
(* their values, whatever other keys were put on or taken off their paths: *)
(* neither an early exit at a slot nobody passes by nor a hole left by a   *)
(* deletion hides a key (find, rabbit.go:91).                              *)
FindsTheMap ==
    \A k \in Keys :
        IF ~FindPanics(k, TRUE) /\ FindStatus(k, TRUE) = "Exists"
        THEN view[k] = GetCachedValue(FindSlot(k, TRUE)).obj
        ELSE view[k] = NoKV

(* The i-th probe for the stored key k goes on behind slot s. *)
PassesBy(k, i, s) ==
    /\ view[k] # NoKV /\ ~FindPanics(k, TRUE)
    /\ i < FindDepth(k, TRUE) /\ Path[k][i] = s

(* A slot is passed by as often as its counter says: setHelper increments  *)
(* and Delete decrements over paths found with different exit rules, in    *)
(* different transactions, and they balance for every slot.  An empty slot *)
(* is kept only as long as a stored key passes by it, so the slots that    *)
(* deletions leave behind do not pile up (Delete, rabbit.go:172).          *)
PassbyCounts ==
    /\ TypeOK
    /\ \A s \in Slots :
          LET cv == GetCachedValue(s) IN
          cv # NoKV =>
              /\ cv.passbyNum = Cardinality({p \in Keys \X (1..MaxFindDepth) : PassesBy(p[1], p[2], s)})
              /\ cv.isEmpty => cv.passbyNum > 0

(* Every slot that the write-back changes in the trunk was prepared for    *)
(* that very change, as the write phase of OnvaKV demands: a slot that is  *)
(* deleted and taken again in one transaction needs both.                  *)
WritesArePrepared ==
    \A s \in Slots :
        cache[s] # NoKV /\ cache[s].isDirty =>
            IF cache[s].isDeleted THEN s \in prepD ELSE s \in prepU
=============================================================================
