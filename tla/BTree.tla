------------------------------- MODULE BTree -------------------------------
(***************************************************************************)
(* The B+tree of package store/b (package indextree/b has a copy of it):   *)
(* the ordered map behind CacheStore.  The pages, which the code links     *)
(* with pointers and takes from pools, are a table from page numbers to    *)
(* pages; 0 is the nil pointer.  Indices into pages count from 0 as in the *)
(* code.  One Enumerator is open while the tree changes.                   *)
(***************************************************************************)
EXTENDS Integers, Sequences, FiniteSets, SequencesExt, FiniteSetsExt

CONSTANTS
    Keys,           \* positive integers, for their order
    ValsOf(_),      \* the values that are stored under a key
    kd, kx,         \* half the capacity of a data page and of an index page
    MaxPages,       \* bound of the model: page numbers
    MaxEnumLen,     \* bound of the model: items in the tree while an Enumerator is open
    EOF             \* the end of an enumeration

ASSUME PageSizes == kd >= 1 /\ kx >= 2

VARIABLES
    t,      \* the Tree: root r, first and last data page, count c, version ver, pages pg
    e,      \* the Enumerator: its error, hit, i, k, q, and whether e.ver = t.ver (fresh)
    asc,    \* whether its user calls Next, as ForwardIter does, or Prev, as BackwardIter does
    last,   \* the key of the last item it returned, EOF at first
    final,  \* whether that item was the last one on its way when it was returned
    kv      \* the map that the operations have made

vars == <<t, e, asc, last, final, kv>>

Free == [d |-> <<>>]
D(d, n, p) == [d |-> d, n |-> n, p |-> p]       \* a data page and its neighbours
X(k, ch) == [k |-> k, ch |-> ch]                \* an index page: Ch0 Sep0 ... Chn
Item(k, v) == [k |-> k, v |-> v]
IsX(pg) == "ch" \in DOMAIN pg
Alloc(tr) == Min({p \in 1..MaxPages : tr.pg[p] = Free})
Changed(tr) == [tr EXCEPT !.ver = @ + 1]

EmptyTree == [r |-> 0, first |-> 0, last |-> 0, c |-> 0, ver |-> 0,
              pg |-> [p \in 1..MaxPages |-> Free]]
Closed == [err |-> TRUE, hit |-> FALSE, i |-> 0, k |-> EOF, q |-> 0, fresh |-> TRUE]

Init == t = EmptyTree /\ e = Closed /\ asc = TRUE /\ last = EOF /\ final = FALSE /\ kv = <<>>

KeysOf(pg) == IF IsX(pg) THEN pg.k ELSE [i \in DOMAIN pg.d |-> pg.d[i].k]

(* find: the position of k among the keys of a page, and whether it is     *)
(* there.  The binary search finds how many keys are smaller.              *)
Find(pg, k) ==
    LET ks == KeysOf(pg) IN
    [i |-> Cardinality({j \in DOMAIN ks : ks[j] < k}), ok |-> \E j \in DOMAIN ks : ks[j] = k]

(* The child to follow: the right one of an equal separator. *)
ChildIndex(pg, k) == LET f == Find(pg, k) IN IF f.ok THEN f.i + 1 ELSE f.i

RECURSIVE LeafFrom(_, _, _)
LeafFrom(tr, q, k) ==
    IF IsX(tr.pg[q]) THEN LeafFrom(tr, tr.pg[q].ch[ChildIndex(tr.pg[q], k) + 1], k) ELSE q

Get(tr, k) ==
    IF tr.r = 0 THEN EOF
    ELSE LET pg == tr.pg[LeafFrom(tr, tr.r, k)]
             f == Find(pg, k)
         IN IF f.ok THEN pg.d[f.i + 1].v ELSE EOF

-----------------------------------------------------------------------------
(* Pages. *)

(* x.insert *)
XInsert(pg, i, k, ch) == X(InsertAt(pg.k, i + 1, k), InsertAt(pg.ch, i + 2, ch))
(* x.extract and the assignment after it: separator i and child i + 1 go. *)
XExtract(pg, i) == X(RemoveAt(pg.k, i + 1), RemoveAt(pg.ch, i + 2))

SiblingL(pg, pi) == IF pi > 0 THEN pg.ch[pi] ELSE 0
SiblingR(pg, pi) == IF pi >= 0 /\ pi < Len(pg.k) THEN pg.ch[pi + 2] ELSE 0
Count(tr, q) == Len(KeysOf(tr.pg[q]))

\* Mutant: an insertion leaves the version of the tree as it is.
SilentInsert(tr, q, i, k, v) ==
    [tr EXCEPT !.pg[q].d = InsertAt(@, i + 1, Item(k, v)), !.c = @ + 1]
\* Mutant: an insertion is not counted.
UncountedInsert(tr, q, i, k, v) == [Changed(tr) EXCEPT !.pg[q].d = InsertAt(@, i + 1, Item(k, v))]

(* insert into and extract from a data page *)
Insert(tr, q, i, k, v) ==
    [Changed(tr) EXCEPT !.pg[q].d = InsertAt(@, i + 1, Item(k, v)), !.c = @ + 1]
Extract(tr, q, i) ==
    [Changed(tr) EXCEPT !.pg[q].d = RemoveAt(@, i + 1), !.c = @ - 1]

(* mvL: the first n items of r to the end of l; mvR: the last n of l to    *)
(* the front of r.                                                         *)
MvL(tr, l, r, n) ==
    [tr EXCEPT !.pg[l].d = @ \o SubSeq(tr.pg[r].d, 1, n),
               !.pg[r].d = SubSeq(@, n + 1, Len(@))]
MvR(tr, l, r, n) ==
    LET c == Len(tr.pg[l].d) IN
    [tr EXCEPT !.pg[r].d = SubSeq(tr.pg[l].d, c - n + 1, c) \o @,
               !.pg[l].d = SubSeq(@, 1, c - n)]
FirstKey(tr, q) == tr.pg[q].d[1].k

-----------------------------------------------------------------------------
(* Set and Put. *)

(* The new page r takes the upper half of q and is linked in after it. *)
Split(tr, p, q, pi, i, k, v) ==
    LET r == Alloc(tr)
        nn == tr.pg[q].n
        t1 == [Changed(tr) EXCEPT !.pg[r] = D(SubSeq(tr.pg[q].d, kd + 1, 2 * kd), nn, q),
                                  !.pg[q].d = SubSeq(@, 1, kd),
                                  !.pg[q].n = r]
        t2 == IF nn = 0 THEN [t1 EXCEPT !.last = r] ELSE [t1 EXCEPT !.pg[nn].p = r]
        t3 == IF i > kd THEN Insert(t2, r, i - kd, k, v) ELSE t2
        sep == FirstKey(t3, r)
        root == Alloc(t3)
        t4 == IF pi >= 0 THEN [t3 EXCEPT !.pg[p] = XInsert(@, pi, sep, r)]
              ELSE [t3 EXCEPT !.pg[root] = X(<<sep>>, <<q, r>>), !.r = root]
    IN IF i > kd THEN t4 ELSE Insert(t4, q, i, k, v)

(* A full page gives an item to a sibling that has room, or is split. *)
Overflow(tr, p, q, pi, i, k, v) ==
    LET l == IF pi < 0 THEN 0 ELSE SiblingL(tr.pg[p], pi)
        r == IF pi < 0 THEN 0 ELSE SiblingR(tr.pg[p], pi)
        t0 == Changed(tr)
    IN
    IF l # 0 /\ Count(tr, l) < 2 * kd /\ i # 0
    THEN LET t1 == Insert(MvL(t0, l, q, 1), q, i - 1, k, v)
         IN [t1 EXCEPT !.pg[p].k[pi] = FirstKey(t1, q)]
    ELSE IF r # 0 /\ Count(tr, r) < 2 * kd
    THEN IF i < 2 * kd
         THEN LET t1 == Insert(MvR(t0, q, r, 1), q, i, k, v)
              IN [t1 EXCEPT !.pg[p].k[pi + 1] = FirstKey(t1, r)]
         ELSE [Insert(t0, r, 0, k, v) EXCEPT !.pg[p].k[pi + 1] = k]
    ELSE Split(t0, p, q, pi, i, k, v)

(* splitX halves an index page on the way down; it yields the tree, the    *)
(* half to go on in, and the index there.                                  *)
SplitX(tr, p, q, pi, i) ==
    LET r == Alloc(tr)
        old == tr.pg[q]
        t1 == [Changed(tr) EXCEPT
                  !.pg[q] = X(SubSeq(old.k, 1, kx), SubSeq(old.ch, 1, kx + 1)),
                  !.pg[r] = X(SubSeq(old.k, kx + 2, 2 * kx + 1), SubSeq(old.ch, kx + 2, 2 * kx + 2))]
        root == Alloc(t1)
        t2 == IF pi >= 0 THEN [t1 EXCEPT !.pg[p] = XInsert(@, pi, old.k[kx + 1], r)]
              ELSE [t1 EXCEPT !.pg[root] = X(<<old.k[kx + 1]>>, <<q, r>>), !.r = root]
    IN IF i > kx THEN [tr |-> t2, q |-> r, i |-> i - kx - 1] ELSE [tr |-> t2, q |-> q, i |-> i]

(* The descent of Set and of Put.  Put, as CacheStore.GetObj uses it,      *)
(* writes only where the key exists, but splits index pages all the same.  *)
RECURSIVE SetFrom(_, _, _, _, _, _, _)
SetFrom(tr, p, q, pi, k, v, create) ==
    LET pg == tr.pg[q]
        f == Find(pg, k)
    IN
    IF IsX(pg)
    THEN LET s == IF Len(pg.k) > 2 * kx THEN SplitX(tr, p, q, pi, ChildIndex(pg, k))
                  ELSE [tr |-> tr, q |-> q, i |-> ChildIndex(pg, k)]
         IN SetFrom(s.tr, s.q, s.tr.pg[s.q].ch[s.i + 1], s.i, k, v, create)
    ELSE IF f.ok THEN [tr EXCEPT !.pg[q].d[f.i + 1].v = v]
    ELSE IF ~create THEN tr
    ELSE IF Len(pg.d) < 2 * kd THEN Insert(tr, q, f.i, k, v)
    ELSE Overflow(tr, p, q, pi, f.i, k, v)

SetIn(tr, k, v, create) ==
    IF tr.r # 0 THEN SetFrom(tr, 0, tr.r, -1, k, v, create)
    ELSE IF create
    THEN LET z == Alloc(tr) IN
         Insert([tr EXCEPT !.r = z, !.first = z, !.last = z, !.pg[z] = D(<<>>, 0, 0)], z, 0, k, v)
    ELSE tr

-----------------------------------------------------------------------------
(* Delete. *)

(* Page r is appended to q; separator pi and r leave their parent, and a   *)
(* parent left with one child, which is the root, gives way to it.         *)
DropRight(tr, p, q, r, pi) ==
    IF Len(tr.pg[p].k) > 1
    THEN [tr EXCEPT !.pg[r] = Free, !.pg[p] = XExtract(@, pi)]
    ELSE [tr EXCEPT !.pg[r] = Free, !.pg[p] = Free, !.r = q]

\* Mutant: the page behind the joined ones still points to the freed one.
CatKeepsBackLink(tr, p, q, r, pi) ==
    LET nn == tr.pg[r].n
        t1 == [MvL(Changed(tr), q, r, Count(tr, r)) EXCEPT !.pg[q].n = nn]
    IN DropRight(IF nn = 0 THEN [t1 EXCEPT !.last = q] ELSE t1, p, q, r, pi)

Cat(tr, p, q, r, pi) ==
    LET nn == tr.pg[r].n
        t1 == [MvL(Changed(tr), q, r, Count(tr, r)) EXCEPT !.pg[q].n = nn]
        t2 == IF nn = 0 THEN [t1 EXCEPT !.last = q] ELSE [t1 EXCEPT !.pg[nn].p = q]
    IN DropRight(t2, p, q, r, pi)

CatX(tr, p, q, r, pi) ==
    LET t1 == [Changed(tr) EXCEPT
                  !.pg[q] = X(@.k \o <<tr.pg[p].k[pi + 1]>> \o tr.pg[r].k, @.ch \o tr.pg[r].ch)]
    IN DropRight(t1, p, q, r, pi)

Underflow(tr, p, q, pi) ==
    LET l == SiblingL(tr.pg[p], pi)
        r == SiblingR(tr.pg[p], pi)
        t0 == Changed(tr)
    IN
    IF l # 0 /\ Count(tr, l) + Count(tr, q) >= 2 * kd
    THEN LET t1 == MvR(t0, l, q, 1) IN [t1 EXCEPT !.pg[p].k[pi] = FirstKey(t1, q)]
    ELSE IF r # 0 /\ Count(tr, q) + Count(tr, r) >= 2 * kd
    THEN LET t1 == MvL(t0, q, r, 1) IN [t1 EXCEPT !.pg[p].k[pi + 1] = FirstKey(t1, r)]
    ELSE IF l # 0 THEN Cat(t0, p, l, q, pi - 1) ELSE Cat(t0, p, q, r, pi)

(* underflowX fills up an index page on the way down, from a sibling or by *)
(* joining it with one.                                                    *)
UnderflowX(tr, p, q, pi, i) ==
    LET l == SiblingL(tr.pg[p], pi)
        r == SiblingR(tr.pg[p], pi)
        t0 == Changed(tr)
        P == tr.pg[p]
    IN
    IF l # 0 /\ Count(tr, l) > kx
    THEN [tr |-> [t0 EXCEPT !.pg[q] = X(<<P.k[pi]>> \o @.k, <<Last(tr.pg[l].ch)>> \o @.ch),
                            !.pg[l] = X(Front(@.k), Front(@.ch)),
                            !.pg[p].k[pi] = Last(tr.pg[l].k)],
          q |-> q, i |-> i + 1]
    ELSE IF r # 0 /\ Count(tr, r) > kx
    THEN [tr |-> [t0 EXCEPT !.pg[q] = X(Append(@.k, P.k[pi + 1]), Append(@.ch, tr.pg[r].ch[1])),
                            !.pg[r] = X(Tail(@.k), Tail(@.ch)),
                            !.pg[p].k[pi + 1] = tr.pg[r].k[1]],
          q |-> q, i |-> i]
    ELSE IF l # 0
    THEN [tr |-> CatX(t0, p, l, q, pi - 1), q |-> l, i |-> i + Count(tr, l) + 1]
    ELSE [tr |-> CatX(t0, p, q, r, pi), q |-> q, i |-> i]

RECURSIVE DeleteFrom(_, _, _, _, _)
DeleteFrom(tr, p, q, pi, k) ==
    LET pg == tr.pg[q]
        f == Find(pg, k)
    IN
    IF IsX(pg)
    THEN LET s == IF Len(pg.k) < kx /\ q # tr.r THEN UnderflowX(tr, p, q, pi, f.i)
                  ELSE [tr |-> tr, q |-> q, i |-> f.i]
             ci == IF f.ok THEN s.i + 1 ELSE s.i
         IN DeleteFrom(s.tr, s.q, s.tr.pg[s.q].ch[ci + 1], ci, k)
    ELSE IF ~f.ok THEN tr
    ELSE LET t1 == Extract(tr, q, f.i) IN
         CASE Len(t1.pg[q].d) >= kd -> t1
           [] Len(t1.pg[q].d) < kd /\ q # t1.r -> Underflow(t1, p, q, pi)
           [] t1.c = 0 -> [EmptyTree EXCEPT !.ver = t1.ver + 1]        \* Clear
           [] OTHER -> t1

DeleteIn(tr, k) == IF tr.r = 0 THEN tr ELSE DeleteFrom(tr, 0, tr.r, -1, k)

-----------------------------------------------------------------------------
(* The Enumerator. *)

SeekIn(tr, k) ==
    IF tr.r = 0 THEN [Closed EXCEPT !.err = FALSE, !.k = k]
    ELSE LET q == LeafFrom(tr, tr.r, k)
             f == Find(tr.pg[q], k)
         IN [err |-> FALSE, hit |-> f.ok, i |-> f.i, k |-> k, q |-> q, fresh |-> TRUE]

(* next and prev, the steps to the neighbouring item *)
StepNext(tr, en) ==
    CASE en.i < Len(tr.pg[en.q].d) - 1 -> [en EXCEPT !.i = @ + 1]
      [] tr.pg[en.q].n # 0 -> [en EXCEPT !.q = tr.pg[en.q].n, !.i = 0]
      [] OTHER -> [en EXCEPT !.q = 0, !.i = 0, !.err = TRUE]
StepPrev(tr, en) ==
    LET pp == tr.pg[en.q].p IN
    CASE en.i > 0 -> [en EXCEPT !.i = @ - 1]
      [] pp # 0 -> [en EXCEPT !.q = pp, !.i = Len(tr.pg[pp].d) - 1]
      [] OTHER -> [en EXCEPT !.q = 0, !.err = TRUE]

(* After the tree has changed, Next and Prev look their last key up again. *)
Resync(tr, en) == IF en.fresh THEN en ELSE SeekIn(tr, en.k)

(* The item at the position, and the Enumerator moved on, up or down. *)
Return(tr, en, up) ==
    IF en.err THEN [en |-> en, k |-> EOF]
    ELSE LET k == tr.pg[en.q].d[en.i + 1].k
             e1 == [en EXCEPT !.k = k, !.hit = TRUE]
         IN [en |-> IF up THEN StepNext(tr, e1) ELSE StepPrev(tr, e1), k |-> k]

NextIn(tr, en) ==
    LET e1 == Resync(tr, en) IN
    IF en.err \/ e1.q = 0 THEN [en |-> [e1 EXCEPT !.err = TRUE], k |-> EOF]
    ELSE Return(tr, IF e1.i >= Len(tr.pg[e1.q].d) THEN StepNext(tr, e1) ELSE e1, TRUE)

\* Mutant: Prev starts at the item Seek overshot to.
PrevTakesOvershoot(tr, en) ==
    LET e1 == Resync(tr, en) IN
    IF en.err \/ e1.q = 0 THEN [en |-> [e1 EXCEPT !.err = TRUE], k |-> EOF]
    ELSE Return(tr, IF e1.i >= Len(tr.pg[e1.q].d) THEN StepPrev(tr, e1) ELSE e1, FALSE)

(* Seek overshoots if there is no hit. *)
PrevIn(tr, en) ==
    LET e1 == Resync(tr, en)
        e2 == IF e1.q = 0 \/ e1.hit THEN e1 ELSE StepPrev(tr, e1)
        e3 == IF e2.q # 0 /\ e2.i >= Len(tr.pg[e2.q].d) THEN StepPrev(tr, e2) ELSE e2
    IN IF en.err \/ e1.q = 0 THEN [en |-> [e1 EXCEPT !.err = TRUE], k |-> EOF]
       ELSE Return(tr, e3, FALSE)

-----------------------------------------------------------------------------
(* Page numbers are only names: pages are numbered in the order in which   *)
(* the tree is walked, unreachable ones last.                              *)
RECURSIVE Walk(_, _)
Walk(tr, q) ==
    <<q>> \o IF IsX(tr.pg[q]) THEN FlattenSeq([i \in DOMAIN tr.pg[q].ch |-> Walk(tr, tr.pg[q].ch[i])])
             ELSE <<>>
Renumbered(tr) ==
    LET seen == IF tr.r = 0 THEN <<>> ELSE Walk(tr, tr.r)
        order == seen \o SetToSeq({q \in 1..MaxPages : tr.pg[q] # Free} \ ToSet(seen))
        num(q) == CASE q = 0 -> 0
                    [] q \in ToSet(order) -> CHOOSE i \in DOMAIN order : order[i] = q
                    [] OTHER -> MaxPages + 1        \* a pointer to a page in the pool
        page(pg) == IF IsX(pg) THEN X(pg.k, [i \in DOMAIN pg.ch |-> num(pg.ch[i])])
                    ELSE D(pg.d, num(pg.n), num(pg.p))
    IN [tr EXCEPT !.ver = 0, !.r = num(@), !.first = num(@), !.last = num(@),
                  !.pg = [i \in 1..MaxPages |-> IF i \in DOMAIN order THEN page(tr.pg[order[i]]) ELSE Free]]

(* The Enumerator has returned io.EOF, or none is open.  The error alone   *)
(* does not say so: it is set with the return of the last item.            *)
Ended == e.err /\ last = EOF

(* The operations.  Only the equality of the versions counts; the position *)
(* of an Enumerator that is not fresh is not used again, nor is anything   *)
(* but the error of one that has it, nor the direction of one that has     *)
(* ended.                                                                  *)
Changes(tr) ==
    /\ t' = IF tr.ver = t.ver THEN tr ELSE Renumbered(tr)
    /\ e' = IF tr.ver = t.ver \/ e.err THEN e
            ELSE [e EXCEPT !.fresh = FALSE, !.q = 0, !.i = 0, !.hit = FALSE]
    /\ asc' = (asc \/ Ended) /\ UNCHANGED <<last, final>>

Set(k, v) ==
    /\ Ended \/ k \in DOMAIN kv \/ t.c < MaxEnumLen
    /\ Changes(SetIn(t, k, v, TRUE))
    /\ kv' = [j \in DOMAIN kv \cup {k} |-> IF j = k THEN v ELSE kv[j]]

Put(k, v) ==
    /\ Changes(SetIn(t, k, v, FALSE))
    /\ kv' = [j \in DOMAIN kv |-> IF j = k THEN v ELSE kv[j]]

Delete(k) ==
    /\ Changes(DeleteIn(t, k))
    /\ kv' = [j \in DOMAIN kv \ {k} |-> kv[j]]

Open(en) ==
    /\ t.c <= MaxEnumLen
    /\ e' = en /\ last' = EOF /\ final' = FALSE /\ asc' \in BOOLEAN
    /\ UNCHANGED <<t, kv>>
Seek(k) == Open(SeekIn(t, k))
SeekFirst ==
    /\ t.first # 0
    /\ Open([err |-> FALSE, hit |-> TRUE, i |-> 0, k |-> FirstKey(t, t.first), q |-> t.first,
             fresh |-> TRUE])
SeekLast ==
    LET d == t.pg[t.last].d IN
    /\ t.last # 0
    /\ Open([err |-> FALSE, hit |-> TRUE, i |-> Len(d) - 1, k |-> d[Len(d)].k, q |-> t.last,
             fresh |-> TRUE])

(* The items that are still to come, on the way up or down from key k. *)
Beyond(k) == {j \in DOMAIN kv : IF asc THEN j > k ELSE j < k}

(* A call of Next or Prev.  Of an Enumerator with an error only the error  *)
(* is used again: the next call returns it and looks no key up.            *)
Returns(n) ==
    /\ ~Ended
    /\ e' = IF n.en.err THEN Closed ELSE n.en
    /\ last' = n.k
    /\ final' = (n.k # EOF /\ Beyond(n.k) = {})
    /\ UNCHANGED <<t, asc, kv>>
EnumNext == asc /\ Returns(NextIn(t, e))
EnumPrev == ~asc /\ Returns(PrevIn(t, e))

Next ==
    \/ \E k \in Keys : Seek(k) \/ Delete(k) \/ \E v \in ValsOf(k) : Set(k, v) \/ Put(k, v)
    \/ SeekFirst \/ SeekLast \/ EnumNext \/ EnumPrev

Spec == Init /\ [][Next]_vars

-----------------------------------------------------------------------------
RECURSIVE LeavesUnder(_)
LeavesUnder(q) ==
    IF IsX(t.pg[q]) THEN FlattenSeq([i \in DOMAIN t.pg[q].ch |-> LeavesUnder(t.pg[q].ch[i])])
    ELSE <<q>>
Leaves == IF t.r = 0 THEN <<>> ELSE LeavesUnder(t.r)
ItemsIn(leaves) == FlattenSeq([i \in DOMAIN leaves |-> t.pg[leaves[i]].d])

RECURSIVE Pages(_)
Pages(q) == {q} \cup IF IsX(t.pg[q]) THEN UNION {Pages(t.pg[q].ch[i]) : i \in DOMAIN t.pg[q].ch}
                     ELSE {}

(* The pages form a search tree: separators separate, no page is over- or underfull beyond    *)
(* what the descents repair, no page is lost or used twice, and the links  *)
(* between data pages, first and last agree with the tree (split, cat).    *)
SearchTree ==
    LET ls == Leaves IN
    /\ \A q \in IF t.r = 0 THEN {} ELSE Pages(t.r) :
          LET n == Len(KeysOf(t.pg[q])) IN
          IF IsX(t.pg[q])
          THEN /\ Len(t.pg[q].ch) = n + 1 /\ n <= 2 * kx + 1 /\ n >= (IF q = t.r THEN 1 ELSE kx - 1)
               /\ \A i \in 1..n :
                     /\ \A it \in Range(ItemsIn(LeavesUnder(t.pg[q].ch[i]))) : it.k < t.pg[q].k[i]
                     /\ \A it \in Range(ItemsIn(LeavesUnder(t.pg[q].ch[i + 1]))) : it.k >= t.pg[q].k[i]
          ELSE n <= 2 * kd /\ n >= (IF q = t.r THEN 1 ELSE kd)
    /\ {q \in 1..MaxPages : t.pg[q] # Free} = IF t.r = 0 THEN {} ELSE Pages(t.r)
    /\ \A i \in DOMAIN ls :
          /\ t.pg[ls[i]].p = IF i = 1 THEN 0 ELSE ls[i - 1]
          /\ t.pg[ls[i]].n = IF i = Len(ls) THEN 0 ELSE ls[i + 1]
    /\ t.first = IF ls = <<>> THEN 0 ELSE ls[1]
    /\ t.last = IF ls = <<>> THEN 0 ELSE ls[Len(ls)]

(* After every sequence of insertions and deletions the pages form a       *)
(* search tree that holds exactly the items that were set and not deleted, *)
(* in order, counts them, and finds each of them (Get, Len).               *)
ImplementsMap ==
    LET its == ItemsIn(Leaves) IN
    /\ SearchTree
    /\ \A i \in 1..(Len(its) - 1) : its[i].k < its[i + 1].k
    /\ {<<it.k, it.v>> : it \in Range(its)} = {<<k, kv[k]>> : k \in DOMAIN kv}
    /\ t.c = Cardinality(DOMAIN kv)
    /\ \A k \in Keys : Get(t, k) = IF k \in DOMAIN kv THEN kv[k] ELSE EOF

(* From wherever it is positioned, an Enumerator of an unchanged tree      *)
(* visits every item after the position, or every item before it, once and *)
(* in order (Seek, Next, Prev); a Seek without a hit overshoots for Next   *)
(* and is taken back by Prev.                                              *)
RECURSIVE Visits(_, _, _)
Visits(en, in(_, _), n) ==
    LET r == in(t, en) IN IF r.k = EOF \/ n = 0 THEN <<>> ELSE <<r.k>> \o Visits(r.en, in, n - 1)
EnumeratesInOrder ==
    LET visits(k, up) == IF up THEN Visits(SeekIn(t, k), NextIn, t.c + 1)
                          ELSE Visits(SeekIn(t, k), PrevIn, t.c + 1)
        upto == [i \in 1..Max(Keys) |-> i]
    IN \A k \in Keys :
          /\ visits(k, TRUE) = SelectSeq(upto, LAMBDA j : j \in DOMAIN kv /\ j >= k)
          /\ visits(k, FALSE) = SelectSeq(Reverse(upto), LAMBDA j : j \in DOMAIN kv /\ j <= k)

(* An Enumerator that is used while the tree changes under it, its page    *)
(* split, joined or recycled, leaves no item out: Next and Prev return the *)
(* item after the last one they returned, or that item again, and io.EOF   *)
(* comes only when no item is left on the way.  There is one exception,    *)
(* which is the code's and not its doc's: with the last item of the tree   *)
(* the error is set already, and an item that is inserted behind it before *)
(* the next call is left out (next, prev).                                 *)
NeverSkips ==
    [][(EnumNext \/ EnumPrev) /\ last # EOF =>
          IF last' = EOF THEN final \/ Beyond(last) = {}
          ELSE /\ last' \in {last} \cup Beyond(last)
               /\ \A k \in Beyond(last) : k = last' \/ k \in Beyond(last')]_vars
=============================================================================
