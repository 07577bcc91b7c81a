----------------------------- MODULE EntryFile -----------------------------
(***************************************************************************)
(* The entry file (datatree/entryfile.go): how an entry and the list of    *)
(* deactivated serial numbers become bytes, how they are read back, and    *)
(* how compaction moves the raw bytes of live entries from the oldest twig *)
(* to the end of the file (GetActiveEntriesInTwig, onvakv.go EndWrite).    *)
(*                                                                         *)
(* The file is modelled at half scale: a cell stands for two bytes.  A     *)
(* 32-bit field is two cells, a 64-bit one four, MagicBytes are four cells *)
(* with the shape of the eight bytes of the code (a palindrome, so that    *)
(* two occurrences may overlap), entries are aligned to four cells.  The   *)
(* header (one byte, three bytes) is one cell for each of its fields.      *)
(* Offsets count from 0, as in the code.                                   *)
(***************************************************************************)
EXTENDS Integers, Sequences, FiniteSets

CONSTANTS
    Base,               \* the number of values a cell can have
    Bodies,             \* the entries clients write, without their serial number
    LeafCountInTwig,
    StartReapThres, KeptEntriesToActiveEntriesRatio, DeactivedSNListMaxLen,
    ChanCap,            \* capacity of the channel of GetActiveEntriesInTwig
    MaxWritten,         \* bound on the number of entries up to which clients write
    MaxSN               \* bound on the number of entries

VARIABLES
    file,               \* the cells of the entry file
    maxSN,              \* meta.maxSerialNum
    active,             \* the serial numbers whose bit is set
    deactivedSNList,
    firstEntryPos,      \* twig -> Twig.FirstEntryPos
    oldest,             \* meta.oldestActiveTwigID
    reader,             \* the goroutine of GetActiveEntriesInTwig
    chan,               \* its channel
    log,                \* history: every entry appended, with its list and position
    live                \* history: how many entries with this body clients wrote and did not remove

vars == <<file, maxSN, active, deactivedSNList, firstEntryPos, oldest, reader, chan, log, live>>

-----------------------------------------------------------------------------
(* Integers in the file: little endian, two's complement *)

Cell == 0..Base - 1
FF == Base - 1
PutUint32(v) == <<v % Base, (v \div Base) % Base>>
PutUint64(v) ==
    LET second == v \div Base
        third == second \div Base
        fourth == third \div Base
    IN <<v % Base, second % Base, third % Base, fourth % Base>>
Uint32(c) == c[1] + Base * c[2]
Int64(c) ==
    LET fourth == IF 2 * c[4] < Base THEN c[4] ELSE c[4] - Base
    IN c[1] + Base * (c[2] + Base * (c[3] + Base * fourth))

MaxInt64 == Base * (Base * (Base * (Base \div 2))) - 1
Int64s == (-MaxInt64 - 1)..MaxInt64

MagicBytes == <<FF, FF - 1, FF - 1, FF>>
EndMark == <<FF, FF>>
MaxEntryBytes == Base - 1

\* b[from:to] of the code.
Slice(b, from, to) == SubSeq(b, from + 1, to)
Zeros(n) == [i \in 1..n |-> 0]
HasMagicAt(b, p) == p + 4 <= Len(b) /\ \A i \in 1..4 : b[p + i] = MagicBytes[i]

-----------------------------------------------------------------------------
(* Writing an entry *)

PutString(s) == PutUint32(Len(s)) \o s
Strings(e) == PutString(e.key) \o PutString(e.value) \o PutString(e.nextKey)
Numbers(e) == PutUint64(e.height) \o PutUint64(e.lastHeight) \o PutUint64(e.serialNum)

\* 64-bit and 32-bit numbers one behind the other.
SNListToBytes(l) == [i \in 1..4 * Len(l) |-> PutUint64(l[(i + 3) \div 4])[((i - 1) % 4) + 1]]
Words(ns) == [i \in 1..2 * Len(ns) |-> PutUint32(ns[(i + 1) \div 2])[((i - 1) % 2) + 1]]

Least(S) == CHOOSE m \in S : \A i \in S : m <= i

\* Mutant: only the first occurrence is looked for.
FirstPosOnly(s) ==
    LET found == {p \in 0..Len(s) - 4 : HasMagicAt(s, p)}
    IN IF found = {} THEN <<>> ELSE <<Least(found)>>

\* Where MagicBytes occur in s, one after the other without overlap; upTo[n] are those that
\* begin in the first n cells.  A last occurrence that is just as long as what is left to
\* search is not looked for.
getAllPos(s) ==
    LET upTo[n \in 0..Len(s)] ==
            IF n = 0 THEN <<>>
            ELSE LET found == upTo[n - 1]
                     start == IF found = <<>> THEN 0 ELSE found[Len(found)] + 4
                 IN IF start <= n - 1 /\ start + 4 < Len(s) /\ HasMagicAt(s, n - 1)
                    THEN Append(found, n - 1) ELSE found
    IN upTo[Len(s)]

Overwritten(b, pos, cells) ==
    [i \in 1..Len(b) |-> IF \E p \in pos : i \in p + 1..p + 4
                         THEN cells[i - (CHOOSE p \in pos : i \in p + 1..p + 4)]
                         ELSE b[i]]

Header(count, length) == <<count % Base, length % Base>>

\* The length in the header: the list of positions with its end, strings and numbers.
EntryLength(e) == 2 * Len(getAllPos(Strings(e))) + 2 + Len(Strings(e)) + 12

\* Occurrences of MagicBytes in the strings are replaced by zeros and listed in front.  In
\* the numbers behind the strings they are not looked for.
EntryToBytes(e, l) ==
    LET pos == getAllPos(Strings(e))
        added == 2 * Len(pos)
    IN Header(Len(l), EntryLength(e))
       \o Words([i \in 1..Len(pos) |-> pos[i] + added]) \o EndMark
       \o Overwritten(Strings(e), {pos[i] : i \in 1..Len(pos)}, Zeros(4))
       \o Numbers(e) \o SNListToBytes(l)

getPaddingSize(length) == (4 - (length % 4)) % 4

Body == [key : Seq(Cell), value : Seq(Cell), nextKey : Seq(Cell),
         height : Int64s, lastHeight : Int64s]

\* An entry is shorter than MaxEntryBytes (readMagicBytesAndLength would panic), the length
\* of the list fits its field, and compaction starts only when the oldest twig is full.
ASSUME EntryFileAssumption ==
    /\ Base \in Nat /\ Base % 2 = 0 /\ Base >= 64
    /\ Bodies \subseteq Body
    /\ \A b \in Bodies : EntryLength(b) < MaxEntryBytes
    /\ LeafCountInTwig \in Nat \ {0}
    /\ StartReapThres \in Nat /\ KeptEntriesToActiveEntriesRatio \in Nat
    /\ KeptEntriesToActiveEntriesRatio * (StartReapThres + 1) >= LeafCountInTwig
    /\ DeactivedSNListMaxLen \in Nat \ {0} /\ DeactivedSNListMaxLen + 3 < Base
    /\ ChanCap \in Nat \ {0}
    /\ MaxWritten \in Nat /\ MaxSN \in Nat /\ MaxWritten + 1 <= MaxSN /\ MaxSN <= MaxInt64

-----------------------------------------------------------------------------
(* Reading an entry *)

ReadAt(off, n) == Slice(file, off, off + n)

\* What readMagicBytesAndLength checks before it answers; it panics otherwise.
ValidAt(off) ==
    /\ off \in 0..Len(file) - 6
    /\ HasMagicAt(file, off)
    /\ file[off + 6] < MaxEntryBytes

NumberOfSN(off) == file[off + 5]
LengthAt(off) == file[off + 6]

\* Mutant: the padding is computed without MagicBytes and header.
PadsPayload(off, length) == off + length + 6 + getPaddingSize(length)
getNextPos(off, length) == off + length + 6 + getPaddingSize(length + 6)

NextPos(off) == getNextPos(off, LengthAt(off) + 4 * NumberOfSN(off))

\* Mutant: only the first occurrence is put back.
RecoversFirst(b) ==
    LET word(n) == Slice(b, 2 * n, 2 * n + 2)
        end == CHOOSE n \in 0..Len(b) \div 2 :
                   word(n) = EndMark /\ \A m \in 0..n - 1 : word(m) # EndMark
    IN [n |-> 2 * end + 2,
        b |-> Overwritten(b, {Uint32(word(m)) + 2 : m \in {0} \cap 0..end - 1}, MagicBytes)]

\* The offset of the payload, and b with the listed occurrences put back.
recoverMagicBytes(b) ==
    LET word(n) == Slice(b, 2 * n, 2 * n + 2)
        end == CHOOSE n \in 0..Len(b) \div 2 :
                   word(n) = EndMark /\ \A m \in 0..n - 1 : word(m) # EndMark
    IN [n |-> 2 * end + 2,
        b |-> Overwritten(b, {Uint32(word(m)) + 2 : m \in 0..end - 1}, MagicBytes)]

EntryFromBytes(b, n) ==
    LET keyLen == Uint32(b)
        v == 2 + keyLen
        valueLen == Uint32(Slice(b, v, v + 2))
        k == v + 2 + valueLen
        nextLen == Uint32(Slice(b, k, k + 2))
        i == k + 2 + nextLen
        int(j) == Int64(Slice(b, i + 4 * j, i + 4 * j + 4))
    IN [entry |-> [key |-> Slice(b, 2, v), value |-> Slice(b, v + 2, k),
                   nextKey |-> Slice(b, k + 2, i),
                   height |-> int(0), lastHeight |-> int(1), serialNum |-> int(2)],
        list |-> [j \in 1..n |-> int(2 + j)]]

readEntry(off, withSNList) ==
    LET n == IF withSNList THEN NumberOfSN(off) ELSE 0
        r == recoverMagicBytes(ReadAt(off + 6, LengthAt(off) + 4 * n))
    IN EntryFromBytes(Slice(r.b, r.n, Len(r.b)), n)

ReadEntryAndSNList(off) == readEntry(off, TRUE)
ReadEntry(off) == readEntry(off, FALSE).entry

ReadEntryRawBytes(off) == ReadAt(off + 4, 2 + LengthAt(off))

ExtractKeyFromRawBytes(raw) ==
    LET r == recoverMagicBytes(Slice(raw, 2, Len(raw)))
        length == Uint32(Slice(r.b, r.n, r.n + 2))
    IN Slice(r.b, r.n + 2, r.n + 2 + length)

ExtractSerialNum(raw) == Int64(Slice(raw, Len(raw) - 4, Len(raw)))

UpdateSerialNum(raw, sn) == Slice(raw, 0, Len(raw) - 4) \o PutUint64(sn)

-----------------------------------------------------------------------------
(* The data tree above the file.  d holds what an append or a deactivation *)
(* changes.                                                                *)

Data == [file |-> file, maxSN |-> maxSN, active |-> active, list |-> deactivedSNList,
         first |-> firstEntryPos, log |-> log]

\* Tree.appendEntry and EntryFile.Append of the two parts of b; record is what was meant.
appendEntry(d, b, record) ==
    LET sn == d.maxSN
        pos == Len(d.file)
        twig == sn \div LeafCountInTwig
        padding == getPaddingSize(Len(b[1]) + Len(b[2]))
    IN [d EXCEPT !.file = @ \o MagicBytes \o b[1] \o b[2] \o Zeros(padding),
                 !.maxSN = sn + 1, !.active = @ \cup {sn}, !.list = <<>>,
                 !.first = IF sn % LeafCountInTwig = 0
                           THEN [t \in DOMAIN @ \cup {twig} |-> IF t = twig THEN pos ELSE @[t]]
                           ELSE @,
                 !.log = Append(@, [entry |-> record, list |-> d.list, pos |-> pos])]

WithSN(body, sn) ==
    [key |-> body.key, value |-> body.value, nextKey |-> body.nextKey,
     height |-> body.height, lastHeight |-> body.lastHeight, serialNum |-> sn]

AppendEntry(d, body) ==
    LET e == WithSN(body, d.maxSN)
    IN appendEntry(d, <<EntryToBytes(e, d.list), <<>>>>, e)

\* Mutant: the count of the list the entry carried before is kept.
KeepsCount(d, raw, body) ==
    appendEntry(d, <<raw, SNListToBytes(d.list)>>, WithSN(body, d.maxSN))

AppendEntryRawBytes(d, raw, body) ==
    appendEntry(d, <<<<Len(d.list) % Base>> \o Tail(raw), SNListToBytes(d.list)>>,
                WithSN(body, d.maxSN))

DummyBody == [key |-> <<1, 2>>, value |-> <<1, 2>>, nextKey |-> <<1, 2>>,
              height |-> -2, lastHeight |-> -2]

ClearBit(d, sn) == [d EXCEPT !.active = @ \ {sn}, !.list = Append(@, sn)]

\* OnvaKV.DeactiviateEntry: a full list is written out with a dummy entry.
DeactiviateEntry(d, sn) ==
    LET c == ClearBit(d, sn)
    IN IF Len(c.list) > DeactivedSNListMaxLen
       THEN ClearBit(AppendEntry(c, DummyBody), d.maxSN)
       ELSE c

Becomes(d) ==
    /\ file' = d.file /\ maxSN' = d.maxSN /\ active' = d.active
    /\ deactivedSNList' = d.list /\ firstEntryPos' = d.first /\ log' = d.log

-----------------------------------------------------------------------------
NoReader == [running |-> FALSE, open |-> FALSE, i |-> 0, start |-> 0, panicked |-> FALSE]

Init ==
    /\ file = <<>> /\ maxSN = 0 /\ active = {} /\ deactivedSNList = <<>>
    /\ firstEntryPos = <<>> /\ oldest = 0
    /\ reader = NoReader /\ chan = <<>>
    /\ log = <<>> /\ live = [b \in Bodies |-> 0]

HasRoom == maxSN < MaxWritten         \* bound

BodyOf(e) == [key |-> e.key, value |-> e.value, nextKey |-> e.nextKey,
              height |-> e.height, lastHeight |-> e.lastHeight]

\* OnvaKV.update: a key is inserted,
Insert(body) ==
    /\ ~reader.running /\ HasRoom
    /\ Becomes(AppendEntry(Data, body))
    /\ live' = [live EXCEPT ![body] = @ + 1]
    /\ UNCHANGED <<oldest, reader, chan>>

\* ... or deleted,
Delete(sn) ==
    /\ ~reader.running /\ HasRoom
    /\ Becomes(DeactiviateEntry(Data, sn))
    /\ live' = [live EXCEPT ![BodyOf(log[sn + 1].entry)] = @ - 1]
    /\ UNCHANGED <<oldest, reader, chan>>

\* ... or its entry is replaced.
Change(sn, body) ==
    /\ ~reader.running /\ HasRoom
    /\ Becomes(AppendEntry(DeactiviateEntry(Data, sn), body))
    /\ live' = [[live EXCEPT ![BodyOf(log[sn + 1].entry)] = @ - 1] EXCEPT ![body] = @ + 1]
    /\ UNCHANGED <<oldest, reader, chan>>

NumOfKeptEntries == maxSN - oldest * LeafCountInTwig

\* OnvaKV.EndWrite: the condition of the loop, and the start of the goroutine.
GetActiveEntriesInTwig ==
    /\ ~reader.running
    /\ NumOfKeptEntries > Cardinality(active) * KeptEntriesToActiveEntriesRatio
    /\ Cardinality(active) > StartReapThres
    /\ maxSN + LeafCountInTwig + 1 <= MaxSN     \* bound: a dummy entry may be written too
    /\ reader' = [running |-> TRUE, open |-> TRUE, i |-> 0, start |-> firstEntryPos[oldest],
                  panicked |-> FALSE]
    /\ UNCHANGED <<file, maxSN, active, deactivedSNList, firstEntryPos, oldest, chan, log, live>>

CurrentSN == oldest * LeafCountInTwig + reader.i

\* Mutant: an inactive entry is stepped over without its list.
SkipsWithoutList(off) == getNextPos(off, LengthAt(off))
SkipInactive(off) == NextPos(off)

\* One iteration of the goroutine: an active entry is sent, another skipped.
ReaderStep ==
    /\ reader.running /\ reader.open /\ reader.i < LeafCountInTwig /\ ~reader.panicked
    /\ IF ~ValidAt(reader.start)
       THEN reader' = [reader EXCEPT !.panicked = TRUE] /\ UNCHANGED chan
       ELSE IF CurrentSN \in active
       THEN /\ Len(chan) < ChanCap
            /\ chan' = Append(chan, ReadEntryRawBytes(reader.start))
            /\ reader' = [reader EXCEPT !.i = @ + 1, !.start = NextPos(@)]
       ELSE /\ reader' = [reader EXCEPT !.i = @ + 1, !.start = SkipInactive(@)]
            /\ UNCHANGED chan
    /\ UNCHANGED <<file, maxSN, active, deactivedSNList, firstEntryPos, oldest, log, live>>

CloseChan ==
    /\ reader.running /\ reader.open /\ reader.i = LeafCountInTwig
    /\ reader' = [reader EXCEPT !.open = FALSE]
    /\ UNCHANGED <<file, maxSN, active, deactivedSNList, firstEntryPos, oldest, chan, log, live>>

\* The body of EndWrite's loop over the channel.
MoveEntry ==
    /\ reader.running /\ chan # <<>>
    /\ LET raw == Head(chan)
           sn == ExtractSerialNum(raw)
           d == DeactiviateEntry(Data, sn)
       IN Becomes(AppendEntryRawBytes(d, UpdateSerialNum(raw, d.maxSN), BodyOf(log[sn + 1].entry)))
    /\ chan' = Tail(chan)
    /\ UNCHANGED <<oldest, reader, live>>

\* Mutant: the twig is evicted as soon as the goroutine has ended.
EvictsWhenRead ==
    /\ reader.running /\ ~reader.open
    /\ active' = active \ (oldest * LeafCountInTwig..(oldest + 1) * LeafCountInTwig - 1)
    /\ oldest' = oldest + 1 /\ reader' = NoReader /\ chan' = <<>>
    /\ UNCHANGED <<file, maxSN, deactivedSNList, firstEntryPos, log, live>>

EvictTwig ==
    /\ reader.running /\ ~reader.open /\ chan = <<>>
    /\ active' = active \ (oldest * LeafCountInTwig..(oldest + 1) * LeafCountInTwig - 1)
    /\ oldest' = oldest + 1 /\ reader' = NoReader
    /\ UNCHANGED <<file, maxSN, deactivedSNList, firstEntryPos, chan, log, live>>

Next ==
    \/ \E body \in Bodies : Insert(body)
    \/ \E sn \in active : Delete(sn)
    \/ \E sn \in active, body \in Bodies : Change(sn, body)
    \/ GetActiveEntriesInTwig
    \/ ReaderStep
    \/ CloseChan
    \/ MoveEntry
    \/ EvictTwig

Spec == Init /\ [][Next]_vars

-----------------------------------------------------------------------------
(* Properties *)

\* Every number is in its range, the list is never longer than the code allows
\* and the goroutine of compaction never meets a place that is no entry
\* (readMagicBytesAndLength would panic).
TypeOK ==
    /\ file \in Seq(Cell) /\ Len(file) % 4 = 0
    /\ maxSN \in 0..MaxSN /\ active \subseteq 0..maxSN - 1
    /\ deactivedSNList \in Seq(0..maxSN - 1)
    /\ Len(deactivedSNList) <= DeactivedSNListMaxLen
    /\ oldest \in Nat /\ live \in [Bodies -> Nat]
    /\ Len(chan) <= ChanCap
    /\ ~reader.panicked

\* Whatever the strings hold and however often compaction has moved the raw
\* bytes, every position of the file still reads as the entry and the list that
\* were appended there (ReadEntryAndSNList, ReadEntry, the raw extractors).
ReadsBack ==
    \A i \in 1..Len(log) :
        LET r == log[i]
            raw == ReadEntryRawBytes(r.pos)
        IN /\ ReadEntryAndSNList(r.pos) = [entry |-> r.entry, list |-> r.list]
           /\ ReadEntry(r.pos) = r.entry
           /\ ExtractKeyFromRawBytes(raw) = r.entry.key
           /\ ExtractSerialNum(raw) = i - 1

\* A scan of the file rebuilds the leaves.  Following nextPos from the start visits every
\* entry in order and ends at the size of the file (ScanEntries), and every twig's
\* FirstEntryPos is the position of its first entry.  EntryToBytes of what is read, which
\* RecoverEntry hashes, is what appendEntry hashed, the bytes in the file, also for entries
\* that were appended as raw bytes with a list behind them.
LeavesAreRecovered ==
    LET pos(i) == IF i > Len(log) THEN Len(file) ELSE log[i].pos
    IN /\ pos(1) = 0
       /\ \A i \in 1..Len(log) :
             LET length == 2 + LengthAt(pos(i)) + 4 * NumberOfSN(pos(i))
             IN /\ ValidAt(pos(i)) /\ NextPos(pos(i)) = pos(i + 1)
                /\ EntryToBytes(log[i].entry, log[i].list) = ReadAt(pos(i) + 4, length)
       /\ \A t \in DOMAIN firstEntryPos : firstEntryPos[t] = log[t * LeafCountInTwig + 1].pos

\* Compaction neither loses nor doubles an entry, with the goroutine that reads
\* the bits running ahead of the loop that clears them: the entries that are
\* active in the file are those that were written and not deleted.
CompactionKeepsEntries ==
    /\ TypeOK
    /\ \A sn \in active : BodyOf(ReadEntry(log[sn + 1].pos)) \in Bodies
    /\ \A b \in Bodies :
          Cardinality({sn \in active : BodyOf(ReadEntry(log[sn + 1].pos)) = b}) = live[b]

\* A place of the file that reads MagicBytes is the start of an entry, so that a
\* damaged file can be re-synchronised; the one exception is the end of NextKey,
\* where getAllPos does not look for an occurrence that follows another or
\* reaches into the height.
MagicOnlyAtEntries ==
    \A p \in 0..Len(file) - 4 : HasMagicAt(file, p) =>
        \E i \in 1..Len(log) :
            LET r == log[i]
                endOfNextKey == NextPos(r.pos) - 12 - 4 * Len(r.list)
                                - getPaddingSize(LengthAt(r.pos) + 6 + 4 * Len(r.list))
            IN p = r.pos \/ p \in endOfNextKey - 4..endOfNextKey - 1
=============================================================================
