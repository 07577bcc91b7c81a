------------------------------- MODULE HPFile -------------------------------
(***************************************************************************)
(* The head-prunable file (datatree/hpfile.go): one long byte sequence     *)
(* kept in segment files of BlockSize bytes, with a buffer for appends and *)
(* a window of bytes read ahead.  EntryFile and TwigMtFile are such files. *)
(*                                                                         *)
(* A byte is represented by the position it was appended at, plus one; the *)
(* padding at the head of a segment is 0.  A slice of bytes that lies      *)
(* across the end of a segment is kept whole in the segment it starts in,  *)
(* and the next segment begins with padding of the same length.            *)
(***************************************************************************)
EXTENDS Integers, Sequences

CONSTANTS
    BufferSize, BlockSize, PreReadBufSize,
    SliceLists,         \* the calls of Append: sequences of lengths of slices
    MaxSize             \* bound on the size of the file

\* Sums(lens)[n] is the length of the first n slices of a call.
Sums(lens) ==
    LET sum[n \in 0..Len(lens)] == IF n = 0 THEN 0 ELSE sum[n - 1] + lens[n]
    IN  sum
SumOf(lens) == Sums(lens)[Len(lens)]

\* A call has something to write, and is no longer than a segment; a slice that is longer
\* than the buffer, or padding that is, makes Append panic.
ASSUME HPFileAssumption ==
    /\ BufferSize \in Nat \ {0} /\ BlockSize \in Nat \ {0} /\ BlockSize % BufferSize = 0
    /\ PreReadBufSize \in Nat \ {0}
    /\ MaxSize \in Nat
    /\ \A lens \in SliceLists :
          /\ lens \in Seq(Nat)
          /\ SumOf(lens) > 0 /\ SumOf(lens) <= BlockSize /\ SumOf(lens) <= BufferSize + 1
          /\ \A i \in 1..Len(lens) : lens[i] <= BufferSize

VARIABLES
    files,          \* fileMap: segment number -> the bytes on disk
    largestID, latestFileSize,
    writeOffset,    \* the offset of the latest segment's file handle
    buffer,
    locked,         \* mtx is held by the goroutine of FlushAsync
    preReader,      \* the window of readAtWithBuf
    readPanic,      \* readAtWithBuf has panicked
    truncated,      \* history: Truncate has been called since the file was opened
    slices,         \* history: the appended slices, [start, len]
    prunedTo        \* history: the greatest offset given to PruneHead

vars == <<files, largestID, latestFileSize, writeOffset, buffer, locked, preReader, readPanic,
          truncated, slices, prunedTo>>
fileVars == <<files, largestID, latestFileSize, writeOffset, buffer>>

Init ==
    /\ files = [id \in {0} |-> <<>>]
    /\ largestID = 0 /\ latestFileSize = 0 /\ writeOffset = 0
    /\ buffer = <<>>
    /\ locked = FALSE
    /\ preReader = [fileID |-> -1, start |-> 0, end |-> 0, buf |-> <<>>]
    /\ readPanic = FALSE /\ truncated = FALSE
    /\ slices = {}
    /\ prunedTo = 0

-----------------------------------------------------------------------------
(* Writing *)

Size == largestID * BlockSize + latestFileSize

\* os.File.Write at an offset.
WriteAt(file, off, bytes) ==
    [i \in 1..(IF off + Len(bytes) > Len(file) THEN off + Len(bytes) ELSE Len(file)) |->
        IF i > off /\ i <= off + Len(bytes) THEN bytes[i - off]
        ELSE IF i <= Len(file) THEN file[i] ELSE 0]

\* The latest segment, while Append works on it.
Latest == [file |-> files[largestID], off |-> writeOffset, buffer |-> buffer,
           size |-> latestFileSize]

Flushed(st) ==
    [st EXCEPT !.file = WriteAt(st.file, st.off, st.buffer),
               !.off = @ + Len(st.buffer),
               !.buffer = <<>>]

\* Mutant: the slice is not split where the buffer is full.
AppendSliceUnsplit(st, bytes) ==
    [st EXCEPT !.buffer = @ \o bytes, !.size = @ + Len(bytes)]

\* Mutant: the size is increased after the part that fills the buffer has been cut off.
AppendSliceUncounted(st, bytes) ==
    LET room == BufferSize - Len(st.buffer)
    IN  IF Len(bytes) > room
        THEN [Flushed([st EXCEPT !.buffer = @ \o SubSeq(bytes, 1, room)])
                EXCEPT !.buffer = SubSeq(bytes, room + 1, Len(bytes)),
                       !.size = @ + Len(bytes) - room]
        ELSE [st EXCEPT !.buffer = @ \o bytes, !.size = @ + Len(bytes)]

\* One slice: a buffer that is too small is filled up, written and started again.
AppendSlice(st, bytes) ==
    LET room == BufferSize - Len(st.buffer)
    IN  IF Len(bytes) > room
        THEN [Flushed([st EXCEPT !.buffer = @ \o SubSeq(bytes, 1, room)])
                EXCEPT !.buffer = SubSeq(bytes, room + 1, Len(bytes)),
                       !.size = @ + Len(bytes)]
        ELSE [st EXCEPT !.buffer = @ \o bytes, !.size = @ + Len(bytes)]

\* The bytes of the slices of one call, each one its position plus one.
BytesOf(lens) ==
    [i \in 1..Len(lens) |->
        [j \in 1..lens[i] |-> Size + Sums(lens)[i - 1] + j]]

\* The loop of Append: the latest segment after the first n slices.
AppendLoop(lens) ==
    LET st[n \in 0..Len(lens)] ==
            IF n = 0 THEN Latest ELSE AppendSlice(st[n - 1], BytesOf(lens)[n])
    IN  st

\* The segment is full: it is flushed and another one begins, padded by what has overflowed.
NewSegment(st) ==
    /\ files' = [id \in DOMAIN files \cup {largestID + 1} |->
                    IF id = largestID THEN Flushed(st).file
                    ELSE IF id = largestID + 1 THEN <<>> ELSE files[id]]
    /\ largestID' = largestID + 1
    /\ latestFileSize' = st.size - BlockSize
    /\ writeOffset' = 0
    /\ buffer' = [i \in 1..(st.size - BlockSize) |-> 0]

SameSegment(st) ==
    /\ files' = [files EXCEPT ![largestID] = st.file]
    /\ latestFileSize' = st.size
    /\ writeOffset' = st.off
    /\ buffer' = st.buffer
    /\ UNCHANGED largestID

AppendSlices(lens) ==
    LET st == AppendLoop(lens)[Len(lens)]
    IN  /\ ~locked
        /\ largestID * BlockSize + st.size <= MaxSize
        /\ IF st.size >= BlockSize THEN NewSegment(st) ELSE SameSegment(st)
        /\ slices' = slices \cup {[start |-> Size, len |-> SumOf(lens)]}
        /\ UNCHANGED <<locked, preReader, readPanic, truncated, prunedTo>>

Flush ==
    /\ ~locked
    /\ SameSegment(Flushed(Latest))
    /\ UNCHANGED <<locked, preReader, readPanic, truncated, slices, prunedTo>>

\* FlushAsync takes the lock; its goroutine flushes and releases it.
FlushAsync ==
    /\ ~locked
    /\ locked' = TRUE
    /\ UNCHANGED <<fileVars, preReader, readPanic, truncated, slices, prunedTo>>

FlushAsyncDone ==
    /\ locked
    /\ SameSegment(Flushed(Latest))
    /\ locked' = FALSE
    /\ UNCHANGED <<preReader, readPanic, truncated, slices, prunedTo>>

-----------------------------------------------------------------------------
(* Reading *)

FileID(off) == off \div BlockSize
Pos(off) == off % BlockSize

\* os.File.ReadAt: as many of the n bytes as the file has.
FileRead(id, pos, n) ==
    SubSeq(files[id], pos + 1, IF pos + n <= Len(files[id]) THEN pos + n ELSE Len(files[id]))

CanTryRead(pr, id, start, n) == id = pr.fileID /\ pr.start <= start /\ start + n < pr.end

\* Mutant: the end of the window is not moved back at the end of the file.
FillPreReaderNoEOF(id, pos) ==
    [fileID |-> id, start |-> pos, end |-> pos + PreReadBufSize,
     buf |-> FileRead(id, pos, PreReadBufSize)]

FillPreReader(id, pos) ==
    LET part == FileRead(id, pos, PreReadBufSize)
    IN  [fileID |-> id, start |-> pos, end |-> pos + Len(part), buf |-> part]

\* readAtWithBuf, when the window does not have the bytes and is filled anew.  The panic is
\* "Cannot read data just fetched".
ReadAtWithBuf(off, n) ==
    LET id == FileID(off)
        pos == Pos(off)
        filled == FillPreReader(id, pos)
    IN  /\ ~locked
        /\ id \in DOMAIN files
        /\ ~CanTryRead(preReader, id, pos, n)
        /\ n < PreReadBufSize /\ pos + n <= BlockSize
        /\ preReader' = filled
        /\ readPanic' = ~CanTryRead(filled, id, pos, n)
        /\ UNCHANGED <<fileVars, locked, truncated, slices, prunedTo>>

-----------------------------------------------------------------------------
(* Cutting *)

\* PruneHead does not take the lock.
PruneHead(off) ==
    /\ files' = [id \in {i \in DOMAIN files : i >= FileID(off)} |-> files[id]]
    /\ prunedTo' = off
    /\ UNCHANGED <<largestID, latestFileSize, writeOffset, buffer, locked, preReader,
                   readPanic, truncated, slices>>

\* The segments behind the new end go; the one that is cut is opened again, at offset 0.
\* The buffer is left alone.
Truncate(size) ==
    LET id == FileID(size)
    IN  /\ ~locked
        /\ files' = [i \in {j \in DOMAIN files : j <= id} |->
                        IF i = id THEN SubSeq(files[i], 1, Pos(size)) ELSE files[i]]
        /\ largestID' = id
        /\ latestFileSize' = Pos(size)
        /\ writeOffset' = 0
        /\ slices' = {s \in slices : s.start < size}
        /\ truncated' = TRUE
        /\ UNCHANGED <<buffer, locked, preReader, readPanic, prunedTo>>

\* Mutant: writing starts at the head of the latest segment.
ReopenAtHead ==
    /\ ~locked /\ buffer = <<>>
    /\ latestFileSize' = Len(files[largestID])
    /\ writeOffset' = 0
    /\ preReader' = [fileID |-> -1, start |-> 0, end |-> 0, buf |-> <<>>]
    /\ truncated' = FALSE
    /\ UNCHANGED <<files, largestID, buffer, locked, readPanic, slices, prunedTo>>

\* Close after Flush, and NewHPFile on the same directory: it seeks the end of the latest
\* segment.
Reopen ==
    /\ ~locked /\ buffer = <<>>
    /\ latestFileSize' = Len(files[largestID])
    /\ writeOffset' = Len(files[largestID])
    /\ preReader' = [fileID |-> -1, start |-> 0, end |-> 0, buf |-> <<>>]
    /\ truncated' = FALSE
    /\ UNCHANGED <<files, largestID, buffer, locked, readPanic, slices, prunedTo>>

-----------------------------------------------------------------------------
(* The caller prunes and truncates at the start of a slice that was written, *)
(* and reads slices that it has not pruned.  It truncates a flushed file, and *)
(* opens it again before it appends: Truncate leaves the handle at offset 0.  *)
(* (Nothing but a test truncates; it does so in this order.)                  *)

Kept == {s \in slices : s.start >= prunedTo}
\* ReadAt gives all of the slice.
OnDisk(s) ==
    FileID(s.start) \in DOMAIN files /\ Pos(s.start) + s.len <= Len(files[FileID(s.start)])

Next ==
    /\ ~readPanic
    /\ \/ \E lens \in SliceLists : ~truncated /\ AppendSlices(lens)
       \/ Flush \/ FlushAsync \/ FlushAsyncDone
       \/ \E s \in Kept : OnDisk(s) /\ ReadAtWithBuf(s.start, s.len)
       \/ \E s \in Kept : PruneHead(s.start)
       \/ \E s \in Kept : buffer = <<>> /\ Truncate(s.start)
       \/ Reopen

Spec == Init /\ [][Next]_vars

-----------------------------------------------------------------------------
(* Properties *)

\* Type correctness, and that the buffer never outgrows its capacity.
TypeOK ==
    /\ \A id \in DOMAIN files : id \in 0..largestID /\ files[id] \in Seq(Nat)
    /\ largestID \in DOMAIN files
    /\ latestFileSize \in 0..(BlockSize - 1)
    /\ writeOffset \in Nat
    /\ buffer \in Seq(Nat) /\ Len(buffer) <= BufferSize
    /\ {locked, readPanic, truncated} \subseteq BOOLEAN

\* Every byte of every slice that has not been pruned is in its segment or, at the right
\* place behind it, in the buffer, and the next slice begins where the last one ends: nothing
\* is lost or misplaced by buffering, by the change of segments, by pruning, by truncating or
\* by opening the file again.
NothingLost ==
    /\ TypeOK
    /\ \A s \in Kept : \A i \in 0..(s.len - 1) :
          LET id == FileID(s.start)
              at == Pos(s.start) + i + 1
          IN  /\ id \in DOMAIN files
              /\ \/ at <= Len(files[id]) /\ files[id][at] = s.start + i + 1
                 \/ /\ id = largestID
                    /\ at - Len(files[id]) \in DOMAIN buffer
                    /\ buffer[at - Len(files[id])] = s.start + i + 1
    /\ \A s \in slices : s.start + s.len <= Size
    /\ slices # {} => \E s \in slices : s.start + s.len = Size

\* The window never goes stale: a slice that TryRead takes from it is the slice that was
\* appended, whatever has been appended, pruned or cut since the window was filled.
WindowIsCurrent ==
    \A s \in Kept :
        CanTryRead(preReader, FileID(s.start), Pos(s.start), s.len) =>
            \A j \in 1..s.len :
                LET i == Pos(s.start) - preReader.start + j
                IN  i \in DOMAIN preReader.buf /\ preReader.buf[i] = s.start + j
=============================================================================
