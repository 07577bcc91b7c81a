---------------------------- MODULE MCEntryFile ----------------------------
(* Two entries with MagicBytes in their strings: one three times in the    *)
(* value, two overlapping, and from the end of NextKey into the height;    *)
(* one in all strings, and twice at the very end of NextKey.  (The dummy   *)
(* entries have none.)                                                     *)
EXTENDS EntryFile

BodyWith(k, v, n, h) == [key |-> k, value |-> v, nextKey |-> n, height |-> h, lastHeight |-> h - 1]

MCBodies ==
    {BodyWith(<<8, 9>>, MagicBytes \o Tail(MagicBytes) \o MagicBytes, <<FF, FF - 1, FF - 1>>, FF),
     BodyWith(MagicBytes, <<FF>> \o MagicBytes, <<5>> \o MagicBytes \o MagicBytes, 3)}
=============================================================================
