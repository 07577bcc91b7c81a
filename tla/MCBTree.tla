------------------------------ MODULE MCBTree ------------------------------
(* The smallest pages.  Values differ from key to key, so that an item in  *)
(* the wrong place shows, and one key has two, to be overwritten.          *)
EXTENDS BTree

MCKeys == 1..8
MCValsOf(k) == IF k = 4 THEN {k, -k} ELSE {k}
=============================================================================
