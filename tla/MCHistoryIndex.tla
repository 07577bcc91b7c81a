--------------------------- MODULE MCHistoryIndex ---------------------------
(* A key, a longer one that begins with it, and one that ends in 255.      *)
(* Positions grow: those of a block are new.                               *)
EXTENDS HistoryIndex

MCKeys == {<<2>>, <<2, 7>>, <<3, 255>>}
MCPositionsAt(h) == {h}
=============================================================================
