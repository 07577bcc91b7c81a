------------------------------ MODULE MCHPFile ------------------------------
(* Small instances of HPFile for TLC. *)
EXTENDS HPFile

MCSliceLists == {<<1>>, <<1, 0, 1>>, <<2, 1>>}
=============================================================================
