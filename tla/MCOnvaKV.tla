------------------------------ MODULE MCOnvaKV ------------------------------
(* Small instances of OnvaKV for TLC. *)
EXTENDS OnvaKVInv

MCKeys2 == {1, 2}
MCKeys3 == {1, 2, 3}
=============================================================================
