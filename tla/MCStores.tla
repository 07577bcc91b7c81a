------------------------------ MODULE MCStores ------------------------------
(* Two substores with prefixes 1 and 2, and two interchangeable transactions. *)
EXTENDS Stores, TLC

MCKeys == {<<1, 1>>, <<1, 2>>, <<2, 1>>}
MCCacheable == {<<1, 1>>, <<2, 1>>}
Sym == Permutations(Txs)
=============================================================================
