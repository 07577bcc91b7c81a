----------------------------- MODULE KVBlockSpec -----------------------------
(***************************************************************************)
(* What OnvaKV promises to the layer above it: a map from keys to values   *)
(* that changes once per block, by exactly the writes requested in that    *)
(* block.  The caller requests writes with Set and Delete; CommitBlock     *)
(* applies the last request made for every key, all at once.               *)
(***************************************************************************)
CONSTANTS Keys, Values, NoValue, NoOp

VARIABLES
    store,      \* the committed map; NoValue stands for an absent key
    batch       \* the last request per key in this block: a value, NoValue (delete) or NoOp

specVars == <<store, batch>>

SpecInit ==
    /\ store = [k \in Keys |-> NoValue]
    /\ batch = [k \in Keys |-> NoOp]

SpecSet(k, v) ==
    /\ batch' = [batch EXCEPT ![k] = v]
    /\ UNCHANGED store

SpecDelete(k) ==
    /\ batch' = [batch EXCEPT ![k] = NoValue]
    /\ UNCHANGED store

SpecCommitBlock ==
    /\ store' = [k \in Keys |-> IF batch[k] = NoOp THEN store[k] ELSE batch[k]]
    /\ batch' = [k \in Keys |-> NoOp]

SpecNext ==
    \/ \E k \in Keys, v \in Values : SpecSet(k, v)
    \/ \E k \in Keys : SpecDelete(k)
    \/ SpecCommitBlock

SpecKV == SpecInit /\ [][SpecNext]_specVars
=============================================================================
