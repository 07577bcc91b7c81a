---------------------------- MODULE MCMerkleTree ----------------------------
(* Small instances of MerkleTree for TLC. *)
EXTENDS MerkleTree
=============================================================================
