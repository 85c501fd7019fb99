--------------------------- MODULE MCChainBridge ---------------------------
(* Finite instance of ChainBridge for TLC.                                 *)
EXTENDS ChainBridge, TLC

AccountSymmetry == Permutations(Account)
=============================================================================
