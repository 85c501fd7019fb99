----------------------------- MODULE MCReward ------------------------------
(* Finite instance of Reward for TLC.                                      *)
EXTENDS Reward, TLC

TraderSymmetry == Permutations(Trader)
=============================================================================
