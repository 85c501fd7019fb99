----------------------------- MODULE MCStaking -----------------------------
(* Finite instance of Staking for TLC.                                     *)
EXTENDS Staking
=============================================================================
