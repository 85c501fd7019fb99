------------------------------ MODULE Balances ------------------------------
(***************************************************************************)
(* What the pallets around the exchange share: accounts, and the free      *)
(* balance of native tokens that pallet_balances (external) keeps of each. *)
(* Every module that extends this one says what its pallet does with them, *)
(* and names its specification after itself (AgentInit, AgentNext, ..), so *)
(* that one module of proofs can extend several.                           *)
(***************************************************************************)
EXTENDS Integers

CONSTANT Account
VARIABLE free

(* An account that pays its last unit is removed by frame_system           *)
(* (external), its nonce with it, unless something of it is reserved: that *)
(* is left open here.  When it is paid again it starts with nonce 0.       *)
Emptied(a, paid) == paid > 0 /\ paid = free[a]
=============================================================================
