----------------------------- MODULE MCSettings -----------------------------
(* Finite instance of Settings for TLC: who is paid by another can afford  *)
(* the deposit of a broker.                                                *)
EXTENDS Settings

MCFunds == [a \in Account |-> 1]
=============================================================================
