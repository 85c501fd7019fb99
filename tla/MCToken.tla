------------------------------ MODULE MCToken -------------------------------
(* Finite instance of Token for TLC: one account holds Funds of the native *)
(* token, the others a single unit.                                        *)
EXTENDS Token

CONSTANTS Rich, Funds

MCEndowment == [a \in Account |-> IF a = Rich THEN Funds ELSE 1]
=============================================================================
