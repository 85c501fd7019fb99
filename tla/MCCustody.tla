----------------------------- MODULE MCCustody -----------------------------
(* Finite instance of Custody for TLC: one user holds the base token, the  *)
(* others the quote token.                                                 *)
EXTENDS Custody

CONSTANTS Seller, Funds

MCEndowment ==
  [t \in {Base, Quote} |-> [u \in User |->
     IF (t = Base) = (u = Seller) THEN Funds ELSE 0]]
=============================================================================
