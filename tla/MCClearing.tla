----------------------------- MODULE MCClearing -----------------------------
(* Finite instance of Clearing for TLC: every user is funded alike.        *)
EXTENDS Clearing, TLC

CONSTANTS BaseFunds, QuoteFunds

MCFunds == [u \in User |-> [t \in {Base, Quote} |->
              IF t = Base THEN BaseFunds ELSE QuoteFunds]]
Alike == Permutations(User)
=============================================================================
