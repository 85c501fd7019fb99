----------------------------- MODULE Indicator ------------------------------
(***************************************************************************)
(* pallet-fuso-indicator: the price of a token in dollars, in units of     *)
(* 1/Quintill, from the trades a batch of proofs cleared.  The time and    *)
(* size of the last trades are kept for display only and left out.         *)
(***************************************************************************)
EXTENDS Integers

CONSTANTS
  Quintill    \* 10^18 in the code

ASSUME IndicatorAssumption == Quintill \in Nat \ {0}

VARIABLE prices   \* OnChainPrices: price of each token, 0 before any trade

(* Perquintill rounds down.                                                *)
from_rational(p, q) == (p * Quintill) \div q

(* p / q in units of 1/Quintill: whole part and fraction apart, so that    *)
(* the product with Quintill is taken of a small number only.              *)
WholeOnly(p, q) == (p \div q) * Quintill        \* mutant of Ratio
Ratio(p, q) == (p \div q) * Quintill + from_rational(p % q, q)

get_price(t, is_stable) == IF is_stable THEN Quintill ELSE prices[t]

set_price(t, amount, volume) ==
  /\ volume # 0 /\ amount # 0
  /\ prices' = [prices EXCEPT ![t] = Ratio(volume, amount)]
=============================================================================
