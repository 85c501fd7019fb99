-------------------------- MODULE MCBridgeHandler ---------------------------
(* Finite instance of BridgeHandler for TLC.  Every issued token has the   *)
(* same decimals; users and donor have some native tokens, the bridge has  *)
(* only what is locked in it.                                              *)
EXTENDS BridgeHandler

CONSTANTS Wealth, DecimalsOfAll

MCDecimals == [t \in Issued |-> DecimalsOfAll]
MCEndowment == [a \in Account |->
                  IF a \in User THEN Wealth ELSE IF a = Donor THEN 2
                  ELSE IF a = Bridge THEN 0 ELSE 1]
OneTrade == {<<1, 1>>}
=============================================================================
