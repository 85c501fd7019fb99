------------------------------- MODULE Ledger -------------------------------
(***************************************************************************)
(* The two layers of book-keeping under every fund the verifier pallet     *)
(* locks, as pure operators on a ledger value:                             *)
(*                                                                         *)
(*   - the asset layer (pallet-fuso-token, or pallet_balances for the      *)
(*     native token): free and reserved balance per token and account;     *)
(*   - the purpose layer (Reserves of pallet-fuso-verifier): how much of   *)
(*     an account's reserved balance is locked for which purpose and       *)
(*     towards which holder.                                               *)
(*                                                                         *)
(* A call that fails leaves the ledger alone (every extrinsic runs in a    *)
(* storage transaction), so an operator here is a total function and its   *)
(* error conditions are the separate Can... predicate the caller puts in   *)
(* its guard.  The checked additions on 128-bit balances cannot fail: no   *)
(* amount exceeds the total issuance.                                      *)
(***************************************************************************)
EXTENDS Integers, FiniteSetsExt

(* Account: owners of funds; Holder: the accounts reserves are kept for.   *)
LedgerType(Account, Holder, Token, ReserveId) ==
  [free     : [Token -> [Account -> Nat]],
   reserved : [Token -> [Account -> Nat]],
   reserves : [ReserveId -> [Account -> [Token -> [Holder -> Nat]]]]]

EmptyReserves(Account, Holder, Token, ReserveId) ==
  [id \in ReserveId |-> [a \in Account |-> [t \in Token |-> [h \in Holder |-> 0]]]]

can_reserve(l, t, a, v) == v = 0 \/ l.free[t][a] >= v

(* Self::reserve: T::Asset::reserve and the purpose entry together.        *)
reserve(l, id, a, t, v, to) ==
  [free     |-> [l.free EXCEPT ![t][a] = @ - v],
   reserved |-> [l.reserved EXCEPT ![t][a] = @ + v],
   reserves |-> [l.reserves EXCEPT ![id][a][t][to] = @ + v]]

can_unreserve(l, id, a, t, v, from) ==
  v = 0 \/ (l.reserved[t][a] >= v /\ l.reserves[id][a][t][from] >= v)

unreserve(l, id, a, t, v, from) ==
  [free     |-> [l.free EXCEPT ![t][a] = @ + v],
   reserved |-> [l.reserved EXCEPT ![t][a] = @ - v],
   reserves |-> [l.reserves EXCEPT ![id][a][t][from] = @ - v]]

(* All that the purpose layer claims of one account's reserved balance.    *)
TotalReserves(l, t, a) ==
  SumFunction([id \in DOMAIN l.reserves |-> SumFunction(l.reserves[id][a][t])])
=============================================================================
