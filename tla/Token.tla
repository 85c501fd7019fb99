------------------------------- MODULE Token --------------------------------
(***************************************************************************)
(* pallet-fuso-token: the registry of tokens and the free and reserved     *)
(* balances of every account, under a total issuance per token.  Module    *)
(* Ledger is the part of it that locks funds, seen from the verifier.      *)
(*                                                                         *)
(* An entry of Balances with two zeros behaves as an absent one, so        *)
(* balances is a total function; TokenByName and TokenByContract map to    *)
(* NoToken where they have no entry.  ERC20 and BEP20 tokens take the same *)
(* branches and are one kind here.  The native token lives in              *)
(* pallet_balances, an external pallet modelled with an existential        *)
(* deposit of one unit.                                                    *)
(***************************************************************************)
EXTENDS Integers, FiniteSets, Functions

CONSTANTS
  Account,
  MaxTokenId,           \* bound: ids 1..MaxTokenId can be issued
  Contract,             \* contracts of NEP141 tokens
  Foreign,              \* (chain, contract) pairs of the chainbridge
  Amount,               \* amounts a caller may name
  Decimals,             \* decimals an issuer may name
  StandardDecimals, MaxDecimals,
  Radix,                \* 10 in the code
  BalanceRange,         \* number of values of a balance, 2^128 in the code
  BurnTAOwhenIssue,
  Endowment             \* free native tokens of each account at genesis

ASSUME TokenAssumption ==
  /\ IsFiniteSet(Account)
  /\ MaxTokenId \in Nat
  /\ Amount \subseteq Nat /\ Decimals \subseteq Nat
  /\ StandardDecimals \in Nat /\ MaxDecimals \in Nat
  /\ Radix \in Nat \ {0} /\ BalanceRange \in Nat \ {0}
  /\ BurnTAOwhenIssue \in Nat /\ Endowment \in [Account -> Nat]
  /\ SumFunction(Endowment) < BalanceRange   \* genesis issues what fits
  /\ "none" \notin Contract

(* Powers of the radix are positive; the provers do not know exponents.    *)
ASSUME RadixAssumption == \A n \in 0..MaxDecimals : Radix^n \in Nat \ {0}

Native == 0
Issued == 1..MaxTokenId
TokenId == {Native} \cup Issued
NoToken == -1
Kind == {"NEP141", "ERC20", "FND10"}
NoContract == "none"

VARIABLES
  tokens,           \* Tokens
  next_token_id,    \* NextTokenId
  by_name,          \* TokenByName
  by_contract,      \* TokenByContract
  balances,         \* Balances, and the accounts of pallet_balances
  native_issuance   \* TotalIssuance of pallet_balances

registry == <<tokens, next_token_id, by_name, by_contract>>
vars == <<tokens, next_token_id, by_name, by_contract, balances, native_issuance>>

NoInfo == [kind |-> "None", contract |-> NoContract, total |-> 0,
           stable |-> FALSE, decimals |-> 0]
Balance == 0..(BalanceRange - 1)

TypeOK ==
  /\ tokens \in [Issued -> [kind : Kind \cup {"None"}, total : Balance,
                            contract : Contract \cup {NoContract},
                            stable : BOOLEAN, decimals : 0..MaxDecimals]]
  /\ next_token_id \in 1..(MaxTokenId + 1)
  /\ by_name \in [Contract -> Issued \cup {NoToken}]
  /\ by_contract \in [Foreign -> TokenId \cup {NoToken}]
  /\ balances \in [TokenId -> [Account -> [free : Balance, reserved : Balance]]]
  /\ native_issuance \in Balance

Init ==
  /\ tokens = [t \in Issued |-> NoInfo]
  /\ next_token_id = 1
  /\ by_name = [c \in Contract |-> NoToken]
  /\ by_contract = [f \in Foreign |-> NoToken]
  /\ balances = [t \in TokenId |-> [a \in Account |->
       [free |-> IF t = Native THEN Endowment[a] ELSE 0, reserved |-> 0]]]
  /\ native_issuance = SumFunction(Endowment)

Exists(t) == t \in Issued /\ tokens[t].kind # "None"

-----------------------------------------------------------------------------
(* The registry.                                                           *)

(* create forgets whatever issuance the caller claims; only the contract   *)
(* of a NEP141 token must be new, and only NEP141 tokens are named by it.  *)
CreateUnchecked(kind, contract, total, stable, decimals) ==  \* mutant of create
  /\ next_token_id \in Issued
  /\ kind # "FND10" => decimals <= MaxDecimals
  /\ tokens' = [tokens EXCEPT ![next_token_id] =
       [kind |-> kind, contract |-> contract, total |-> 0,
        stable |-> stable, decimals |-> decimals]]
  /\ by_name' = IF kind = "NEP141"
                THEN [by_name EXCEPT ![contract] = next_token_id] ELSE by_name
  /\ next_token_id' = next_token_id + 1
CreateWithTotal(kind, contract, total, stable, decimals) ==  \* mutant of create
  /\ next_token_id \in Issued
  /\ kind = "NEP141" => by_name[contract] = NoToken
  /\ tokens' = [tokens EXCEPT ![next_token_id] =
       [kind |-> kind, contract |-> contract, total |-> total,
        stable |-> stable, decimals |-> decimals]]
  /\ by_name' = IF kind = "NEP141"
                THEN [by_name EXCEPT ![contract] = next_token_id] ELSE by_name
  /\ next_token_id' = next_token_id + 1
create(kind, contract, total, stable, decimals) ==
  /\ next_token_id \in Issued
  /\ kind # "FND10" => decimals <= MaxDecimals
  /\ kind = "NEP141" => by_name[contract] = NoToken
  /\ tokens' = [tokens EXCEPT ![next_token_id] =
       [kind |-> kind, contract |-> contract, total |-> 0,
        stable |-> stable, decimals |-> decimals]]
  /\ by_name' = IF kind = "NEP141"
                THEN [by_name EXCEPT ![contract] = next_token_id] ELSE by_name
  /\ next_token_id' = next_token_id + 1

(* Fields a kind does not have are fixed.                                  *)
WellFormed(kind, contract, stable, decimals) ==
  /\ (contract = NoContract) = (kind # "NEP141")
  /\ kind = "FND10" => ~stable /\ decimals = 0

(* Anyone may issue a token by burning native ones (pallet_balances).      *)
issue(who, kind, contract, total, stable, decimals) ==
  /\ WellFormed(kind, contract, stable, decimals)
  /\ balances[Native][who].free >= BurnTAOwhenIssue
  /\ balances' = [balances EXCEPT ![Native][who].free = @ - BurnTAOwhenIssue]
  /\ native_issuance' = native_issuance - BurnTAOwhenIssue
  /\ create(kind, contract, total, stable, decimals)
  /\ UNCHANGED by_contract

mark_stable(t) ==
  /\ Exists(t)
  /\ tokens[t].kind # "FND10"
  /\ tokens' = [tokens EXCEPT ![t].stable = TRUE]
  /\ UNCHANGED <<next_token_id, by_name, by_contract, balances, native_issuance>>

associate_token(f, t) ==
  /\ by_contract' = [by_contract EXCEPT ![f] = t]
  /\ UNCHANGED <<tokens, next_token_id, by_name, balances, native_issuance>>

-----------------------------------------------------------------------------
(* Issuance, driven by the bridges.                                        *)

(* An amount with the token's own decimals, as one with the standard ones. *)
unify_decimals(amount, decimals) ==
  IF decimals > StandardDecimals
  THEN amount \div Radix^(decimals - StandardDecimals)
  ELSE (amount * Radix^(StandardDecimals - decimals)) % BalanceRange

Unified(t, amount) ==
  IF tokens[t].kind = "FND10" THEN tokens[t].total
  ELSE unify_decimals(amount, tokens[t].decimals)

(* The token's record with v more issued; a FND10 token keeps its total.   *)
WithIssued(t, v) ==
  IF tokens[t].kind = "FND10" THEN tokens[t]
  ELSE [tokens[t] EXCEPT !.total = @ + v]

(* Operators on a value bal of balances, so that calls made one after the  *)
(* other within an extrinsic compose (module BridgeHandler).               *)
CanMint(bal, t, a, amount) ==
  LET v == Unified(t, amount)
  IN /\ Exists(t)
     /\ WithIssued(t, v).total \in Balance
     /\ v # 0
     /\ bal[t][a].free + v \in Balance
Minted(bal, t, a, amount) == [bal EXCEPT ![t][a].free = @ + Unified(t, amount)]

do_mint(t, a, amount) ==
  /\ amount # 0
  /\ CanMint(balances, t, a, amount)
  /\ tokens' = [tokens EXCEPT ![t] = WithIssued(t, Unified(t, amount))]
  /\ balances' = Minted(balances, t, a, amount)
  /\ UNCHANGED <<next_token_id, by_name, by_contract, native_issuance>>

CanBurn(bal, t, a, amount) ==
  LET v == Unified(t, amount)
  IN /\ amount # 0
     /\ Exists(t)
     /\ WithIssued(t, -v).total \in Balance
     /\ v # 0
     /\ bal[t][a].free - v \in Balance
Burnt(bal, t, a, amount) == [bal EXCEPT ![t][a].free = @ - Unified(t, amount)]

do_burn(t, a, amount) ==
  /\ CanBurn(balances, t, a, amount)
  /\ tokens' = [tokens EXCEPT ![t] = WithIssued(t, -Unified(t, amount))]
  /\ balances' = Burnt(balances, t, a, amount)
  /\ UNCHANGED <<next_token_id, by_name, by_contract, native_issuance>>

-----------------------------------------------------------------------------
(* Balances.                                                               *)

Debit(bal, t, a, field, v) == [bal[t][a] EXCEPT ![field] = @ - v]
Credit(bal, t, a, field, v) == [bal[t][a] EXCEPT ![field] = @ + v]

(* The nested try_mutate_exists of a move: both entries are read first,    *)
(* the receiver's is written first and the sender's last.                  *)
Moved(bal, t, from, fromField, to, toField, v) ==
  [[bal EXCEPT ![t][to] = Credit(bal, t, to, toField, v)]
         EXCEPT ![t][from] = Debit(bal, t, from, fromField, v)]

(* Currency::transfer of pallet_balances keeps the sender alive and does   *)
(* nothing when sender and receiver are the same.                          *)
NativeMoved(bal, from, to, v) ==
  IF from = to THEN bal ELSE Moved(bal, Native, from, "free", to, "free", v)
KeepsAlive(bal, a, to, v) ==
  a = to \/ bal[Native][a].free + bal[Native][a].reserved - v > 0

CanTransfer(bal, who, t, v, target) ==
  \/ v = 0
  \/ /\ t = Native
     /\ who # target => bal[t][who].free >= v
     /\ KeepsAlive(bal, who, target, v)
  \/ /\ t # Native
     /\ bal[t][who].free >= v
     /\ bal[t][target].free + v \in Balance
Transferred(bal, who, t, v, target) ==
  IF t = Native THEN NativeMoved(bal, who, target, v)
  ELSE Moved(bal, t, who, "free", target, "free", v)

transfer_token(who, t, amount, target) ==
  /\ CanTransfer(balances, who, t, amount, target)
  /\ balances' = Transferred(balances, who, t, amount, target)

transfer(who, t, target, amount) ==
  /\ amount # 0
  /\ transfer_token(who, t, amount, target)
  /\ UNCHANGED <<registry, native_issuance>>

reserve(t, a, v) ==
  /\ v # 0
  /\ balances[t][a].free >= v
  /\ balances' = [balances EXCEPT ![t][a] =
       [free |-> @.free - v, reserved |-> @.reserved + v]]
  /\ UNCHANGED <<registry, native_issuance>>

unreserve(t, a, v) ==
  /\ v # 0
  /\ balances[t][a].reserved >= v
  /\ balances' = [balances EXCEPT ![t][a] =
       [free |-> @.free + v, reserved |-> @.reserved - v]]
  /\ UNCHANGED <<registry, native_issuance>>

(* Moves reserved funds of one account to another.  An account's own are   *)
(* unreserved, or (status "reserved") reserve is called for as much again; *)
(* pallet_balances does nothing then, and wants a living beneficiary.      *)
RepatriateNested(t, a, b, v, status) ==         \* mutant of repatriate_reserved
  /\ balances[t][a].reserved >= v
  /\ balances' = Moved(balances, t, a, "reserved", b, status, v)
  /\ UNCHANGED <<registry, native_issuance>>
repatriate_reserved(t, a, b, v, status) ==
  \/ /\ a = b /\ status = "free"
     /\ unreserve(t, a, v)
  \/ /\ a = b /\ status = "reserved" /\ t # Native
     /\ reserve(t, a, v)
  \/ /\ a # b
     /\ t = Native => balances[t][b].free + balances[t][b].reserved > 0
     /\ balances[t][a].reserved >= v
     /\ balances' = Moved(balances, t, a, "reserved", b, status, v)
     /\ UNCHANGED <<registry, native_issuance>>

-----------------------------------------------------------------------------
Register ==
  \/ \E who \in Account, kind \in Kind, contract \in Contract \cup {NoContract},
        total \in Amount, stable \in BOOLEAN, decimals \in Decimals :
       issue(who, kind, contract, total, stable, decimals)
  \/ \E t \in TokenId : mark_stable(t) \/ \E f \in Foreign : associate_token(f, t)

Move ==
  \E t \in TokenId, a \in Account, v \in Amount :
    \/ do_mint(t, a, v)
    \/ do_burn(t, a, v)
    \/ reserve(t, a, v)
    \/ unreserve(t, a, v)
    \/ \E b \in Account :
         \/ transfer(a, t, b, v)
         \/ \E status \in {"free", "reserved"} : repatriate_reserved(t, a, b, v, status)

Next == Register \/ Move

Spec == Init /\ [][Next]_vars

-----------------------------------------------------------------------------
(* Properties.                                                             *)

total_issuance(t) == IF t = Native THEN native_issuance ELSE tokens[t].total
Held(t) == SumFunction([a \in Account |-> balances[t][a].free + balances[t][a].reserved])

(* The tests of the pallet assert after every mint and burn that the       *)
(* issuance of a token is what the accounts hold together.  A transfer of  *)
(* an issued token to oneself breaks it: transfer_token writes the         *)
(* sender's entry last and the amount received is lost.                    *)
IssuanceIsSum == \A t \in TokenId : Held(t) = total_issuance(t)

(* No token is held that was not issued: minting, burning, moving and      *)
(* issuing, which keep the total apart from the balances, never leave the  *)
(* total behind.  A FND10 token, minted in the amount of its own total,    *)
(* has no units at all.                                                    *)
IssuanceCovers == \A t \in TokenId : Held(t) <= total_issuance(t)

(* Reserved funds back what other pallets promise: no step destroys them.  *)
(* Whatever leaves an account's reserved balance is still held by someone. *)
ReservedNotDestroyed ==
  [][\A t \in TokenId, a \in Account :
       balances'[t][a].reserved < balances[t][a].reserved => Held(t)' = Held(t)]_vars

(* A contract names at most one token for good, the one that carries it:   *)
(* the octopus bridge mints by name and reads the name back by id.         *)
NameRoundTrip ==
  /\ \A c \in Contract : by_name[c] # NoToken => tokens[by_name[c]].contract = c
  /\ \A t \in Issued : tokens[t].kind = "NEP141" => by_name[tokens[t].contract] = t
=============================================================================
