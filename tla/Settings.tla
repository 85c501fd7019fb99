------------------------------ MODULE Settings ------------------------------
(***************************************************************************)
(* Settings of dominators and the registration of brokers in               *)
(* pallet-fuso-verifier.  A dominator names a beneficiary freely the first *)
(* time; afterwards the present beneficiary must sign the change, together *)
(* with its own account nonce, which the chain then increments.            *)
(*                                                                         *)
(* The nonces are those of frame_system (external): every extrinsic a key  *)
(* signs increments its nonce before it is dispatched, also when dispatch  *)
(* fails.  So the nonce under a proof moves with everything its signer     *)
(* does elsewhere, and with the call itself when a dominator is its own    *)
(* beneficiary.  An account that is emptied is removed and its nonce with  *)
(* it (module Balances); proofs it signed for the nonces from 0 count      *)
(* again then.  Keys and endpoints are opaque texts, fees are left out,    *)
(* but only who has funds can sign.                                        *)
(***************************************************************************)
EXTENDS Balances, FiniteSets

CONSTANTS
  Dominator,               \* registered dominators
  Text,                    \* keys and endpoints
  BrokerStakingThreshold,
  Funds,                   \* free native tokens of each account
  MaxAccountNonce, MaxProofs, MaxLives   \* bounds of the model

ASSUME SettingsAssumption ==
  /\ Dominator \subseteq Account
  /\ BrokerStakingThreshold \in Nat
  /\ Funds \in [Account -> Nat]
  /\ MaxAccountNonce \in Nat /\ MaxProofs \in Nat /\ MaxLives \in Nat

Nobody == "nobody"
Empty == "empty"
NoSetting == [beneficiary |-> Nobody, pubkey |-> Empty, endpoint |-> Empty]
Setting == [beneficiary : Account \cup {Nobody}, pubkey : Text \cup {Empty},
            endpoint : Text \cup {Empty}]
Broker == [beneficiary : Account, staked : Nat, endpoint : Text]
NoBroker == [staked |-> 0]
Proof == [by : Account, nonce : 0..MaxAccountNonce, new : Account]

VARIABLES
  account_nonce,  \* frame_system: account nonces
  lives,      \* how often each account was removed (history)
  settings,   \* DominatorSettings; an entry of three defaults is none
  proofs,     \* what beneficiaries have signed
  uses,       \* how often each proof was accepted (history)
  brokers,    \* Brokers
  deposits    \* what the system account received

SettingsVars == <<account_nonce, lives, settings, proofs, uses, brokers, free, deposits>>

SettingsTypeOK ==
  /\ account_nonce \in [Account -> Nat]
  /\ lives \in [Account -> Nat]
  /\ settings \in [Dominator -> Setting]
  /\ proofs \subseteq Proof
  /\ uses \in [Proof -> Nat]
  /\ brokers \in [Account -> Broker \cup {NoBroker}]
  /\ free \in [Account -> Nat]
  /\ deposits \in Nat

SettingsInit ==
  /\ account_nonce = [a \in Account |-> 0]
  /\ lives = [a \in Account |-> 0]
  /\ settings = [d \in Dominator |-> NoSetting]
  /\ proofs = {}
  /\ uses = [p \in Proof |-> 0]
  /\ brokers = [a \in Account |-> NoBroker]
  /\ free = Funds
  /\ deposits = 0

(* The nonces after a signed extrinsic of the account passed its checks.   *)
Signed(a) == [account_nonce EXCEPT ![a] = @ + 1]
CanSign(a) == free[a] > 0 /\ account_nonce[a] < MaxAccountNonce

-----------------------------------------------------------------------------
(* An extrinsic of any other kind, and every one that fails (it pays       *)
(* nothing).  If it pays all the account has, the account may be removed.  *)
AnyExtrinsic(a, to, paid, reaped) ==
  /\ to # a /\ paid <= free[a]
  /\ free' = [free EXCEPT ![a] = @ - paid, ![to] = @ + paid]
  /\ \/ /\ ~reaped /\ CanSign(a)
        /\ account_nonce' = Signed(a) /\ UNCHANGED lives
     \/ /\ reaped
        /\ Emptied(a, paid) /\ lives[a] < MaxLives
        /\ account_nonce' = [account_nonce EXCEPT ![a] = 0]
        /\ lives' = [lives EXCEPT ![a] = @ + 1]
  /\ UNCHANGED <<settings, proofs, uses, brokers, deposits>>

(* A beneficiary signs off the chain, for the nonce it sees or the next.   *)
SignProof(p) ==
  /\ Cardinality(proofs) < MaxProofs
  /\ p \notin proofs /\ p.nonce \in {account_nonce[p.by], account_nonce[p.by] + 1}
  /\ proofs' = proofs \cup {p}
  /\ UNCHANGED <<account_nonce, lives, settings, uses, brokers, free, deposits>>

PubkeyOnly(d, key) ==                           \* mutant of dominator_set_pubkey
  /\ CanSign(d)
  /\ account_nonce' = Signed(d)
  /\ settings' = [settings EXCEPT ![d] = [NoSetting EXCEPT !.pubkey = key]]
  /\ UNCHANGED <<lives, proofs, uses, brokers, free, deposits>>
dominator_set_pubkey(d, key) ==
  /\ CanSign(d)
  /\ account_nonce' = Signed(d)
  /\ settings' = [settings EXCEPT ![d].pubkey = key]
  /\ UNCHANGED <<lives, proofs, uses, brokers, free, deposits>>

dominator_set_rpc_endpoint(d, endpoint) ==
  /\ CanSign(d)
  /\ account_nonce' = Signed(d)
  /\ settings' = [settings EXCEPT ![d].endpoint = endpoint]
  /\ UNCHANGED <<lives, proofs, uses, brokers, free, deposits>>

(* n: the nonces when the call is dispatched; p: the proof that comes with *)
(* it.                                                                     *)
ValidateOnly(p, old, new, n) ==                 \* mutant of validate_beneficiary
  /\ p \in proofs /\ p = [by |-> old, nonce |-> n[old], new |-> new]
  /\ account_nonce' = n
  /\ uses' = [uses EXCEPT ![p] = @ + 1]
validate_beneficiary(p, old, new, n) ==
  /\ p \in proofs /\ p = [by |-> old, nonce |-> n[old], new |-> new]
  /\ account_nonce' = [n EXCEPT ![old] = @ + 1]
  /\ uses' = [uses EXCEPT ![p] = @ + 1]

dominator_set_beneficiary(d, new, p) ==
  LET old == settings[d].beneficiary
  IN /\ CanSign(d)
     /\ settings' = [settings EXCEPT ![d].beneficiary = new]
     /\ \/ /\ old = Nobody
           /\ account_nonce' = Signed(d) /\ UNCHANGED uses
        \/ /\ old # Nobody
           /\ validate_beneficiary(p, old, new, Signed(d))
     /\ UNCHANGED <<lives, proofs, brokers, free, deposits>>

-----------------------------------------------------------------------------
(* Brokers pay the threshold to the system account, once.                  *)

register_broker(a, beneficiary, endpoint) ==
  /\ CanSign(a)
  /\ free[a] > BrokerStakingThreshold
  /\ brokers[a] = NoBroker
  /\ account_nonce' = Signed(a)
  /\ free' = [free EXCEPT ![a] = @ - BrokerStakingThreshold]
  /\ deposits' = deposits + BrokerStakingThreshold
  /\ brokers' = [brokers EXCEPT ![a] =
       [beneficiary |-> beneficiary, staked |-> BrokerStakingThreshold,
        endpoint |-> endpoint]]
  /\ UNCHANGED <<lives, settings, proofs, uses>>

broker_set_rpc_endpoint(a, endpoint) ==
  /\ CanSign(a)
  /\ brokers[a] # NoBroker
  /\ account_nonce' = Signed(a)
  /\ brokers' = [brokers EXCEPT ![a].endpoint = endpoint]
  /\ UNCHANGED <<lives, settings, proofs, uses, free, deposits>>

-----------------------------------------------------------------------------
DominatorCall(d) ==
  \/ \E t \in Text : dominator_set_pubkey(d, t) \/ dominator_set_rpc_endpoint(d, t)
  \/ \E new \in Account, p \in Proof : dominator_set_beneficiary(d, new, p)

BrokerCall(a) ==
  \E t \in Text :
    \/ broker_set_rpc_endpoint(a, t)
    \/ \E b \in Account : register_broker(a, b, t)

SettingsNext ==
  \/ \E p \in Proof : SignProof(p)
  \/ \E d \in Dominator : DominatorCall(d)
  \/ \E a \in Account : BrokerCall(a)
  \/ \E a, to \in Account, reaped \in BOOLEAN : \E paid \in 0..free[a] :
       AnyExtrinsic(a, to, paid, reaped)

SettingsSpec == SettingsInit /\ [][SettingsNext]_SettingsVars

-----------------------------------------------------------------------------
(* Properties.                                                             *)

(* A beneficiary's signature moves at most one dominator's income once,    *)
(* although the proof names no dominator and nonces are shared with all    *)
(* the signer's other transactions; it counts once more only for each time *)
(* the signer's account was emptied and removed, which resets its nonce.   *)
ProofUsedOnce == \A p \in Proof : uses[p] <= 1 + lives[p.by]

(* Income is not taken from a beneficiary who did not sign it away to that *)
(* very account, whatever other settings the dominator writes in between.  *)
BeneficiaryConsents ==
  [][\A d \in Dominator :
       LET old == settings[d].beneficiary new == settings'[d].beneficiary
       IN old \notin {Nobody, new} =>
            \E p \in proofs : p.by = old /\ p.new = new /\ uses'[p] > uses[p]]_SettingsVars
=============================================================================
