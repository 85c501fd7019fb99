------------------------------- MODULE Agent --------------------------------
(***************************************************************************)
(* pallet-fuso-agent: transactions signed with a key of another chain.     *)
(* Anyone may send one to a node any number of times, as an unsigned       *)
(* extrinsic; validate_unsigned stands in for the checks an ordinary       *)
(* signed extrinsic gets from the runtime: nonce, size, weight and fee.    *)
(*                                                                         *)
(* A node's pool validates on a copy of the state it throws away.  In a    *)
(* block the same function runs as pre_dispatch, its changes are kept, and *)
(* submit_external_tx follows at once; if it returns an error nothing of   *)
(* it remains.  A call that empties the account lets frame_system remove   *)
(* it with its nonce; what was signed before can be sent again once the    *)
(* account is paid.  The pool and the block author are external: a request *)
(* waits under the tag of its account, one with more priority replaces it, *)
(* and it is dropped when its longevity is over or it became invalid.      *)
(*                                                                         *)
(* A signature is modelled by what recovering it gives, the account of the *)
(* signer; an Ed25519 request is refused everywhere and left out.          *)
(***************************************************************************)
EXTENDS Sequences, Functions, Balances

CONSTANTS
  Call,               \* calls an account may sign
  RefTime, ProofSize, \* weight of each call
  Size,               \* encoded size of a request with the call
  Cost,               \* what a call that succeeds takes from its sender
  MaxRefTime, MaxProofSize, MaxSize,   \* BlockWeights and BlockLength
  BaseFee, ByteFee,   \* fee of the base weight, and per byte
  Longevity,          \* blocks a request stays in the pool, 5 in the code
  MaxNonce, MaxFunds  \* bounds of the model

ASSUME AgentAssumption ==
  /\ RefTime \in [Call -> Nat] /\ ProofSize \in [Call -> Nat]
  /\ Size \in [Call -> Nat] /\ Cost \in [Call -> Nat]
  /\ MaxRefTime \in Nat /\ MaxProofSize \in Nat /\ MaxSize \in Nat
  /\ BaseFee \in Nat /\ ByteFee \in Nat
  /\ Longevity \in Nat /\ MaxNonce \in Nat /\ MaxFunds \in Nat

Request == [nonce : 0..MaxNonce, call : Call]
Nothing == [age |-> 0]
Pending == [request : Request, age : 0..Longevity]
Executed == [request : Request, ok : BOOLEAN, reaped : BOOLEAN]

VARIABLES
  nonce,      \* frame_system: account nonces
  signed,     \* the requests each account has signed so far
  pool,       \* the request waiting under an account's tag
  executed,   \* the requests executed, in order, and whether the account
              \* was removed by it (history)
  received    \* all that was ever paid to an account (history)

AgentVars == <<nonce, free, signed, pool, executed, received>>

AgentTypeOK ==
  /\ nonce \in [Account -> 0..(MaxNonce + 1)]
  /\ free \in [Account -> Nat]
  /\ signed \in [Account -> SUBSET Request]
  /\ pool \in [Account -> Pending \cup {Nothing}]
  /\ executed \in [Account -> Seq(Executed)]
  /\ received \in [Account -> 0..MaxFunds]

AgentInit ==
  /\ nonce = [a \in Account |-> 0]
  /\ free = [a \in Account |-> 0]
  /\ signed = [a \in Account |-> {}]
  /\ pool = [a \in Account |-> Nothing]
  /\ executed = [a \in Account |-> <<>>]
  /\ received = [a \in Account |-> 0]

-----------------------------------------------------------------------------
(* validate_unsigned.                                                      *)

weight_to_fee(c) == IF RefTime[c] <= MaxRefTime THEN RefTime[c] ELSE MaxRefTime
compute_fee(c) == BaseFee + ByteFee * Size[c] + weight_to_fee(c)

(* One dimension of the weight below its limit is enough for any_lt.       *)
FitsBlock(c) ==
  /\ Size[c] < MaxSize
  /\ RefTime[c] < MaxRefTime \div 5 \/ ProofSize[c] < MaxProofSize \div 5

(* pallet_balances withdraws a fee only if the account stays alive; its    *)
(* existential deposit is one unit here.                                   *)
CanPay(a, fee) == fee = 0 \/ free[a] - fee > 0

ValidAnyNonce(a, r) ==                          \* mutant of validate_unsigned
  r \in signed[a] /\ FitsBlock(r.call) /\ CanPay(a, compute_fee(r.call))
validate_unsigned(a, r) ==
  /\ r \in signed[a]
  /\ r.nonce = nonce[a]
  /\ FitsBlock(r.call)
  /\ CanPay(a, compute_fee(r.call))

-----------------------------------------------------------------------------
(* The account's owner, and whoever pays to the account.                   *)

Sign(a, r) ==
  /\ signed' = [signed EXCEPT ![a] = @ \cup {r}]
  /\ UNCHANGED <<nonce, free, pool, executed, received>>

Receive(a) ==
  /\ received[a] < MaxFunds
  /\ free' = [free EXCEPT ![a] = @ + 1]
  /\ received' = [received EXCEPT ![a] = @ + 1]
  /\ UNCHANGED <<nonce, signed, pool, executed>>

(* The pool.  The priority of a request is the weight of its call.         *)
Submit(a, r) ==
  /\ validate_unsigned(a, r)
  /\ pool[a] # Nothing => RefTime[r.call] > RefTime[pool[a].request.call]
  /\ pool' = [pool EXCEPT ![a] = [request |-> r, age |-> 0]]
  /\ UNCHANGED <<nonce, free, signed, executed, received>>

(* A block went by: requests grow older, and those that are too old or no  *)
(* longer valid are dropped.                                               *)
NeverAged(a) == pool[a]                         \* mutant of Aged
Aged(a) ==
  IF pool[a] = Nothing \/ pool[a].age = Longevity
       \/ ~validate_unsigned(a, pool[a].request)
  THEN Nothing ELSE [pool[a] EXCEPT !.age = @ + 1]
AgentNextBlock ==
  /\ pool' = [a \in Account |-> Aged(a)]
  /\ UNCHANGED <<nonce, free, signed, executed, received>>

-----------------------------------------------------------------------------
(* A block applies the request: pre_dispatch, then submit_external_tx.     *)
(* The call itself may fail, which is only recorded in an event.           *)
FeeOnSuccess(c, ok) == IF ok THEN compute_fee(c) + Cost[c] ELSE 0   \* mutant of Charged
Charged(c, ok) == compute_fee(c) + IF ok THEN Cost[c] ELSE 0

NonceAfter(a, reaped) == IF reaped THEN 0 ELSE nonce[a] + 1

submit_external_tx(a, r, ok, reaped) ==
  /\ validate_unsigned(a, r)
  /\ ok => free[a] >= Charged(r.call, TRUE)
  /\ reaped => ok /\ Emptied(a, Charged(r.call, TRUE))
  /\ nonce' = [nonce EXCEPT ![a] = NonceAfter(a, reaped)]
  /\ free' = [free EXCEPT ![a] = @ - Charged(r.call, ok)]
  /\ executed' = [executed EXCEPT ![a] = Append(@, [request |-> r, ok |-> ok, reaped |-> reaped])]
  /\ UNCHANGED <<signed, received>>

(* The node's own block takes the request from its pool; a block of        *)
(* another node may hold any request that is valid, and leaves the pool    *)
(* as it is until the next one.                                            *)
Author(a, ok, reaped) ==
  /\ pool[a] # Nothing
  /\ submit_external_tx(a, pool[a].request, ok, reaped)
  /\ pool' = [pool EXCEPT ![a] = Nothing]

Import(a, r, ok, reaped) ==
  /\ submit_external_tx(a, r, ok, reaped)
  /\ UNCHANGED pool

-----------------------------------------------------------------------------
AgentNext ==
  \/ AgentNextBlock
  \/ \E a \in Account :
       \/ Receive(a)
       \/ \E r \in Request : Sign(a, r) \/ Submit(a, r)
       \/ \E ok, reaped \in BOOLEAN :
            \/ Author(a, ok, reaped)
            \/ \E r \in Request : Import(a, r, ok, reaped)

(* Owners send a request again while it is pending on nothing, blocks keep *)
(* coming, and the node takes a request it finds ready again and again.    *)
(* Nobody has to sign or to pay, and other nodes need not help.            *)
AgentSpec ==
  /\ AgentInit /\ [][AgentNext]_AgentVars
  /\ WF_AgentVars(AgentNextBlock)
  /\ \A a \in Account :
       /\ SF_AgentVars(\E ok, reaped \in BOOLEAN : Author(a, ok, reaped))
       /\ \A r \in Request : WF_AgentVars(Submit(a, r))

-----------------------------------------------------------------------------
(* Properties.                                                             *)

(* However often and in whatever order an account's requests reach the     *)
(* chain, each nonce is used once and in its turn as long as the account   *)
(* lives: between two executions of a request, or of two requests with the *)
(* same nonce, the account was emptied and removed.  A call that fails     *)
(* does not give the nonce back.                                           *)
LifeStarts(s, i) == i = 1 \/ s[i - 1].reaped
OneLife(s, i, j) == i <= j /\ \A k \in i..(j - 1) : ~s[k].reaped
InTurn(s, allowed) ==
  \A i \in DOMAIN s :
    /\ s[i].request \in allowed
    /\ LifeStarts(s, i) => s[i].request.nonce = 0
    /\ \A j \in DOMAIN s :
         OneLife(s, i, j) => s[j].request.nonce = s[i].request.nonce + (j - i)
ExecutedInTurn == \A a \in Account : InTurn(executed[a], signed[a])

(* An account pays the fee of every request executed for it, failed ones   *)
(* included, and nothing for requests refused or dropped.                  *)
Spent(e) == compute_fee(e.request.call) + IF e.ok THEN Cost[e.request.call] ELSE 0
FeesAccounted ==
  \A a \in Account :
    received[a] - free[a]
      = SumFunction([i \in DOMAIN executed[a] |-> Spent(executed[a][i])])

(* A request that is in its turn and can be paid does not wait for ever:   *)
(* the tag it shares with the account's other requests is given free again,*)
(* so it or another with its nonce is executed (or the funds are gone).    *)
TurnCompletes ==
  \A a \in Account, r \in Request :
    validate_unsigned(a, r) ~> (nonce[a] > r.nonce \/ ~CanPay(a, compute_fee(r.call)))
=============================================================================
