---------------------------- MODULE ChainBridge ----------------------------
(***************************************************************************)
(* pallet-chainbridge: relayers vote on calls proposed for deposits made   *)
(* on other chains; a call with enough votes is dispatched once.  Deposits *)
(* leaving this chain get a nonce per destination.                         *)
(*                                                                         *)
(* An extrinsic that returns an error is rolled back as a whole, so an     *)
(* action exists only for the calls that succeed.  In particular a call    *)
(* that is approved and whose dispatch fails takes the deciding vote and   *)
(* the new status back with it: the relayer may vote again later.          *)
(***************************************************************************)
EXTENDS Integers, Sequences, FiniteSets, Functions

CONSTANTS
  Account,            \* accounts the admin may make relayers
  Chain, ThisChain,   \* chain ids; ThisChain is T::ChainId
  DepositNonce, Proposal,
  Resource,           \* resource ids
  MappedResource,     \* native, or mapped to a token by the token pallet
  Threshold,          \* thresholds the admin may set
  ProposalLifetime,   \* in blocks
  MaxBlock, MaxNonce  \* bounds of the model

ASSUME BridgeAssumption ==
  /\ IsFiniteSet(Account)
  /\ ThisChain \in Chain
  /\ MappedResource \subseteq Resource
  /\ Threshold \subseteq Nat
  /\ ProposalLifetime \in Nat /\ MaxBlock \in Nat /\ MaxNonce \in Nat

Deposit == Chain \X DepositNonce \X Proposal
ProposalVotes ==
  [votes_for : Seq(Account), votes_against : Seq(Account), expiry : Nat,
   status : {"None", "Initiated", "Approved", "Rejected"}]
Unknown == [votes_for |-> <<>>, votes_against |-> <<>>, expiry |-> 0,
            status |-> "None"]
Unlisted == -1

VARIABLES
  now,          \* block number
  threshold,    \* RelayerThreshold
  relayers,     \* Relayers
  count,        \* RelayerCount
  chains,       \* ChainNonces, Unlisted where there is no entry
  resources,    \* Resources
  votes,        \* Votes, Unknown where there is no entry
  executed,     \* how often each call was dispatched (history)
  sent          \* nonces of the transfer events, per destination (history)

admin == <<threshold, relayers, count, resources>>
outbound == <<chains, sent>>
inbound == <<votes, executed>>
vars == <<now, admin, outbound, inbound>>

TypeOK ==
  /\ now \in Nat
  /\ threshold \in Nat /\ threshold > 0
  /\ relayers \subseteq Account /\ count \in Nat
  /\ chains \in [Chain -> Nat \cup {Unlisted}]
  /\ chains[ThisChain] = Unlisted
  /\ resources \subseteq Resource
  /\ votes \in [Deposit -> ProposalVotes]
  /\ executed \in [Deposit -> Nat]
  /\ sent \in [Chain -> Seq(Nat)]

Init ==
  /\ now = 0
  /\ threshold = 1
  /\ relayers = {} /\ count = 0
  /\ chains = [c \in Chain |-> Unlisted]
  /\ resources = {}
  /\ votes = [p \in Deposit |-> Unknown]
  /\ executed = [p \in Deposit |-> 0]
  /\ sent = [c \in Chain |-> <<>>]

-----------------------------------------------------------------------------
(* Administration.                                                         *)

set_threshold(n) ==
  /\ n > 0
  /\ threshold' = n
  /\ UNCHANGED <<now, relayers, count, resources, outbound, inbound>>

add_relayer(a) ==
  /\ a \notin relayers
  /\ relayers' = relayers \cup {a}
  /\ count' = count + 1
  /\ UNCHANGED <<now, threshold, resources, outbound, inbound>>

remove_relayer(a) ==
  /\ a \in relayers
  /\ relayers' = relayers \ {a}
  /\ count' = count - 1
  /\ UNCHANGED <<now, threshold, resources, outbound, inbound>>

set_resource(r) ==
  /\ r \in MappedResource
  /\ resources' = resources \cup {r}
  /\ UNCHANGED <<now, threshold, relayers, count, outbound, inbound>>

remove_resource(r) ==
  /\ resources' = resources \ {r}
  /\ UNCHANGED <<now, threshold, relayers, count, outbound, inbound>>

chain_whitelisted(c) == chains[c] # Unlisted

whitelist_again(c) ==                         \* mutant of whitelist_chain
  /\ c # ThisChain
  /\ chains' = [chains EXCEPT ![c] = 0]
  /\ UNCHANGED <<now, admin, sent, inbound>>
whitelist_chain(c) ==
  /\ c # ThisChain
  /\ ~chain_whitelisted(c)
  /\ chains' = [chains EXCEPT ![c] = 0]
  /\ UNCHANGED <<now, admin, sent, inbound>>

-----------------------------------------------------------------------------
(* Votes.                                                                  *)

is_complete(v) == v.status \in {"Approved", "Rejected"}
is_expired(v) == v.expiry <= now

hash_voted_for(v, who) == who \in Range(v.votes_for)           \* mutant of hash_voted
hash_voted_against(v, who) == who \in Range(v.votes_against)   \* mutant of hash_voted
hash_voted(v, who) == who \in Range(v.votes_for) \cup Range(v.votes_against)

(* The mutants ask for as many votes against as for an approval, and for   *)
(* one vote less than makes an approval impossible.                        *)
try_symmetric(v) ==                           \* mutant of try_to_complete
  [v EXCEPT !.status =
     CASE threshold <= Len(v.votes_for) -> "Approved"
       [] threshold > Len(v.votes_for) /\ threshold <= Len(v.votes_against) -> "Rejected"
       [] OTHER -> @]
try_veto(v) ==                                \* mutant of try_to_complete
  [v EXCEPT !.status =
     CASE threshold <= Len(v.votes_for) -> "Approved"
       [] threshold > Len(v.votes_for) /\ threshold <= count
            /\ count <= Len(v.votes_against) + threshold -> "Rejected"
       [] OTHER -> @]
try_to_complete(v) ==
  [v EXCEPT !.status =
     IF threshold <= Len(v.votes_for) THEN "Approved"
     ELSE IF threshold <= count /\ count < Len(v.votes_against) + threshold
          THEN "Rejected"
          ELSE @]

(* A first vote opens the proposal and starts its lifetime.                *)
Opened(p) ==
  IF votes[p].status = "None"
  THEN [votes_for |-> <<>>, votes_against |-> <<>>,
        expiry |-> now + ProposalLifetime, status |-> "Initiated"]
  ELSE votes[p]

IsNotExpired(v) == ~is_expired(v)             \* mutant of IsOpen
IsOpen(v) == ~is_complete(v) /\ ~is_expired(v)

commit_vote(v, who, in_favour) ==
  IF in_favour THEN [v EXCEPT !.votes_for = Append(@, who)]
               ELSE [v EXCEPT !.votes_against = Append(@, who)]

(* The proposal p, now with votes v, is decided if they allow it; an       *)
(* approved call is dispatched.                                            *)
try_resolve_proposal(p, v) ==
  LET w == try_to_complete(v)
  IN /\ IsOpen(v)
     /\ votes' = [votes EXCEPT ![p] = w]
     /\ executed' = [executed EXCEPT ![p] = IF w.status = "Approved" THEN @ + 1 ELSE @]

Vote(who, src, nonce, r, call, in_favour) ==
  LET p == <<src, nonce, call>>
      v == Opened(p)
  IN /\ who \in relayers
     /\ chain_whitelisted(src)
     /\ r \in resources
     /\ IsOpen(v)
     /\ ~hash_voted(v, who)
     /\ try_resolve_proposal(p, commit_vote(v, who, in_favour))
     /\ UNCHANGED <<now, admin, outbound>>

acknowledge_proposal(who, src, nonce, r, call) == Vote(who, src, nonce, r, call, TRUE)
reject_proposal(who, src, nonce, r, call) == Vote(who, src, nonce, r, call, FALSE)

eval_vote_state(src, nonce, call) ==
  LET p == <<src, nonce, call>>
  IN /\ votes[p].status # "None"
     /\ try_resolve_proposal(p, votes[p])
     /\ UNCHANGED <<now, admin, outbound>>

-----------------------------------------------------------------------------
(* Deposits leaving this chain, called by other pallets.                   *)

bump_nonce(c) ==
  LET nonce == chains[c] + 1
  IN /\ chain_whitelisted(c)
     /\ nonce <= MaxNonce
     /\ chains' = [chains EXCEPT ![c] = nonce]
     /\ sent' = [sent EXCEPT ![c] = Append(@, nonce)]
     /\ UNCHANGED <<now, admin, inbound>>

transfer_fungible(c) == bump_nonce(c)
transfer_nonfungible(c) == bump_nonce(c)
transfer_generic(c) == bump_nonce(c)

NextBlock ==
  /\ now < MaxBlock
  /\ now' = now + 1
  /\ UNCHANGED <<admin, outbound, inbound>>

-----------------------------------------------------------------------------
Administer ==
  \/ \E n \in Threshold : set_threshold(n)
  \/ \E a \in Account : add_relayer(a) \/ remove_relayer(a)
  \/ \E r \in Resource : set_resource(r) \/ remove_resource(r)
  \/ \E c \in Chain : whitelist_chain(c)

Propose ==
  \E src \in Chain, nonce \in DepositNonce, call \in Proposal :
    \/ \E who \in Account, r \in Resource :
         \/ acknowledge_proposal(who, src, nonce, r, call)
         \/ reject_proposal(who, src, nonce, r, call)
    \/ eval_vote_state(src, nonce, call)

Send ==
  \E c \in Chain :
    transfer_fungible(c) \/ transfer_nonfungible(c) \/ transfer_generic(c)

Next == Administer \/ Propose \/ Send \/ NextBlock

Spec == Init /\ [][Next]_vars

-----------------------------------------------------------------------------
(* Properties.                                                             *)

(* No call of a deposit is ever dispatched twice, whatever the order of    *)
(* votes, evaluations and changes of threshold and relayers; and what the  *)
(* chain records as approved is what it dispatched.                        *)
ExecutedOnce ==
  \A p \in Deposit : executed[p] = IF votes[p].status = "Approved" THEN 1 ELSE 0

OneVote(v) ==
  /\ IsInjective(v.votes_for)
  /\ IsInjective(v.votes_against)
  /\ Range(v.votes_for) \cap Range(v.votes_against) = {}

(* Nobody is counted twice on a proposal, nor on both sides, not even one  *)
(* who was removed from the relayers and added again in between.           *)
OneVoteEach == \A p \in Deposit : OneVote(votes[p])

(* The counter that decides rejections is the size of the set of relayers, *)
(* from which it is stored apart.                                          *)
CountMatches == count = Cardinality(relayers)

(* Deposits to a chain are numbered without gap or repetition: the other   *)
(* side tells them apart by number alone.                                  *)
NoncesInSequence ==
  \A c \in Chain : sent[c] = [i \in 1..Len(sent[c]) |-> i]

(* A decided or expired proposal is closed for good: a later vote, a       *)
(* changed threshold or an evaluation neither reopens nor executes it.     *)
ClosedStaysClosed ==
  [][\A p \in Deposit :
       (/\ votes[p].status # "None"
        /\ is_complete(votes[p]) \/ is_expired(votes[p]))
         => votes'[p] = votes[p] /\ executed'[p] = executed[p]]_vars

(* A call is dispatched only when the threshold in force is met by as many *)
(* different accounts, each of whom voted while a relayer.                 *)
QuorumBehindExecution ==
  [][\A p \in Deposit :
       executed'[p] # executed[p]
         => Cardinality(Range(votes'[p].votes_for)) >= threshold]_vars

(* Votes cannot split for ever: when a vote or an evaluation leaves a      *)
(* proposal open under a threshold the relayers can reach, some relayer    *)
(* has not voted on it yet.                                                *)
OpenAwaitsSomeone ==
  [][\A p \in Deposit :
       (/\ votes'[p] # votes[p]
        /\ votes'[p].status = "Initiated"
        /\ threshold <= count)
         => \E a \in relayers : ~hash_voted(votes'[p], a)]_vars

D == INSTANCE Delivery WITH
       delivered <- executed,
       refused <- {p \in Deposit : votes[p].status = "Rejected"},
       posted <- sent

(* Voting implements the delivery of calls: whatever relayers, threshold   *)
(* and blocks do, a step dispatches one waiting call, refuses one, posts   *)
(* one deposit with the next number, or is invisible to the pallets that   *)
(* build on the bridge.                                                    *)
DeliverySpec == D!Spec
=============================================================================
