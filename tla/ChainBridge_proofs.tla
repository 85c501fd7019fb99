------------------------- MODULE ChainBridge_proofs -------------------------
(***************************************************************************)
(* Proofs about relayer voting, for any set of accounts, chains, deposits  *)
(* and any lifetime of a proposal.                                         *)
(***************************************************************************)
EXTENDS ChainBridge, FiniteSetTheorems, TLAPS

(* The inductive invariant: the nonce of a chain counts the events sent to *)
(* it, an unknown proposal has no votes, and the safety properties.        *)
NonceCounts ==
  \A c \in Chain : Len(sent[c]) = IF chains[c] = Unlisted THEN 0 ELSE chains[c]

IInv ==
  /\ TypeOK
  /\ CountMatches
  /\ ExecutedOnce
  /\ OneVoteEach
  /\ NonceCounts
  /\ NoncesInSequence

(* The voters of a sequence are finitely many, at most its length, and     *)
(* exactly its length when nobody is listed twice.                         *)
LEMMA VoterCount ==
  ASSUME NEW s \in Seq(Account)
  PROVE  /\ IsFiniteSet(Range(s))
         /\ Cardinality(Range(s)) \in Nat
         /\ Cardinality(Range(s)) <= Len(s)
         /\ IsInjective(s) => Cardinality(Range(s)) = Len(s)
<1>1. Len(s) \in Nat /\ DOMAIN s = 1..Len(s)
  OBVIOUS
<1>2. IsFiniteSet(1..Len(s)) /\ Cardinality(1..Len(s)) = Len(s)
  BY <1>1, FS_Interval, SMTT(30)
<1>3. s \in Surjection(1..Len(s), Range(s))
  BY <1>1 DEF Surjection, Range
<1>4. IsInjective(s) => s \in Injection(1..Len(s), Range(s))
  BY <1>1 DEF Injection, Range
<1>5. /\ IsFiniteSet(Range(s))
      /\ Cardinality(Range(s)) <= Cardinality(1..Len(s))
      /\ Cardinality(Range(s)) = Cardinality(1..Len(s))
           <=> s \in Injection(1..Len(s), Range(s))
  BY <1>2, <1>3, FS_Surjection
<1>6. QED
  BY <1>2, <1>4, <1>5, FS_CardinalityType

(* Appending a newcomer keeps a list of voters free of repetitions.        *)
LEMMA AppendVoter ==
  ASSUME NEW s \in Seq(Account), NEW a \in Account, a \notin Range(s)
  PROVE  /\ Append(s, a) \in Seq(Account)
         /\ Range(Append(s, a)) = Range(s) \cup {a}
         /\ IsInjective(s) => IsInjective(Append(s, a))
<1>1. /\ Append(s, a) \in Seq(Account)
      /\ DOMAIN Append(s, a) = 1..(Len(s) + 1)
      /\ \A i \in 1..Len(s) : Append(s, a)[i] = s[i]
      /\ Append(s, a)[Len(s) + 1] = a
      /\ DOMAIN s = 1..Len(s) /\ Len(s) \in Nat
  OBVIOUS
<1>2. Range(Append(s, a)) = Range(s) \cup {a}
  BY <1>1 DEF Range
<1>3. ASSUME IsInjective(s) PROVE IsInjective(Append(s, a))
  <2>1. \A i \in 1..Len(s) : Append(s, a)[i] # a
    BY <1>1 DEF Range
  <2>2. \A i, j \in 1..Len(s) : Append(s, a)[i] = Append(s, a)[j] => i = j
    BY <1>1, <1>3 DEF IsInjective
  <2>3. \A i \in 1..(Len(s) + 1) : i \in 1..Len(s) \/ i = Len(s) + 1
    BY <1>1
  <2>4. QED
    BY <1>1, <2>1, <2>2, <2>3 DEF IsInjective
<1>4. QED
  BY <1>1, <1>2, <1>3

(* A fresh vote on a well-formed open proposal gives a well-formed one.    *)
LEMMA CommitVote ==
  ASSUME NEW v \in ProposalVotes, OneVote(v), NEW who \in Account,
         ~hash_voted(v, who), NEW f \in BOOLEAN
  PROVE  /\ commit_vote(v, who, f) \in ProposalVotes
         /\ OneVote(commit_vote(v, who, f))
         /\ commit_vote(v, who, f).status = v.status
<1>1. /\ v.votes_for \in Seq(Account) /\ v.votes_against \in Seq(Account)
      /\ who \notin Range(v.votes_for) /\ who \notin Range(v.votes_against)
  BY DEF ProposalVotes, hash_voted
<1>2. /\ Append(v.votes_for, who) \in Seq(Account)
      /\ Range(Append(v.votes_for, who)) = Range(v.votes_for) \cup {who}
      /\ IsInjective(v.votes_for) => IsInjective(Append(v.votes_for, who))
  BY <1>1, AppendVoter
<1>3. /\ Append(v.votes_against, who) \in Seq(Account)
      /\ Range(Append(v.votes_against, who)) = Range(v.votes_against) \cup {who}
      /\ IsInjective(v.votes_against) => IsInjective(Append(v.votes_against, who))
  BY <1>1, AppendVoter
<1>4. CASE f
  <2> DEFINE w == commit_vote(v, who, f)
  <2>1. w = [v EXCEPT !.votes_for = Append(v.votes_for, who)]
    BY <1>4 DEF commit_vote
  <2>2. w = [votes_for |-> Append(v.votes_for, who), votes_against |-> v.votes_against,
             expiry |-> v.expiry, status |-> v.status]
    BY <2>1 DEF ProposalVotes
  <2> HIDE DEF w
  <2>3. w \in ProposalVotes
    BY <2>2, <1>2 DEF ProposalVotes
  <2>4. OneVote(w)
    BY <2>2, <1>1, <1>2 DEF OneVote
  <2>5. QED
    BY <2>2, <2>3, <2>4 DEF w
<1>5. CASE ~f
  <2> DEFINE w == commit_vote(v, who, f)
  <2>1. w = [v EXCEPT !.votes_against = Append(v.votes_against, who)]
    BY <1>5 DEF commit_vote
  <2>2. w = [votes_for |-> v.votes_for, votes_against |-> Append(v.votes_against, who),
             expiry |-> v.expiry, status |-> v.status]
    BY <2>1 DEF ProposalVotes
  <2> HIDE DEF w
  <2>3. w \in ProposalVotes
    BY <2>2, <1>3 DEF ProposalVotes
  <2>4. OneVote(w)
    BY <2>2, <1>1, <1>3 DEF OneVote
  <2>5. QED
    BY <2>2, <2>3, <2>4 DEF w
<1>6. QED
  BY <1>4, <1>5

(* Deciding a proposal changes its status and nothing else of it.          *)
LEMMA Decide ==
  ASSUME NEW v \in ProposalVotes, v.status = "Initiated"
  PROVE  /\ try_to_complete(v) \in ProposalVotes
         /\ try_to_complete(v).votes_for = v.votes_for
         /\ try_to_complete(v).votes_against = v.votes_against
         /\ OneVote(v) => OneVote(try_to_complete(v))
  BY DEF try_to_complete, ProposalVotes, OneVote

(* What a vote finds: an open, well-formed proposal that never executed.   *)
LEMMA OpenedIsSound ==
  ASSUME IInv, NEW p \in Deposit, ~is_complete(Opened(p))
  PROVE  /\ Opened(p) \in ProposalVotes
         /\ OneVote(Opened(p))
         /\ Opened(p).status = "Initiated"
         /\ executed[p] = 0
<1>1. /\ votes[p] \in ProposalVotes /\ OneVote(votes[p]) /\ now \in Nat
      /\ executed[p] = IF votes[p].status = "Approved" THEN 1 ELSE 0
  BY DEF IInv, TypeOK, OneVoteEach, ExecutedOnce
<1>2. CASE votes[p].status = "None"
  <2>1. Opened(p) = [votes_for |-> <<>>, votes_against |-> <<>>,
                     expiry |-> now + ProposalLifetime, status |-> "Initiated"]
    BY <1>2 DEF Opened
  <2>2. now + ProposalLifetime \in Nat
    BY <1>1, BridgeAssumption
  <2>3. OneVote(Opened(p))
    BY <2>1 DEF OneVote, IsInjective, Range
  <2>4. QED
    BY <1>1, <1>2, <2>1, <2>2, <2>3 DEF ProposalVotes
<1>3. CASE votes[p].status # "None"
  BY <1>1, <1>3 DEF Opened, is_complete, ProposalVotes
<1>4. QED
  BY <1>2, <1>3

(* Resolving a sound proposal preserves the invariant.                     *)
LEMMA ResolveInv ==
  ASSUME IInv, NEW p \in Deposit, NEW v \in ProposalVotes,
         v.status = "Initiated", OneVote(v), executed[p] = 0,
         try_resolve_proposal(p, v), UNCHANGED <<now, admin, outbound>>
  PROVE  IInv'
<1> DEFINE w == try_to_complete(v)
<1>1. w \in ProposalVotes /\ OneVote(w)
  BY Decide
<1>2. /\ votes' = [votes EXCEPT ![p] = w]
      /\ executed' = [executed EXCEPT ![p] =
                        IF w.status = "Approved" THEN executed[p] + 1 ELSE executed[p]]
  BY DEF try_resolve_proposal
<1> HIDE DEF w
<1>3. UNCHANGED <<now, threshold, relayers, count, resources, chains, sent>>
  BY DEF admin, outbound
<1>4. TypeOK'
  BY <1>1, <1>2, <1>3 DEF IInv, TypeOK
<1>5. ExecutedOnce'
  BY <1>2 DEF IInv, TypeOK, ExecutedOnce
<1>6. OneVoteEach'
  BY <1>1, <1>2 DEF IInv, TypeOK, OneVoteEach
<1>7. CountMatches' /\ NonceCounts' /\ NoncesInSequence'
  BY <1>3 DEF IInv, CountMatches, NonceCounts, NoncesInSequence
<1>8. QED
  BY <1>4, <1>5, <1>6, <1>7 DEF IInv

(* A vote preserves the invariant.                                         *)
LEMMA VoteInv ==
  ASSUME IInv, NEW who \in Account, NEW src \in Chain, NEW nonce \in DepositNonce,
         NEW r \in Resource, NEW call \in Proposal, NEW f \in BOOLEAN,
         Vote(who, src, nonce, r, call, f)
  PROVE  IInv'
<1> DEFINE p == <<src, nonce, call>>
           v == Opened(p)
<1>1. p \in Deposit
  BY DEF Deposit
<1>2. /\ IsOpen(v) /\ ~hash_voted(v, who)
      /\ try_resolve_proposal(p, commit_vote(v, who, f))
      /\ UNCHANGED <<now, admin, outbound>>
  BY DEF Vote
<1> HIDE DEF p
<1>3. v \in ProposalVotes /\ OneVote(v) /\ v.status = "Initiated" /\ executed[p] = 0
  BY <1>1, <1>2, OpenedIsSound DEF IsOpen
<1> HIDE DEF v
<1>4. /\ commit_vote(v, who, f) \in ProposalVotes
      /\ OneVote(commit_vote(v, who, f))
      /\ commit_vote(v, who, f).status = "Initiated"
  BY <1>2, <1>3, CommitVote
<1>5. QED
  BY <1>1, <1>2, <1>3, <1>4, ResolveInv

(* An evaluation preserves the invariant.                                  *)
LEMMA EvalInv ==
  ASSUME IInv, NEW src \in Chain, NEW nonce \in DepositNonce, NEW call \in Proposal,
         eval_vote_state(src, nonce, call)
  PROVE  IInv'
<1> DEFINE p == <<src, nonce, call>>
<1>1. p \in Deposit
  BY DEF Deposit
<1>2. /\ votes[p].status # "None" /\ IsOpen(votes[p])
      /\ try_resolve_proposal(p, votes[p])
      /\ UNCHANGED <<now, admin, outbound>>
  BY DEF eval_vote_state, try_resolve_proposal
<1> HIDE DEF p
<1>3. Opened(p) = votes[p]
  BY <1>2 DEF Opened
<1>4. /\ votes[p] \in ProposalVotes /\ OneVote(votes[p])
      /\ votes[p].status = "Initiated" /\ executed[p] = 0
  BY <1>1, <1>2, <1>3, OpenedIsSound DEF IsOpen
<1>5. QED
  BY <1>1, <1>2, <1>4, ResolveInv

(* A transfer event preserves the invariant.                               *)
LEMMA BumpInv ==
  ASSUME IInv, NEW c \in Chain, bump_nonce(c)
  PROVE  IInv'
<1> DEFINE n == chains[c] + 1
<1>1. /\ chains' = [chains EXCEPT ![c] = n]
      /\ sent' = [sent EXCEPT ![c] = Append(sent[c], n)]
      /\ chains[c] # Unlisted
      /\ UNCHANGED <<now, threshold, relayers, count, resources, votes, executed>>
  BY DEF bump_nonce, chain_whitelisted, admin, inbound
<1>2. /\ chains[c] \in Nat /\ n \in Nat /\ n # Unlisted
      /\ sent[c] \in Seq(Nat) /\ Len(sent[c]) = chains[c]
      /\ sent[c] = [i \in 1..Len(sent[c]) |-> i]
  <2>1. chains[c] \in Nat
    BY <1>1 DEF IInv, TypeOK
  <2>2. n \in Nat /\ n # Unlisted
    BY <2>1 DEF Unlisted
  <2>3. QED
    BY <1>1, <2>1, <2>2 DEF IInv, TypeOK, NonceCounts, NoncesInSequence
<1>3. /\ Append(sent[c], n) \in Seq(Nat)
      /\ Len(Append(sent[c], n)) = n
      /\ Append(sent[c], n) = [i \in 1..n |-> i]
  BY <1>2
<1>4. TypeOK'
  <2>1. chains' \in [Chain -> Nat \cup {Unlisted}] /\ sent' \in [Chain -> Seq(Nat)]
    BY <1>1, <1>2, <1>3 DEF IInv, TypeOK
  <2>2. c # ThisChain
    BY <1>1 DEF IInv, TypeOK
  <2>3. QED
    BY <1>1, <2>1, <2>2 DEF IInv, TypeOK
<1>5. NonceCounts' /\ NoncesInSequence'
  <2> SUFFICES ASSUME NEW e \in Chain
               PROVE  /\ Len(sent'[e]) = IF chains'[e] = Unlisted THEN 0 ELSE chains'[e]
                      /\ sent'[e] = [i \in 1..Len(sent'[e]) |-> i]
    BY DEF NonceCounts, NoncesInSequence
  <2>1. CASE e = c
    BY <1>1, <1>2, <1>3, <2>1 DEF IInv, TypeOK
  <2>2. CASE e # c
    BY <1>1, <2>2 DEF IInv, TypeOK, NonceCounts, NoncesInSequence
  <2>3. QED
    BY <2>1, <2>2
<1>6. CountMatches' /\ ExecutedOnce' /\ OneVoteEach'
  BY <1>1 DEF IInv, CountMatches, ExecutedOnce, OneVoteEach
<1>7. QED
  BY <1>4, <1>5, <1>6 DEF IInv

(* Administration preserves the invariant.                                 *)
LEMMA AdminInv ==
  ASSUME IInv, Administer
  PROVE  IInv'
<1> USE DEF outbound, inbound, admin
<1>1. ASSUME NEW n \in Threshold, set_threshold(n) PROVE IInv'
  BY <1>1, BridgeAssumption
  DEF set_threshold, IInv, TypeOK, CountMatches, ExecutedOnce, OneVoteEach,
      NonceCounts, NoncesInSequence
<1>2. ASSUME NEW a \in Account, add_relayer(a) PROVE IInv'
  <2>1. IsFiniteSet(relayers)
    BY BridgeAssumption, FS_Subset DEF IInv, TypeOK
  <2>2. Cardinality(relayers \cup {a}) = Cardinality(relayers) + 1
    BY <1>2, <2>1, FS_AddElement DEF add_relayer
  <2>3. QED
    BY <1>2, <2>2
    DEF add_relayer, IInv, TypeOK, CountMatches, ExecutedOnce, OneVoteEach,
        NonceCounts, NoncesInSequence
<1>3. ASSUME NEW a \in Account, remove_relayer(a) PROVE IInv'
  <2>1. IsFiniteSet(relayers)
    BY BridgeAssumption, FS_Subset DEF IInv, TypeOK
  <2>2. /\ Cardinality(relayers \ {a}) = Cardinality(relayers) - 1
        /\ IsFiniteSet(relayers \ {a})
    BY <1>3, <2>1, FS_RemoveElement DEF remove_relayer
  <2>3. Cardinality(relayers \ {a}) \in Nat
    BY <2>2, FS_CardinalityType
  <2>4. QED
    BY <1>3, <2>2, <2>3
    DEF remove_relayer, IInv, TypeOK, CountMatches, ExecutedOnce, OneVoteEach,
        NonceCounts, NoncesInSequence
<1>4. ASSUME NEW r \in Resource, set_resource(r) \/ remove_resource(r) PROVE IInv'
  BY <1>4
  DEF set_resource, remove_resource, IInv, TypeOK, CountMatches, ExecutedOnce,
      OneVoteEach, NonceCounts, NoncesInSequence
<1>5. ASSUME NEW c \in Chain, whitelist_chain(c) PROVE IInv'
  <2>1. /\ c # ThisChain /\ chains[c] = Unlisted
        /\ chains' = [chains EXCEPT ![c] = 0]
        /\ UNCHANGED <<now, threshold, relayers, count, resources, sent, votes, executed>>
    BY <1>5 DEF whitelist_chain, chain_whitelisted
  <2>2. TypeOK'
    BY <2>1 DEF IInv, TypeOK
  <2>3. NonceCounts'
    BY <2>1 DEF IInv, TypeOK, NonceCounts, Unlisted
  <2>4. CountMatches' /\ ExecutedOnce' /\ OneVoteEach' /\ NoncesInSequence'
    BY <2>1 DEF IInv, CountMatches, ExecutedOnce, OneVoteEach, NoncesInSequence
  <2>5. QED
    BY <2>2, <2>3, <2>4 DEF IInv
<1>6. QED
  BY <1>1, <1>2, <1>3, <1>4, <1>5 DEF Administer

(* The initial state satisfies the invariant.                              *)
LEMMA InitInv == Init => IInv
<1> SUFFICES ASSUME Init PROVE IInv
  OBVIOUS
<1>1. Unknown \in ProposalVotes /\ Unknown.status = "None" /\ OneVote(Unknown)
  BY DEF Unknown, ProposalVotes, OneVote, IsInjective, Range
<1>2. TypeOK
  BY <1>1, BridgeAssumption DEF Init, TypeOK, Unlisted
<1>3. CountMatches
  BY FS_EmptySet DEF Init, CountMatches
<1>4. ExecutedOnce /\ OneVoteEach
  BY <1>1 DEF Init, ExecutedOnce, OneVoteEach
<1>5. NonceCounts /\ NoncesInSequence
  BY DEF Init, NonceCounts, NoncesInSequence
<1>6. QED
  BY <1>2, <1>3, <1>4, <1>5 DEF IInv

(* Every step preserves the invariant.                                     *)
LEMMA NextInv == IInv /\ [Next]_vars => IInv'
<1> SUFFICES ASSUME IInv, [Next]_vars PROVE IInv'
  OBVIOUS
<1>1. CASE Administer
  BY <1>1, AdminInv
<1>2. CASE Propose
  <2>1. ASSUME NEW src \in Chain, NEW nonce \in DepositNonce, NEW call \in Proposal,
               NEW who \in Account, NEW r \in Resource,
               \/ acknowledge_proposal(who, src, nonce, r, call)
               \/ reject_proposal(who, src, nonce, r, call)
        PROVE  IInv'
    <3>1. PICK f \in BOOLEAN : Vote(who, src, nonce, r, call, f)
      BY <2>1 DEF acknowledge_proposal, reject_proposal
    <3>2. QED
      BY <3>1, VoteInv
  <2>2. ASSUME NEW src \in Chain, NEW nonce \in DepositNonce, NEW call \in Proposal,
               eval_vote_state(src, nonce, call)
        PROVE  IInv'
    BY <2>2, EvalInv
  <2>3. QED
    BY <1>2, <2>1, <2>2 DEF Propose
<1>3. CASE Send
  <2>1. PICK c \in Chain : bump_nonce(c)
    BY <1>3 DEF Send, transfer_fungible, transfer_nonfungible, transfer_generic
  <2>2. QED
    BY <2>1, BumpInv
<1>4. CASE NextBlock
  BY <1>4
  DEF NextBlock, admin, outbound, inbound, IInv, TypeOK, CountMatches, ExecutedOnce,
      OneVoteEach, NonceCounts, NoncesInSequence
<1>5. CASE UNCHANGED vars
  BY <1>5
  DEF vars, admin, outbound, inbound, IInv, TypeOK, CountMatches, ExecutedOnce,
      OneVoteEach, NonceCounts, NoncesInSequence
<1>6. QED
  BY <1>1, <1>2, <1>3, <1>4, <1>5 DEF Next

(* The invariant holds for ever.                                           *)
LEMMA Invariance == Spec => []IInv
  BY InitInv, NextInv, PTL DEF Spec

(* The bridge state stays well-typed: in particular the threshold is never *)
(* zero and this chain is never a destination.                             *)
THEOREM TypeCorrect == Spec => []TypeOK
<1>1. IInv => TypeOK
  BY DEF IInv
<1>2. QED
  BY <1>1, Invariance, PTL

(* finalize_execution dispatches the call of a deposit at most once.       *)
THEOREM NoDoubleExecution == Spec => []ExecutedOnce
<1>1. IInv => ExecutedOnce
  BY DEF IInv
<1>2. QED
  BY <1>1, Invariance, PTL

(* commit_vote counts no account twice on a proposal.                      *)
THEOREM VotesAreDistinct == Spec => []OneVoteEach
<1>1. IInv => OneVoteEach
  BY DEF IInv
<1>2. QED
  BY <1>1, Invariance, PTL

(* RelayerCount always equals the number of relayers.                      *)
THEOREM CounterIsExact == Spec => []CountMatches
<1>1. IInv => CountMatches
  BY DEF IInv
<1>2. QED
  BY <1>1, Invariance, PTL

(* bump_nonce numbers the deposits to each chain 1, 2, 3, ...              *)
THEOREM DepositsInSequence == Spec => []NoncesInSequence
<1>1. IInv => NoncesInSequence
  BY DEF IInv
<1>2. QED
  BY <1>1, Invariance, PTL

-----------------------------------------------------------------------------
(* What a step of the bridge may do to a proposal p: resolve it with the   *)
(* sound, undecided votes v, provided p is unknown or still open.          *)
Resolves(p, v) ==
  /\ v \in ProposalVotes /\ v.status = "Initiated" /\ OneVote(v)
  /\ votes[p].status # "None" => IsOpen(votes[p])
  /\ try_resolve_proposal(p, v)
  /\ UNCHANGED <<threshold, relayers, count>>

(* A step leaves all proposals alone or resolves exactly one.              *)
LEMMA StepShape ==
  ASSUME IInv, [Next]_vars
  PROVE  \/ UNCHANGED <<votes, executed>>
         \/ \E p \in Deposit : \E v : Resolves(p, v)
<1>1. CASE Administer
  BY <1>1
  DEF Administer, set_threshold, add_relayer, remove_relayer, set_resource,
      remove_resource, whitelist_chain, inbound
<1>2. ASSUME NEW src \in Chain, NEW nonce \in DepositNonce, NEW call \in Proposal,
             NEW who \in Account, NEW r \in Resource, NEW f \in BOOLEAN,
             Vote(who, src, nonce, r, call, f)
      PROVE  \E p \in Deposit : \E v : Resolves(p, v)
  <2> DEFINE p == <<src, nonce, call>>
             v == Opened(p)
             w == commit_vote(v, who, f)
  <2>1. p \in Deposit
    BY DEF Deposit
  <2>2. /\ IsOpen(v) /\ ~hash_voted(v, who)
        /\ try_resolve_proposal(p, w)
        /\ UNCHANGED <<threshold, relayers, count>>
    BY <1>2 DEF Vote, admin
  <2> HIDE DEF p
  <2>3. v \in ProposalVotes /\ OneVote(v) /\ v.status = "Initiated"
    BY <2>1, <2>2, OpenedIsSound DEF IsOpen
  <2>4. votes[p].status # "None" => IsOpen(votes[p])
    BY <2>2 DEF Opened
  <2> HIDE DEF v
  <2>5. w \in ProposalVotes /\ OneVote(w) /\ w.status = "Initiated"
    BY <2>2, <2>3, CommitVote
  <2> HIDE DEF w
  <2>6. Resolves(p, w)
    BY <2>2, <2>4, <2>5 DEF Resolves
  <2>7. QED
    BY <2>1, <2>6
<1>3. ASSUME NEW src \in Chain, NEW nonce \in DepositNonce, NEW call \in Proposal,
             eval_vote_state(src, nonce, call)
      PROVE  \E p \in Deposit : \E v : Resolves(p, v)
  <2> DEFINE p == <<src, nonce, call>>
  <2>1. p \in Deposit
    BY DEF Deposit
  <2>2. /\ votes[p].status # "None" /\ IsOpen(votes[p])
        /\ try_resolve_proposal(p, votes[p])
        /\ UNCHANGED <<threshold, relayers, count>>
    BY <1>3 DEF eval_vote_state, try_resolve_proposal, admin
  <2> HIDE DEF p
  <2>3. Opened(p) = votes[p]
    BY <2>2 DEF Opened
  <2>4. Resolves(p, votes[p])
    BY <2>1, <2>2, <2>3, OpenedIsSound DEF IsOpen, Resolves
  <2>5. QED
    BY <2>1, <2>4
<1>4. CASE Propose
  <2>1. ASSUME NEW src \in Chain, NEW nonce \in DepositNonce, NEW call \in Proposal,
               NEW who \in Account, NEW r \in Resource,
               \/ acknowledge_proposal(who, src, nonce, r, call)
               \/ reject_proposal(who, src, nonce, r, call)
        PROVE  \E p \in Deposit : \E v : Resolves(p, v)
    <3>1. PICK f \in BOOLEAN : Vote(who, src, nonce, r, call, f)
      BY <2>1 DEF acknowledge_proposal, reject_proposal
    <3>2. QED
      BY <3>1, <1>2
  <2>2. QED
    BY <1>3, <1>4, <2>1 DEF Propose
<1>5. CASE Send \/ NextBlock \/ UNCHANGED vars
  BY <1>5
  DEF Send, transfer_fungible, transfer_nonfungible, transfer_generic, bump_nonce,
      NextBlock, vars, inbound
<1>6. QED
  BY <1>1, <1>4, <1>5 DEF Next

(* The step behind ClosedStaysClosed.                                      *)
LEMMA StepClosed ==
  ASSUME IInv, [Next]_vars, NEW q \in Deposit,
         votes[q].status # "None", ~IsOpen(votes[q])
  PROVE  votes'[q] = votes[q] /\ executed'[q] = executed[q]
<1>1. CASE UNCHANGED <<votes, executed>>
  BY <1>1
<1>2. CASE \E p \in Deposit : \E v : Resolves(p, v)
  <2>1. PICK p \in Deposit : \E v : Resolves(p, v)
    BY <1>2
  <2>2. PICK v : Resolves(p, v)
    BY <2>1
  <2>3. p # q
    BY <2>2 DEF Resolves
  <2>4. QED
    BY <2>2, <2>3 DEF Resolves, try_resolve_proposal, IInv, TypeOK
<1>3. QED
  BY <1>1, <1>2, StepShape

(* The step behind QuorumBehindExecution.                                  *)
LEMMA StepQuorum ==
  ASSUME IInv, [Next]_vars, NEW q \in Deposit, executed'[q] # executed[q]
  PROVE  Cardinality(Range(votes'[q].votes_for)) >= threshold
<1>1. PICK p \in Deposit : \E v : Resolves(p, v)
  BY StepShape
<1>2. PICK v : Resolves(p, v)
  BY <1>1
<1> DEFINE w == try_to_complete(v)
<1>3. /\ votes' = [votes EXCEPT ![p] = w]
      /\ executed' = [executed EXCEPT ![p] =
                        IF w.status = "Approved" THEN executed[p] + 1 ELSE executed[p]]
  BY <1>2 DEF Resolves, try_resolve_proposal
<1>4. v \in ProposalVotes /\ v.status = "Initiated" /\ OneVote(v)
  BY <1>2 DEF Resolves
<1>5. w.votes_for = v.votes_for
  BY <1>4, Decide
<1>6. w.status = "Approved" => threshold <= Len(v.votes_for)
  BY <1>4 DEF try_to_complete, ProposalVotes
<1> HIDE DEF w
<1>7. q = p /\ w.status = "Approved" /\ votes'[q] = w
  BY <1>3 DEF IInv, TypeOK
<1>8. Cardinality(Range(v.votes_for)) = Len(v.votes_for)
  <2>1. v.votes_for \in Seq(Account) /\ IsInjective(v.votes_for)
    BY <1>4 DEF ProposalVotes, OneVote
  <2>2. QED
    BY <2>1, VoterCount
<1>9. threshold \in Nat /\ Len(v.votes_for) \in Nat
  BY <1>4 DEF IInv, TypeOK, ProposalVotes
<1>10. QED
  BY <1>5, <1>6, <1>7, <1>8, <1>9

(* If fewer than t of nf vote for and na + t is within n, then n is more    *)
(* than any union of the voters can hold.                                  *)
LEMMA TooFewVotes ==
  ASSUME NEW nf \in Nat, NEW na \in Nat, NEW f \in Nat, NEW a \in Nat, NEW both \in Nat,
         NEW union \in Nat, NEW t \in Nat, NEW n \in Nat, f <= nf, a <= na,
         union = f + a - both, ~(t <= nf), ~(n < na + t)
  PROVE  ~(n <= union)
  OBVIOUS

(* The step behind OpenAwaitsSomeone: fewer than threshold voted for, at   *)
(* most count - threshold against, so together fewer than count.           *)
LEMMA StepOpen ==
  ASSUME IInv, [Next]_vars, NEW q \in Deposit, votes'[q] # votes[q],
         votes'[q].status = "Initiated", threshold <= count
  PROVE  \E a \in relayers : ~hash_voted(votes'[q], a)
<1>1. PICK p \in Deposit : \E v : Resolves(p, v)
  BY StepShape
<1>2. PICK v : Resolves(p, v)
  BY <1>1
<1> DEFINE w == try_to_complete(v)
<1>3. votes' = [votes EXCEPT ![p] = w]
  BY <1>2 DEF Resolves, try_resolve_proposal
<1>4. v \in ProposalVotes /\ v.status = "Initiated"
  BY <1>2 DEF Resolves
<1>5. w.votes_for = v.votes_for /\ w.votes_against = v.votes_against
  BY <1>4, Decide
<1>6. w.status = "Initiated" =>
        ~(threshold <= Len(v.votes_for)) /\ ~(count < Len(v.votes_against) + threshold)
  BY <1>4 DEF try_to_complete, ProposalVotes
<1> HIDE DEF w
<1>7. q = p /\ votes'[q] = w
  BY <1>3 DEF IInv, TypeOK
<1> DEFINE F == Range(v.votes_for)
           A == Range(v.votes_against)
<1>8. /\ IsFiniteSet(F) /\ Cardinality(F) \in Nat /\ Cardinality(F) <= Len(v.votes_for)
      /\ IsFiniteSet(A) /\ Cardinality(A) \in Nat /\ Cardinality(A) <= Len(v.votes_against)
  <2>1. v.votes_for \in Seq(Account) /\ v.votes_against \in Seq(Account)
    BY <1>4 DEF ProposalVotes
  <2>2. QED
    BY <2>1, VoterCount
<1>9. /\ threshold \in Nat /\ count \in Nat /\ count = Cardinality(relayers)
      /\ Len(v.votes_for) \in Nat /\ Len(v.votes_against) \in Nat
  BY <1>4 DEF IInv, TypeOK, CountMatches, ProposalVotes
<1>10. \A a : hash_voted(votes'[q], a) <=> a \in F \cup A
  BY <1>5, <1>7 DEF hash_voted
<1> HIDE DEF F, A
<1>11. SUFFICES ASSUME relayers \subseteq F \cup A PROVE FALSE
  BY <1>10
<1>12. /\ IsFiniteSet(F \cup A)
       /\ Cardinality(F \cup A) = Cardinality(F) + Cardinality(A) - Cardinality(F \cap A)
  BY <1>8, FS_Union
<1>13. Cardinality(F \cap A) \in Nat
  <2>1. IsFiniteSet(F \cap A)
    BY <1>8, FS_Subset
  <2>2. QED
    BY <2>1, FS_CardinalityType
<1>14. Cardinality(relayers) <= Cardinality(F \cup A)
  BY <1>11, <1>12, FS_Subset
<1>15. ~(threshold <= Len(v.votes_for)) /\ ~(count < Len(v.votes_against) + threshold)
  BY <1>6, <1>7
<1>16. Cardinality(F \cup A) \in Nat
  BY <1>12, FS_CardinalityType
<1>17. QED
  BY <1>8, <1>9, <1>12, <1>13, <1>14, <1>15, <1>16, TooFewVotes

(* A decided or expired proposal is never reopened or executed by a later  *)
(* vote, evaluation or administrative call.                                *)
THEOREM ClosedIsFinal == Spec => ClosedStaysClosed
<1> DEFINE Kept == \A p \in Deposit :
             (/\ votes[p].status # "None"
              /\ is_complete(votes[p]) \/ is_expired(votes[p]))
               => votes'[p] = votes[p] /\ executed'[p] = executed[p]
<1>1. IInv /\ [Next]_vars => Kept
  BY StepClosed DEF IsOpen
<1>2. QED
  BY <1>1, Invariance, PTL DEF Spec, ClosedStaysClosed

(* Behind every dispatched call stand as many different accounts as the    *)
(* threshold asks for, however relayers were removed and added meanwhile.  *)
THEOREM ExecutionNeedsQuorum == Spec => QuorumBehindExecution
<1> DEFINE Backed == \A p \in Deposit :
             executed'[p] # executed[p]
               => Cardinality(Range(votes'[p].votes_for)) >= threshold
<1>1. IInv /\ [Next]_vars => Backed
  BY StepQuorum
<1>2. QED
  BY <1>1, Invariance, PTL DEF Spec, QuorumBehindExecution

(* try_to_complete decides every proposal all relayers have voted on, as   *)
(* long as the threshold is within their number.                           *)
THEOREM NoSplitVote == Spec => OpenAwaitsSomeone
<1> DEFINE Awaits == \A p \in Deposit :
             (/\ votes'[p] # votes[p]
              /\ votes'[p].status = "Initiated"
              /\ threshold <= count)
               => \E a \in relayers : ~hash_voted(votes'[p], a)
<1>1. IInv /\ [Next]_vars => Awaits
  BY StepOpen
<1>2. QED
  BY <1>1, Invariance, PTL DEF Spec, OpenAwaitsSomeone

-----------------------------------------------------------------------------
(* Voting implements Delivery.                                             *)

(* A step that moves the events sent to a chain adds one with the next     *)
(* number, and leaves all proposals alone.                                 *)
LEMMA SentShape ==
  ASSUME IInv, [Next]_vars
  PROVE  \/ UNCHANGED sent
         \/ /\ UNCHANGED <<votes, executed>>
            /\ \E c \in Chain : sent' = [sent EXCEPT ![c] = Append(@, Len(@) + 1)]
<1>1. CASE Administer
  BY <1>1
  DEF Administer, set_threshold, add_relayer, remove_relayer, set_resource,
      remove_resource, whitelist_chain, outbound
<1>2. CASE Propose
  <2>1. \A who, src, nonce, r, call, f : Vote(who, src, nonce, r, call, f) => UNCHANGED sent
    BY DEF Vote, outbound
  <2>2. \A src, nonce, call : eval_vote_state(src, nonce, call) => UNCHANGED sent
    BY DEF eval_vote_state, outbound
  <2>3. QED
    BY <1>2, <2>1, <2>2 DEF Propose, acknowledge_proposal, reject_proposal
<1>3. CASE Send
  <2>1. PICK c \in Chain : bump_nonce(c)
    BY <1>3 DEF Send, transfer_fungible, transfer_nonfungible, transfer_generic
  <2>2. Len(sent[c]) = chains[c]
    BY <2>1 DEF bump_nonce, chain_whitelisted, IInv, NonceCounts
  <2>3. QED
    BY <2>1, <2>2 DEF bump_nonce, inbound
<1>4. CASE NextBlock \/ UNCHANGED vars
  BY <1>4 DEF NextBlock, vars, outbound
<1>5. QED
  BY <1>1, <1>2, <1>3, <1>4 DEF Next

(* Resolving a proposal delivers it, refuses it, or leaves it waiting.     *)
LEMMA ResolveDelivers ==
  ASSUME IInv, UNCHANGED sent, NEW p \in Deposit, NEW v, Resolves(p, v)
  PROVE  D!Deliver(p) \/ D!Refuse(p) \/ UNCHANGED D!vars
<1> DEFINE w == try_to_complete(v)
           refused == {q \in Deposit : votes[q].status = "Rejected"}
<1>1. /\ votes' = [votes EXCEPT ![p] = w]
      /\ executed' = [executed EXCEPT ![p] = IF w.status = "Approved" THEN @ + 1 ELSE @]
  BY DEF Resolves, try_resolve_proposal
<1>2. w.status \in {"Initiated", "Approved", "Rejected"}
  BY DEF Resolves, try_to_complete, ProposalVotes
<1>3. votes[p].status \in {"None", "Initiated"}
  BY DEF Resolves, IsOpen, is_complete, IInv, TypeOK, ProposalVotes
<1>4. executed[p] = 0 /\ p \notin refused
  BY <1>3 DEF IInv, ExecutedOnce
<1>5. votes \in [Deposit -> ProposalVotes] /\ executed \in [Deposit -> Nat]
  BY DEF IInv, TypeOK
<1> HIDE DEF w
<1>6. votes'[p] = w /\ \A q \in Deposit \ {p} : votes'[q] = votes[q]
  BY <1>1, <1>5
<1>7. refused' = IF w.status = "Rejected" THEN refused \cup {p} ELSE refused
  BY <1>4, <1>6
<1>8. CASE w.status = "Approved"
  <2>1. executed' = [executed EXCEPT ![p] = 1]
    BY <1>1, <1>4, <1>5, <1>8
  <2>2. refused' = refused
    BY <1>7, <1>8
  <2>3. QED
    BY <1>4, <2>1, <2>2 DEF D!Deliver, D!Waiting
<1>9. CASE w.status # "Approved"
  <2>1. executed' = executed
    BY <1>1, <1>5, <1>9
  <2>2. QED
    BY <1>4, <1>7, <2>1 DEF D!Refuse, D!Waiting, D!vars
<1>10. QED
  BY <1>8, <1>9

(* Every step of voting is a step of Delivery or stutters there.           *)
LEMMA StepDelivers ==
  ASSUME IInv, [Next]_vars
  PROVE  [D!Next]_(D!vars)
<1>1. CASE /\ UNCHANGED <<votes, executed>>
           /\ \E c \in Chain : sent' = [sent EXCEPT ![c] = Append(@, Len(@) + 1)]
  BY <1>1 DEF D!Next, D!Post
<1>2. CASE UNCHANGED sent
  <2>1. CASE UNCHANGED <<votes, executed>>
    BY <1>2, <2>1 DEF D!vars
  <2>2. CASE \E p \in Deposit : \E v : Resolves(p, v)
    BY <1>2, <2>2, ResolveDelivers DEF D!Next
  <2>3. QED
    BY <2>1, <2>2, StepShape
<1>3. QED
  BY <1>1, <1>2, SentShape

(* Relayer voting implements Delivery, for any relayers, thresholds and    *)
(* lifetimes: calls are dispatched once or refused, deposits posted with   *)
(* one number after the other, and nothing else is visible outside.        *)
THEOREM VotingDelivers == Spec => DeliverySpec
<1>1. Init => D!Init
  <2>1. SUFFICES ASSUME Init PROVE D!Init
    OBVIOUS
  <2>2. {p \in Deposit : votes[p].status = "Rejected"} = {}
    BY <2>1 DEF Init, Unknown
  <2>3. QED
    BY <2>1, <2>2 DEF Init, D!Init
<1>2. IInv /\ [Next]_vars => [D!Next]_(D!vars)
  BY StepDelivers
<1>3. QED
  BY <1>1, <1>2, Invariance, PTL DEF Spec, DeliverySpec, D!Spec
=============================================================================
