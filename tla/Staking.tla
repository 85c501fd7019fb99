------------------------------ MODULE Staking ------------------------------
(***************************************************************************)
(* Staking on dominators in pallet-fuso-verifier: the life cycle of a      *)
(* dominator, stakes and the seasons they earn profit in, and unstaked     *)
(* funds waiting for their unlock block.                                   *)
(*                                                                         *)
(* A step is one extrinsic or the on_initialize hook of a new block.  An   *)
(* extrinsic that fails changes nothing and is left out.                   *)
(*                                                                         *)
(* The storage maps Dominators, Stakings, Bonuses and PendingUnstakings    *)
(* are total functions here; an absent dominator has status "NONE", an     *)
(* absent staking has amount 0 (MinimalStakingAmount > 0 keeps a stored    *)
(* one above 0), an absent bonus or pending amount is its default value.   *)
(* Profit is kept in one quote currency: take_shares treats the currencies *)
(* of a bonus independently of each other.                                 *)
(***************************************************************************)
EXTENDS Ledger

CONSTANTS
  Staker,                     \* accounts that stake
  Dominator,                  \* accounts that may register as a dominator
  Name,                       \* well-formed dominator names (2..32 ASCII)
  SystemAccount,              \* the pallet's own account
  Native,                     \* the native token id
  Amount,                     \* amounts a caller may pass to stake, unstake
  Fee,                        \* quote fees one verified trade may bring
  Endowment,                  \* free native balance of each staker at genesis
  DominatorOnlineThreshold,
  MinimalStakingAmount,
  SeasonDuration,
  DominatorCheckGracePeriod,
  UnstakeDelayBlocks,
  Parts,                      \* accuracy of Perquintill (10^18 in the code)
  MaxProfit,                  \* bound: profit of one season
  MaxBlock                    \* bound: last block that holds extrinsics

(* The comment on DominatorCheckGracePeriod asks for the first alignment;  *)
(* the second is what on_initialize needs of UNSTAKE_DELAY_BLOCKS.         *)
ASSUME PeriodAssumption ==
  /\ DominatorCheckGracePeriod \in Nat \ {0}
  /\ SeasonDuration \in Nat \ {0}
  /\ SeasonDuration % DominatorCheckGracePeriod = 0
  /\ UnstakeDelayBlocks \in Nat \ {0}
  /\ UnstakeDelayBlocks % DominatorCheckGracePeriod = 0

ASSUME AmountAssumption ==
  /\ DominatorOnlineThreshold \in Nat \ {0}
  /\ MinimalStakingAmount \in Nat \ {0}
  /\ Amount \subseteq Nat
  /\ Fee \subseteq Nat
  /\ Endowment \in Nat
  /\ Parts \in Nat \ {0}
  /\ MaxProfit \in Nat
  /\ MaxBlock \in Nat

(* Account ids are byte strings of one length.                             *)
ASSUME AccountAssumption ==
  /\ SystemAccount \notin Dominator
  /\ IsFiniteSet(Staker)
  /\ IsFiniteSet(Dominator)

(* The clock runs on after the last extrinsic until all delays have ended. *)
LastBlock == MaxBlock + UnstakeDelayBlocks
Block == 0..LastBlock
Season == 0..LastBlock
Status == {"NONE", "REGISTERED", "INACTIVE", "ACTIVE", "EVICTED"}
ReserveId == {"STAKING", "PENDING_UNSTAKE"}
Holder == Dominator \cup {SystemAccount}

VARIABLES
  now,          \* number of the block being executed
  dominators,   \* Dominators: name, stake, first block and status
  stakings,     \* Stakings[dominator, staker]
  bonuses,      \* Bonuses[dominator, season]
  pending,      \* PendingUnstakings[block, staker]
  ledger,       \* native balances and Reserves
  paid          \* what take_shares paid out: times, stake counted, share
                \* per dominator, staker and season; the shares are what
                \* the staker's free quote balance was credited with

vars == <<now, dominators, stakings, bonuses, pending, ledger, paid>>

Registered(d) == dominators[d].status # "NONE"

TypeOK ==
  /\ now \in Block
  /\ dominators \in [Dominator -> [name : Name, staked : Nat,
                                   start_from : Block, status : Status]]
  /\ stakings \in [Dominator -> [Staker -> [amount : Nat, from_season : Season]]]
  /\ bonuses \in [Dominator -> [Season -> [staked : Nat, profit : Nat]]]
  /\ pending \in [Block -> [Staker -> Nat]]
  /\ ledger \in LedgerType(Staker, Holder, {Native}, ReserveId)
  /\ paid \in [Dominator -> [Staker -> [Season ->
                 [times : Nat, base : Nat, share : Nat]]]]

NoStaking == [amount |-> 0, from_season |-> 0]

Init ==
  /\ now = 0
  /\ \E n \in Name :
       dominators = [d \in Dominator |-> [name |-> n, staked |-> 0,
                                          start_from |-> 0, status |-> "NONE"]]
  /\ stakings = [d \in Dominator |-> [a \in Staker |-> NoStaking]]
  /\ bonuses = [d \in Dominator |-> [s \in Season |-> [staked |-> 0, profit |-> 0]]]
  /\ pending = [b \in Block |-> [a \in Staker |-> 0]]
  /\ ledger = [free |-> [t \in {Native} |-> [a \in Staker |-> Endowment]],
               reserved |-> [t \in {Native} |-> [a \in Staker |-> 0]],
               reserves |-> EmptyReserves(Staker, Holder, {Native}, ReserveId)]
  /\ paid = [d \in Dominator |-> [a \in Staker |-> [s \in Season |->
               [times |-> 0, base |-> 0, share |-> 0]]]]

-----------------------------------------------------------------------------
(* Seasons and shares.                                                     *)

current_season(n, claim_at) ==
  IF n <= claim_at THEN 0 ELSE (n - claim_at) \div SeasonDuration

(* The grace block at or before block n.                                   *)
RoundDown(n) == n - (n % DominatorCheckGracePeriod)

CurrentSeason(d) == current_season(now, dominators[d].start_from)

(* Perquintill::from_rational rounds down, multiplying by it rounds to the *)
(* nearest, halves down.                                                   *)
from_rational(p, q) == (Parts * (IF p <= q THEN p ELSE q)) \div q
ShareRoundedUp(staking, total, profit) ==       \* mutant of Share
  LET scaled == from_rational(staking, total) * profit
  IN  scaled \div Parts + (IF scaled % Parts > 0 THEN 1 ELSE 0)
Share(staking, total, profit) ==
  LET scaled == from_rational(staking, total) * profit
  IN  scaled \div Parts + (IF 2 * (scaled % Parts) > Parts THEN 1 ELSE 0)

(* The seasons of from..to-1 that take_shares does not skip.               *)
Distributed(d, from, to) ==
  {s \in from..(to - 1) : bonuses[d][s].staked # 0 /\ bonuses[d][s].profit # 0}

take_shares(d, a, from, to, amount) ==
  [paid EXCEPT ![d][a] =
     [s \in Season |->
        LET p == paid[d][a][s]
            b == bonuses[d][s]
        IN  IF s \in Distributed(d, from, to)
            THEN [times |-> p.times + 1,
                  base  |-> p.base + amount,
                  share |-> p.share + Share(amount, b.staked, b.profit)]
            ELSE p]]

(* A further stake is first paid for the seasons the old amount was held.  *)
StakeUnsettled(d, a) == paid                    \* mutant of SettleBeforeStake
SettleBeforeStake(d, a) ==
  LET s == stakings[d][a] IN
  IF s.amount # 0
  THEN take_shares(d, a, s.from_season, CurrentSeason(d), s.amount)
  ELSE paid

StatusAbove(staked) ==                          \* mutant of StatusFor
  IF staked > DominatorOnlineThreshold THEN "ACTIVE" ELSE "INACTIVE"
StatusFor(staked) ==
  IF staked >= DominatorOnlineThreshold THEN "ACTIVE" ELSE "INACTIVE"

-----------------------------------------------------------------------------
(* Extrinsics.                                                             *)

register(d, n) ==
  /\ now >= DominatorCheckGracePeriod
  /\ ~Registered(d)
  /\ \A e \in Dominator : Registered(e) => dominators[e].name # n
  /\ dominators' = [dominators EXCEPT ![d] =
       [name |-> n, staked |-> 0, status |-> "REGISTERED",
        start_from |-> RoundDown(now)]]
  /\ UNCHANGED <<now, stakings, bonuses, pending, ledger, paid>>

evict(d) ==
  /\ Registered(d)
  /\ dominators' = [dominators EXCEPT ![d].status = "EVICTED"]
  /\ UNCHANGED <<now, stakings, bonuses, pending, ledger, paid>>

launch(d) ==
  /\ dominators[d].status = "REGISTERED"
  /\ dominators' = [dominators EXCEPT ![d].status = "INACTIVE"]
  /\ UNCHANGED <<now, stakings, bonuses, pending, ledger, paid>>

stake_on(a, d, amount) ==
  LET s == stakings[d][a]
      total == dominators[d].staked + amount
  IN /\ amount >= MinimalStakingAmount
     /\ dominators[d].status \in {"ACTIVE", "INACTIVE"}
     /\ can_reserve(ledger, Native, a, amount)
     /\ ledger' = reserve(ledger, "STAKING", a, Native, amount, d)
     /\ paid' = SettleBeforeStake(d, a)
     /\ stakings' = [stakings EXCEPT ![d][a] =
          [amount |-> s.amount + amount, from_season |-> CurrentSeason(d)]]
     /\ dominators' = [dominators EXCEPT ![d] =
          [@ EXCEPT !.staked = total, !.status = StatusFor(total)]]
     /\ UNCHANGED <<now, bonuses, pending>>

unlock_unaligned(n) == n + UnstakeDelayBlocks   \* mutant of unlock_at
unlock_at(n) == RoundDown(n) + UnstakeDelayBlocks

UnstakeRevives(d, total) == StatusFor(total)    \* mutant of UnstakeStatus
UnstakeStatus(d, total) ==
  IF dominators[d].status = "EVICTED" THEN "EVICTED" ELSE StatusFor(total)

(* The two reserve calls of unstake_from, in their order.                  *)
MoveToPending(l, a, d, amount) ==
  reserve(unreserve(l, "STAKING", a, Native, amount, d),
          "PENDING_UNSTAKE", a, Native, amount, SystemAccount)

SetPending(a, amount) ==                        \* mutant of AddPending
  [pending EXCEPT ![unlock_at(now)][a] = amount]
AddPending(a, amount) == [pending EXCEPT ![unlock_at(now)][a] = @ + amount]

unstake_from(a, d, amount) ==
  LET s == stakings[d][a]
      remain == s.amount - amount
      total == dominators[d].staked - amount
  IN /\ dominators[d].status \in {"ACTIVE", "INACTIVE", "EVICTED"}
     /\ dominators[d].staked >= amount
     /\ s.amount > 0
     /\ s.amount >= amount
     /\ remain = 0 \/ remain >= MinimalStakingAmount
     /\ can_unreserve(ledger, "STAKING", a, Native, amount, d)
     /\ ledger' = MoveToPending(ledger, a, d, amount)
     /\ pending' = AddPending(a, amount)
     /\ paid' = take_shares(d, a, s.from_season, CurrentSeason(d), s.amount)
     /\ stakings' = [stakings EXCEPT ![d][a] =
          IF remain = 0 THEN NoStaking
          ELSE [amount |-> remain, from_season |-> CurrentSeason(d)]]
     /\ dominators' = [dominators EXCEPT ![d] =
          [@ EXCEPT !.staked = total, !.status = UnstakeStatus(d, total)]]
     /\ UNCHANGED <<now, bonuses>>

claim_repeatedly(a, d) ==                       \* mutant of claim_shares
  LET s == stakings[d][a]
  IN /\ dominators[d].status \in {"ACTIVE", "INACTIVE", "EVICTED"}
     /\ s.amount > 0
     /\ paid' = take_shares(d, a, s.from_season, CurrentSeason(d), s.amount)
     /\ UNCHANGED <<now, dominators, stakings, bonuses, pending, ledger>>
claim_shares(a, d) ==
  LET s == stakings[d][a]
  IN /\ dominators[d].status \in {"ACTIVE", "INACTIVE", "EVICTED"}
     /\ s.amount > 0
     /\ paid' = take_shares(d, a, s.from_season, CurrentSeason(d), s.amount)
     /\ stakings' = [stakings EXCEPT ![d][a].from_season = CurrentSeason(d)]
     /\ UNCHANGED <<now, dominators, bonuses, pending, ledger>>

(* A batch an ACTIVE dominator gets verified brings profit to the current  *)
(* season; what else verify does is modelled in Custody.                   *)
put_profit(d, fee) ==
  /\ dominators[d].status = "ACTIVE"
  /\ fee # 0
  /\ bonuses[d][CurrentSeason(d)].profit + fee <= MaxProfit
  /\ bonuses' = [bonuses EXCEPT ![d][CurrentSeason(d)].profit = @ + fee]
  /\ UNCHANGED <<now, dominators, stakings, pending, ledger, paid>>

-----------------------------------------------------------------------------
(* on_initialize                                                           *)

(* The season of d that ends where block n begins, if one does.            *)
EndsSeason(d, n) ==
  /\ Registered(d)
  /\ n # dominators[d].start_from
  /\ (n - dominators[d].start_from) % SeasonDuration = 0
prv_season(d, n) == (n - dominators[d].start_from) \div SeasonDuration - 1

SaveStaked(n) ==
  [d \in Dominator |-> [s \in Season |->
     IF EndsSeason(d, n) /\ s = prv_season(d, n)
     THEN [bonuses[d][s] EXCEPT !.staked = dominators[d].staked]
     ELSE bonuses[d][s]]]

(* Unreserve what is due at block n.  The stakers' entries do not touch    *)
(* each other; one whose unreserve fails is logged and unlocks nothing.    *)
Unlocked(n, a) ==
  IF can_unreserve(ledger, "PENDING_UNSTAKE", a, Native, pending[n][a], SystemAccount)
  THEN pending[n][a] ELSE 0
UnlockPending(n) ==
  [free     |-> [t \in {Native} |-> [a \in Staker |->
                   ledger.free[t][a] + Unlocked(n, a)]],
   reserved |-> [t \in {Native} |-> [a \in Staker |->
                   ledger.reserved[t][a] - Unlocked(n, a)]],
   reserves |-> [ledger.reserves EXCEPT !["PENDING_UNSTAKE"] =
                   [a \in Staker |-> [t \in {Native} |-> [h \in Holder |->
                      ledger.reserves["PENDING_UNSTAKE"][a][t][h]
                        - (IF h = SystemAccount THEN Unlocked(n, a) ELSE 0)]]]]]

on_initialize(n) ==
  /\ bonuses' = SaveStaked(n)
  /\ ledger' = UnlockPending(n)
  /\ pending' = [pending EXCEPT ![n] = [a \in Staker |-> 0]]

GraceBlock ==
  /\ now < LastBlock
  /\ now' = now + 1
  /\ (now + 1) % DominatorCheckGracePeriod = 0
  /\ on_initialize(now + 1)
  /\ UNCHANGED <<dominators, stakings, paid>>

OrdinaryBlock ==
  /\ now < LastBlock
  /\ now' = now + 1
  /\ (now + 1) % DominatorCheckGracePeriod # 0
  /\ UNCHANGED <<dominators, stakings, bonuses, pending, ledger, paid>>

NextBlock == GraceBlock \/ OrdinaryBlock

Extrinsic ==
  \E d \in Dominator :
    \/ \E n \in Name : register(d, n)
    \/ evict(d)
    \/ launch(d)
    \/ \E fee \in Fee : put_profit(d, fee)
    \/ \E a \in Staker :
         \/ claim_shares(a, d)
         \/ \E amount \in Amount : stake_on(a, d, amount) \/ unstake_from(a, d, amount)

Next == NextBlock \/ (now <= MaxBlock /\ Extrinsic)

(* Blocks keep being produced; nothing else is guaranteed to happen.       *)
Spec == Init /\ [][Next]_vars /\ WF_vars(NextBlock)

-----------------------------------------------------------------------------
(* Properties.                                                             *)

(* Every stake, and every unstaked amount still waiting, is locked in full *)
(* in the owner's account: so no unreserve of unstake_from or              *)
(* on_initialize (which would only log the failure and drop the entry) can *)
(* ever fail, and nothing stays locked that no entry accounts for.  What   *)
(* the dominator counts as staked, which decides ACTIVE and divides the    *)
(* profit, is the sum of these stakes, although it is updated apart.       *)
StakedIsSum ==
  \A d \in Dominator :
    dominators[d].staked = SumFunction([a \in Staker |-> stakings[d][a].amount])
StakeBacked ==
  \A d \in Dominator, a \in Staker :
    ledger.reserves["STAKING"][a][Native][d] = stakings[d][a].amount
PendingBacked ==
  \A a \in Staker :
    ledger.reserves["PENDING_UNSTAKE"][a][Native][SystemAccount]
      = SumFunction([b \in Block |-> pending[b][a]])
ReservedIsBacking ==
  \A a \in Staker : ledger.reserved[Native][a] = TotalReserves(ledger, Native, a)
FundsBacked == StakedIsSum /\ StakeBacked /\ PendingBacked /\ ReservedIsBacking

(* A dominator is ACTIVE exactly while its stake reaches the threshold,    *)
(* whatever order stakes, unstakes and launch came in.                     *)
StatusFollowsStake ==
  \A d \in Dominator :
    /\ dominators[d].status = "ACTIVE" => dominators[d].staked >= DominatorOnlineThreshold
    /\ dominators[d].status = "INACTIVE" => dominators[d].staked < DominatorOnlineThreshold
    /\ dominators[d].status \in {"NONE", "REGISTERED"} => dominators[d].staked = 0

(* No staker is paid twice for a season of a dominator, through any mix of *)
(* staking more, unstaking, staking again and claiming.                    *)
PaidOnce ==
  \A d \in Dominator, a \in Staker, s \in Season : paid[d][a][s].times <= 1

(* A closed season's profit is divided by the stakes that held at its end: *)
(* the stakes already paid for it and those still to be paid add up to the *)
(* total on_initialize saved, although stakes keep changing afterwards.    *)
Unpaid(d, a, s) ==
  IF stakings[d][a].amount # 0 /\ stakings[d][a].from_season <= s
  THEN stakings[d][a].amount ELSE 0
Counted(d, a, s) == paid[d][a][s].base + Unpaid(d, a, s)
SeasonAccounted ==
  \A d \in Dominator, s \in Season :
    (Registered(d) /\ s < CurrentSeason(d) /\ bonuses[d][s].profit # 0) =>
      bonuses[d][s].staked = SumFunction([a \in Staker |-> Counted(d, a, s)])

(* The stakers of a season together receive at most its profit and less    *)
(* than half a unit each for rounding.                                     *)
ShareBound ==
  \A d \in Dominator, s \in Season :
    LET shares == SumFunction([a \in Staker |-> paid[d][a][s].share])
        payees == SumFunction([a \in Staker |-> paid[d][a][s].times])
    IN  shares > 0 => 2 * shares < 2 * bonuses[d][s].profit + payees

(* Every waiting amount is due at a later block, and at one on_initialize  *)
(* will not skip.                                                          *)
PendingAhead ==
  \A b \in Block, a \in Staker :
    pending[b][a] # 0 => b > now /\ b % DominatorCheckGracePeriod = 0

(* Once a season is over, neither its profit nor the stake that divides it *)
(* changes: a claim made later pays the same share.                        *)
ClosedSeasonFrozen ==
  [][\A d \in Dominator, s \in Season :
       Registered(d) /\ s < CurrentSeason(d) => bonuses'[d][s] = bonuses[d][s]]_vars

(* Eviction is final: no stake movement, launch or registration brings an  *)
(* evicted dominator back, and its season clock keeps its origin.          *)
EvictedIsFinal ==
  [][\A d \in Dominator :
       /\ dominators[d].status = "EVICTED" => dominators'[d].status = "EVICTED"
       /\ Registered(d) => dominators'[d].start_from = dominators[d].start_from]_vars

(* Unstaked funds are eventually released.                                 *)
UnstakeUnlocks ==
  \A b \in Block, a \in Staker : pending[b][a] # 0 ~> pending[b][a] = 0
=============================================================================
