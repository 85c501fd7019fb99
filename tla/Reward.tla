------------------------------- MODULE Reward -------------------------------
(***************************************************************************)
(* pallet-fuso-reward: traders earn native tokens in proportion to their   *)
(* share of an era's trading volume.                                       *)
(*                                                                         *)
(* Nothing runs at the end of an era: the volume a trader gathered in one  *)
(* is turned into a reward lazily, when the trader trades or claims in a   *)
(* later era (rotate_reward).  An era is named by its first block.  A      *)
(* stored record is never told apart from an absent one with the default   *)
(* value, so Rewards and Volumes are total functions.                      *)
(***************************************************************************)
EXTENDS Integers, FiniteSetsExt

CONSTANTS
  Trader,
  Volume,             \* volumes one matched order may bring
  Reward,             \* rewards per era root may set
  RewardsPerEra,      \* the reward per era until it is set
  EraDuration, RewardTerminateAt,
  Parts,              \* accuracy of Perquintill (10^18 in the code)
  MaxVolume,          \* bound: volume of one era
  MaxBlock            \* bound: last block

ASSUME RewardAssumption ==
  /\ EraDuration \in Nat \ {0} /\ RewardTerminateAt \in Nat
  /\ Volume \subseteq Nat
  /\ IsFiniteSet(Trader)
  /\ Reward \subseteq Nat /\ RewardsPerEra \in Reward
  /\ \E most \in Reward : \A reward \in Reward : reward <= most
  /\ Parts \in Nat \ {0} /\ MaxVolume \in Nat /\ MaxBlock \in Nat

Era == {b \in 0..MaxBlock : b % EraDuration = 0}

VARIABLES
  now,          \* block number
  era_rewards,  \* EraRewards
  volumes,      \* Volumes
  rewards,      \* Rewards
  credited,     \* native tokens claimed by each trader
  issued,       \* what claims added to the native issuance
  awarded       \* history: how often, for which volume and with which
                \* reward each trader's volume of an era was rotated

RewardVars == <<now, era_rewards, volumes, rewards, credited, issued, awarded>>

RewardTypeOK ==
  /\ now \in 0..MaxBlock
  /\ era_rewards \in Reward
  /\ volumes \in [Era -> Nat]
  /\ rewards \in [Trader -> [confirmed : Nat, pending_vol : Nat, last_modify : Era]]
  /\ credited \in [Trader -> Nat]
  /\ issued \in Nat
  /\ awarded \in [Trader -> [Era -> [times : Nat, volume : Nat, reward : Nat]]]

NoReward == [confirmed |-> 0, pending_vol |-> 0, last_modify |-> 0]

RewardInit ==
  /\ now = 0
  /\ era_rewards = RewardsPerEra
  /\ volumes = [e \in Era |-> 0]
  /\ rewards = [a \in Trader |-> NoReward]
  /\ credited = [a \in Trader |-> 0]
  /\ issued = 0
  /\ awarded = [a \in Trader |-> [e \in Era |->
                  [times |-> 0, volume |-> 0, reward |-> 0]]]

-----------------------------------------------------------------------------
CurrentEra == now - (now % EraDuration)

(* Perquintill::from_rational rounds down, multiplying by it rounds to the *)
(* nearest, halves down.                                                   *)
from_rational(p, q) == (Parts * (IF p <= q THEN p ELSE q)) \div q
ShareRoundedUp(p, q, x) ==                      \* mutant of Share
  (from_rational(p, q) * x + Parts - 1) \div Parts
Share(p, q, x) ==
  LET scaled == from_rational(p, q) * x
  IN  scaled \div Parts + (IF 2 * (scaled % Parts) > Parts THEN 1 ELSE 0)

(* The reward of an era is the one in force when it is rotated, and none   *)
(* after the programme has ended.                                          *)
EraReward == IF now > RewardTerminateAt THEN 0 ELSE era_rewards

(* Volume of an earlier era is waiting to be turned into a reward.         *)
IsDue(r) == r.last_modify # CurrentEra /\ r.pending_vol # 0

Award(r) == Share(r.pending_vol, volumes[r.last_modify], EraReward)

rotate_keeping(r, vol) ==                       \* mutant of rotate_reward
  [confirmed   |-> r.confirmed + (IF IsDue(r) THEN Award(r) ELSE 0),
   pending_vol |-> r.pending_vol + vol,
   last_modify |-> CurrentEra]
rotate_late(r, vol) ==                          \* mutant of rotate_reward
  [confirmed   |-> r.confirmed + (IF IsDue(r) THEN Award(r) ELSE 0),
   pending_vol |-> IF IsDue(r) THEN vol ELSE r.pending_vol + vol,
   last_modify |-> IF IsDue(r) THEN r.last_modify ELSE CurrentEra]
rotate_reward(r, vol) ==
  [confirmed   |-> r.confirmed + (IF IsDue(r) THEN Award(r) ELSE 0),
   pending_vol |-> IF IsDue(r) THEN vol ELSE r.pending_vol + vol,
   last_modify |-> CurrentEra]

RecordAward(a) ==
  LET r == rewards[a] IN
  IF IsDue(r)
  THEN [awarded EXCEPT ![a][r.last_modify] =
          [times |-> @.times + 1, volume |-> @.volume + r.pending_vol,
           reward |-> @.reward + Award(r)]]
  ELSE awarded

(* verify calls save_trading for each side of each matched order.          *)
AddVolume(a, vol) == [volumes EXCEPT ![CurrentEra] = @ + vol]
save_trading(a, vol) ==
  /\ vol # 0
  /\ volumes[CurrentEra] + vol <= MaxVolume
  /\ IsDue(rewards[a]) => volumes[rewards[a].last_modify] > 0
  /\ volumes' = AddVolume(a, vol)
  /\ rewards' = [rewards EXCEPT ![a] = rotate_reward(@, vol)]
  /\ awarded' = RecordAward(a)
  /\ UNCHANGED <<now, era_rewards, credited, issued>>

(* A claim pays what is confirmed and forgets the trader, unless volume of *)
(* the current era is waiting.                                             *)
AfterClaimKept(r) == r                          \* mutant of AfterClaim
AfterClaim(r) ==
  IF r.confirmed = 0 THEN r
  ELSE IF r.pending_vol > 0 THEN [r EXCEPT !.confirmed = 0] ELSE NoReward

take_reward(a) ==
  LET r == rotate_reward(rewards[a], 0)
  IN /\ IsDue(rewards[a]) => volumes[rewards[a].last_modify] > 0
     /\ rewards' = [rewards EXCEPT ![a] = AfterClaim(r)]
     /\ credited' = [credited EXCEPT ![a] = @ + r.confirmed]
     /\ issued' = issued + r.confirmed
     /\ awarded' = RecordAward(a)
     /\ UNCHANGED <<now, era_rewards, volumes>>

set_era_rewards(reward) ==
  /\ era_rewards' = reward
  /\ UNCHANGED <<now, volumes, rewards, credited, issued, awarded>>

RewardNextBlock ==
  /\ now < MaxBlock
  /\ now' = now + 1
  /\ UNCHANGED <<era_rewards, volumes, rewards, credited, issued, awarded>>

RewardNext ==
  \/ RewardNextBlock
  \/ \E reward \in Reward : set_era_rewards(reward)
  \/ \E a \in Trader :
       \/ take_reward(a)
       \/ \E vol \in Volume : save_trading(a, vol)

RewardSpec == RewardInit /\ [][RewardNext]_RewardVars

-----------------------------------------------------------------------------
(* Properties.                                                             *)

(* The total an era's reward is divided by is made of the traders' own     *)
(* volumes, counted already or waiting, although total and parts are       *)
(* stored apart and each trader is rotated at a time of its own.           *)
VolumeAccounted ==
  \A e \in Era :
    volumes[e] = SumFunction([a \in Trader |->
      awarded[a][e].volume
        + (IF rewards[a].last_modify = e THEN rewards[a].pending_vol ELSE 0)])

(* No trader is rewarded twice for an era, although a claim may delete the *)
(* record that says when it was last rotated.                              *)
AwardedOnce == \A a \in Trader, e \in Era : awarded[a][e].times <= 1

(* Every reward is either waiting to be claimed or was credited, once, and *)
(* the native issuance grew by exactly what was credited.                  *)
RewardsConserved ==
  /\ \A a \in Trader : credited[a] + rewards[a].confirmed
                         = SumFunction([e \in Era |-> awarded[a][e].reward])
  /\ issued = SumFunction(credited)

(* All traders of an era together receive at most the largest reward that  *)
(* was ever in force and less than half a unit each for rounding.          *)
EraBound ==
  \A e \in Era :
    LET total == SumFunction([a \in Trader |-> awarded[a][e].reward])
        payees == SumFunction([a \in Trader |-> awarded[a][e].times])
    IN  total > 0 => 2 * total < 2 * Max(Reward) + payees
=============================================================================
