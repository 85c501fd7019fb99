--------------------------- MODULE Staking_proofs ---------------------------
(***************************************************************************)
(* Safety of Staking for every set of stakers and dominators, every        *)
(* threshold, season length and bound: type correctness, the backing of    *)
(* every stake and pending unstake, the status rule, one payment per       *)
(* season and staker, the totals of closed seasons, the bound on what a    *)
(* season pays out, the schedule of pending unstakes, and the two action   *)
(* properties.                                                             *)
(***************************************************************************)
EXTENDS Staking, SumTheorems

-----------------------------------------------------------------------------
(* Arithmetic of rounding to a period.                                     *)

(* Season numbers never decrease as the block number grows.                *)
LEMMA DivMonotone ==
  ASSUME NEW x \in Nat, NEW y \in Nat, NEW k \in Nat \ {0}, x <= y
  PROVE  x \div k <= y \div k
  OBVIOUS

(* At a period's last block the quotient is one less than at the next.     *)
LEMMA DivAtEnd ==
  ASSUME NEW x \in Nat, NEW k \in Nat \ {0}, (x + 1) % k = 0
  PROVE  (x + 1) \div k - 1 = x \div k
  <1> DEFINE q == (x + 1) \div k
             p == x \div k
             r == x % k
  <1>1. q \in Nat /\ x + 1 = k * q
    BY DivMod
  <1>2. p \in Nat /\ r \in 0..(k - 1) /\ x = (k * p) + r
    <2>1. /\ x \div k \in 0..x
          /\ x % k \in 0..(k - 1)
          /\ x % k <= x
          /\ x = (k * (x \div k)) + (x % k)
      BY DivMod, Zenon
    <2> QED BY <2>1
  <1> HIDE DEF q, p, r
  <1>3. k * q = (k * p) + (r + 1)
    BY <1>1, <1>2
  <1>4. k * (q - p) = r + 1 /\ r + 1 \in 1..k
    BY <1>1, <1>2, <1>3
  <1>5. q - p = 1
    BY <1>1, <1>2, <1>4
  <1> QED BY <1>1, <1>2, <1>5 DEF q, p

-----------------------------------------------------------------------------
(* The ledger operators keep the ledger's type.                            *)

(* A guarded reserve leaves natural balances.                              *)
LEMMA ReserveType ==
  ASSUME NEW A, NEW H, NEW T, NEW R, NEW l \in LedgerType(A, H, T, R),
         NEW id \in R, NEW a \in A, NEW t \in T, NEW to \in H, NEW v \in Nat,
         can_reserve(l, t, a, v)
  PROVE  reserve(l, id, a, t, v, to) \in LedgerType(A, H, T, R)
  <1> DEFINE m == reserve(l, id, a, t, v, to)
  <1>1. /\ l.free \in [T -> [A -> Nat]]
        /\ l.reserved \in [T -> [A -> Nat]]
        /\ l.reserves \in [R -> [A -> [T -> [H -> Nat]]]]
    BY DEF LedgerType
  <1>2. m.free \in [T -> [A -> Nat]]
    BY <1>1 DEF can_reserve, reserve
  <1>3. m.reserved \in [T -> [A -> Nat]]
    BY <1>1 DEF can_reserve, reserve
  <1>4. m.reserves \in [R -> [A -> [T -> [H -> Nat]]]]
    BY <1>1 DEF can_reserve, reserve
  <1> QED BY <1>2, <1>3, <1>4 DEF LedgerType, reserve

(* A guarded unreserve leaves natural balances.                            *)
LEMMA UnreserveType ==
  ASSUME NEW A, NEW H, NEW T, NEW R, NEW l \in LedgerType(A, H, T, R),
         NEW id \in R, NEW a \in A, NEW t \in T, NEW from \in H, NEW v \in Nat,
         can_unreserve(l, id, a, t, v, from)
  PROVE  unreserve(l, id, a, t, v, from) \in LedgerType(A, H, T, R)
  <1> DEFINE m == unreserve(l, id, a, t, v, from)
  <1>1. /\ l.free \in [T -> [A -> Nat]]
        /\ l.reserved \in [T -> [A -> Nat]]
        /\ l.reserves \in [R -> [A -> [T -> [H -> Nat]]]]
    BY DEF LedgerType
  <1>2. m.free \in [T -> [A -> Nat]]
    BY <1>1 DEF can_unreserve, unreserve
  <1>3. m.reserved \in [T -> [A -> Nat]]
    BY <1>1 DEF can_unreserve, unreserve
  <1>4. m.reserves \in [R -> [A -> [T -> [H -> Nat]]]]
    BY <1>1 DEF can_unreserve, unreserve
  <1> QED BY <1>2, <1>3, <1>4 DEF LedgerType, unreserve

(* A change of one purpose entry changes the account's total by as much.   *)
LEMMA TotalReservesUpdate ==
  ASSUME NEW A, NEW H, NEW T, NEW R, IsFiniteSet(H), IsFiniteSet(R),
         NEW l \in LedgerType(A, H, T, R), NEW m \in LedgerType(A, H, T, R),
         NEW id \in R, NEW a \in A, NEW t \in T, NEW h \in H,
         \A i \in R, k \in H : (i # id \/ k # h) =>
            m.reserves[i][a][t][k] = l.reserves[i][a][t][k]
  PROVE  TotalReserves(m, t, a) = TotalReserves(l, t, a)
           + m.reserves[id][a][t][h] - l.reserves[id][a][t][h]
  <1> DEFINE F == [i \in R |-> SumFunction(l.reserves[i][a][t])]
             G == [i \in R |-> SumFunction(m.reserves[i][a][t])]
  <1>1. \A i \in R : l.reserves[i][a][t] \in [H -> Int] /\ m.reserves[i][a][t] \in [H -> Int]
    BY DEF LedgerType
  <1>2. F \in [R -> Int] /\ G \in [R -> Int]
    <2>1. \A i \in R : SumFunction(l.reserves[i][a][t]) \in Int
                       /\ SumFunction(m.reserves[i][a][t]) \in Int
      BY <1>1, TotalInt
    <2> QED BY <2>1
  <1>3. \A i \in R \ {id} : G[i] = F[i]
    <2> SUFFICES ASSUME NEW i \in R \ {id}
                 PROVE  l.reserves[i][a][t] = m.reserves[i][a][t]
      OBVIOUS
    <2>1. \A k \in H : m.reserves[i][a][t][k] = l.reserves[i][a][t][k]
      OBVIOUS
    <2> QED BY <1>1, <2>1
  <1>4. G[id] = F[id] + m.reserves[id][a][t][h] - l.reserves[id][a][t][h]
    <2>1. \A k \in H \ {h} : m.reserves[id][a][t][k] = l.reserves[id][a][t][k]
      OBVIOUS
    <2>2. SumFunction(m.reserves[id][a][t]) = SumFunction(l.reserves[id][a][t])
            + m.reserves[id][a][t][h] - l.reserves[id][a][t][h]
      BY <1>1, <2>1, TotalUpdate
    <2> QED BY <2>2
  <1>5. TotalReserves(l, t, a) = SumFunction(F) /\ TotalReserves(m, t, a) = SumFunction(G)
    BY DEF TotalReserves, LedgerType
  <1> HIDE DEF F, G
  <1>6. SumFunction(G) = SumFunction(F) + G[id] - F[id]
    BY <1>2, <1>3, TotalUpdate
  <1>7. SumFunction(F) \in Int /\ F[id] \in Int
    BY <1>2, TotalInt
  <1>8. m.reserves[id][a][t][h] \in Int /\ l.reserves[id][a][t][h] \in Int
    BY <1>1
  <1> QED BY <1>4, <1>5, <1>6, <1>7, <1>8

(* An account whose purpose entries do not change keeps its total.         *)
LEMMA TotalReservesSame ==
  ASSUME NEW A, NEW H, NEW T, NEW R,
         NEW l \in LedgerType(A, H, T, R), NEW m \in LedgerType(A, H, T, R),
         NEW a \in A, NEW t \in T,
         \A i \in R, k \in H : m.reserves[i][a][t][k] = l.reserves[i][a][t][k]
  PROVE  TotalReserves(m, t, a) = TotalReserves(l, t, a)
  <1>1. \A i \in R : l.reserves[i][a][t] \in [H -> Nat] /\ m.reserves[i][a][t] \in [H -> Nat]
    BY DEF LedgerType
  <1>2. \A i \in R : l.reserves[i][a][t] = m.reserves[i][a][t]
    BY <1>1
  <1>3. DOMAIN l.reserves = R /\ DOMAIN m.reserves = R
    BY DEF LedgerType
  <1> QED BY <1>2, <1>3 DEF TotalReserves

(* No purpose entry exceeds the account's total.                           *)
LEMMA TotalReservesBound ==
  ASSUME NEW A, NEW H, NEW T, NEW R, IsFiniteSet(H), IsFiniteSet(R),
         NEW l \in LedgerType(A, H, T, R),
         NEW id \in R, NEW a \in A, NEW t \in T, NEW h \in H
  PROVE  /\ TotalReserves(l, t, a) \in Nat
         /\ l.reserves[id][a][t][h] <= TotalReserves(l, t, a)
  <1> DEFINE F == [i \in R |-> SumFunction(l.reserves[i][a][t])]
  <1>1. \A i \in R : l.reserves[i][a][t] \in [H -> Nat]
    BY DEF LedgerType
  <1>2. \A i \in R : SumFunction(l.reserves[i][a][t]) \in Nat
    BY <1>1, TotalNat
  <1>3. F \in [R -> Nat] /\ F[id] = SumFunction(l.reserves[id][a][t])
    BY <1>2
  <1>4. l.reserves[id][a][t][h] <= F[id]
    BY <1>1, <1>3, TotalElement
  <1>5. TotalReserves(l, t, a) = SumFunction(F)
    BY DEF TotalReserves, LedgerType
  <1> HIDE DEF F
  <1>6. SumFunction(F) \in Nat /\ F[id] <= SumFunction(F)
    BY <1>3, TotalNat, TotalElement
  <1>7. l.reserves[id][a][t][h] \in Nat /\ F[id] \in Nat
    BY <1>1, <1>3
  <1> QED BY <1>4, <1>5, <1>6, <1>7

(* The ledger of this module: one token, two purposes.                     *)
NativeLedger == LedgerType(Staker, Holder, {Native}, ReserveId)
Backed(l, b) == l.reserved[Native][b] = TotalReserves(l, Native, b)

(* What a reserve does to each entry of the ledger.                        *)
LEMMA ReserveEffect ==
  ASSUME NEW l \in NativeLedger, NEW id \in ReserveId, NEW a \in Staker,
         NEW to \in Holder, NEW v \in Nat
  PROVE  /\ \A b \in Staker : reserve(l, id, a, Native, v, to).reserved[Native][b]
              = IF b = a THEN l.reserved[Native][b] + v ELSE l.reserved[Native][b]
         /\ \A i \in ReserveId, b \in Staker, k \in Holder :
              reserve(l, id, a, Native, v, to).reserves[i][b][Native][k]
              = IF i = id /\ b = a /\ k = to
                THEN l.reserves[i][b][Native][k] + v ELSE l.reserves[i][b][Native][k]
  <1>1. /\ l.reserved \in [{Native} -> [Staker -> Nat]]
        /\ l.reserves \in [ReserveId -> [Staker -> [{Native} -> [Holder -> Nat]]]]
    BY DEF NativeLedger, LedgerType
  <1> QED BY <1>1 DEF reserve

(* The same for an unreserve.                                              *)
LEMMA UnreserveEffect ==
  ASSUME NEW l \in NativeLedger, NEW id \in ReserveId, NEW a \in Staker,
         NEW from \in Holder, NEW v \in Nat
  PROVE  /\ \A b \in Staker : unreserve(l, id, a, Native, v, from).reserved[Native][b]
              = IF b = a THEN l.reserved[Native][b] - v ELSE l.reserved[Native][b]
         /\ \A i \in ReserveId, b \in Staker, k \in Holder :
              unreserve(l, id, a, Native, v, from).reserves[i][b][Native][k]
              = IF i = id /\ b = a /\ k = from
                THEN l.reserves[i][b][Native][k] - v ELSE l.reserves[i][b][Native][k]
  <1>1. /\ l.reserved \in [{Native} -> [Staker -> Nat]]
        /\ l.reserves \in [ReserveId -> [Staker -> [{Native} -> [Holder -> Nat]]]]
    BY DEF NativeLedger, LedgerType
  <1> QED BY <1>1 DEF unreserve

(* The reserved balance and the purposes it is locked for move together:   *)
(* when one purpose entry and the balance change by the same amount, the   *)
(* balance stays the total of the purposes.                                *)
LEMMA BackingKept ==
  ASSUME IsFiniteSet(Holder), IsFiniteSet(ReserveId),
         NEW l \in NativeLedger, NEW m \in NativeLedger, NEW b \in Staker,
         NEW id \in ReserveId, NEW h \in Holder,
         m.reserved[Native][b] - l.reserved[Native][b]
           = m.reserves[id][b][Native][h] - l.reserves[id][b][Native][h],
         \A i \in ReserveId, k \in Holder : (i # id \/ k # h) =>
           m.reserves[i][b][Native][k] = l.reserves[i][b][Native][k],
         Backed(l, b)
  PROVE  Backed(m, b)
  <1>1. TotalReserves(m, Native, b) = TotalReserves(l, Native, b)
          + m.reserves[id][b][Native][h] - l.reserves[id][b][Native][h]
    BY TotalReservesUpdate DEF NativeLedger
  <1>2. /\ l.reserved[Native][b] \in Int /\ m.reserved[Native][b] \in Int
        /\ l.reserves[id][b][Native][h] \in Int /\ m.reserves[id][b][Native][h] \in Int
    BY DEF NativeLedger, LedgerType
  <1> QED BY <1>1, <1>2 DEF Backed

(* So a guarded reserve keeps every reserved balance backed.               *)
LEMMA ReserveBacked ==
  ASSUME IsFiniteSet(Holder), IsFiniteSet(ReserveId),
         NEW l \in NativeLedger, NEW id \in ReserveId, NEW a \in Staker,
         NEW to \in Holder, NEW v \in Nat, can_reserve(l, Native, a, v),
         NEW b \in Staker, Backed(l, b)
  PROVE  Backed(reserve(l, id, a, Native, v, to), b)
  <1> DEFINE m == reserve(l, id, a, Native, v, to)
  <1>1. m \in NativeLedger
    BY ReserveType DEF NativeLedger
  <1>2. /\ m.reserved[Native][b]
             = IF b = a THEN l.reserved[Native][b] + v ELSE l.reserved[Native][b]
        /\ \A i \in ReserveId, k \in Holder : m.reserves[i][b][Native][k]
             = IF i = id /\ b = a /\ k = to
               THEN l.reserves[i][b][Native][k] + v ELSE l.reserves[i][b][Native][k]
    BY ReserveEffect
  <1>3. l.reserved[Native][b] \in Int /\ l.reserves[id][b][Native][to] \in Int
    BY DEF NativeLedger, LedgerType
  <1> HIDE DEF m
  <1>4. m.reserved[Native][b] - l.reserved[Native][b]
          = m.reserves[id][b][Native][to] - l.reserves[id][b][Native][to]
    BY <1>2, <1>3
  <1>5. \A i \in ReserveId, k \in Holder : (i # id \/ k # to) =>
          m.reserves[i][b][Native][k] = l.reserves[i][b][Native][k]
    BY <1>2
  <1>6. Backed(m, b)
    BY <1>1, <1>4, <1>5, BackingKept
  <1> QED BY <1>6 DEF m

(* And so does a guarded unreserve.                                        *)
LEMMA UnreserveBacked ==
  ASSUME IsFiniteSet(Holder), IsFiniteSet(ReserveId),
         NEW l \in NativeLedger, NEW id \in ReserveId, NEW a \in Staker,
         NEW from \in Holder, NEW v \in Nat, can_unreserve(l, id, a, Native, v, from),
         NEW b \in Staker, Backed(l, b)
  PROVE  Backed(unreserve(l, id, a, Native, v, from), b)
  <1> DEFINE m == unreserve(l, id, a, Native, v, from)
  <1>1. m \in NativeLedger
    BY UnreserveType DEF NativeLedger
  <1>2. /\ m.reserved[Native][b]
             = IF b = a THEN l.reserved[Native][b] - v ELSE l.reserved[Native][b]
        /\ \A i \in ReserveId, k \in Holder : m.reserves[i][b][Native][k]
             = IF i = id /\ b = a /\ k = from
               THEN l.reserves[i][b][Native][k] - v ELSE l.reserves[i][b][Native][k]
    BY UnreserveEffect
  <1>3. l.reserved[Native][b] \in Int /\ l.reserves[id][b][Native][from] \in Int
    BY DEF NativeLedger, LedgerType
  <1> HIDE DEF m
  <1>4. m.reserved[Native][b] - l.reserved[Native][b]
          = m.reserves[id][b][Native][from] - l.reserves[id][b][Native][from]
    BY <1>2, <1>3
  <1>5. \A i \in ReserveId, k \in Holder : (i # id \/ k # from) =>
          m.reserves[i][b][Native][k] = l.reserves[i][b][Native][k]
    BY <1>2
  <1>6. Backed(m, b)
    BY <1>1, <1>4, <1>5, BackingKept
  <1> QED BY <1>6 DEF m

-----------------------------------------------------------------------------
(* Type correctness.                                                       *)

(* A season number computed at a block of the run is one of Season.        *)
LEMMA SeasonType ==
  ASSUME NEW n \in Block, NEW c \in Block
  PROVE  current_season(n, c) \in Season
  <1>1. n \in Nat /\ c \in Nat /\ n <= LastBlock /\ LastBlock \in Nat
    BY PeriodAssumption, AmountAssumption DEF Block, LastBlock
  <1>2. CASE n <= c
    BY <1>1, <1>2 DEF current_season, Season
  <1>3. CASE ~(n <= c)
    <2>1. n - c \in Nat
      BY <1>1, <1>3
    <2>2. (n - c) \div SeasonDuration \in 0..(n - c)
      BY <2>1, DivMod, PeriodAssumption
    <2> QED BY <1>1, <1>3, <2>1, <2>2 DEF current_season, Season
  <1> QED BY <1>2, <1>3

(* A share is a natural number.                                            *)
LEMMA ShareType ==
  ASSUME NEW s \in Nat, NEW t \in Nat \ {0}, NEW p \in Nat
  PROVE  Share(s, t, p) \in Nat
  <1> DEFINE m == IF s <= t THEN s ELSE t
  <1>1. Parts * m \in Nat
    BY AmountAssumption
  <1>2. from_rational(s, t) \in Nat
    BY <1>1, DivMod DEF from_rational
  <1> DEFINE scaled == from_rational(s, t) * p
  <1>3. scaled \in Nat
    BY <1>2
  <1>4. scaled \div Parts \in Nat
    BY <1>3, DivMod, AmountAssumption
  <1> HIDE DEF scaled
  <1>5. scaled \div Parts + (IF 2 * (scaled % Parts) > Parts THEN 1 ELSE 0) \in Nat
    BY <1>4
  <1> QED BY <1>5 DEF Share, scaled

(* A share exceeds its exact part of the profit by less than half a unit.  *)
LEMMA ShareRounded ==
  ASSUME NEW a \in Nat, NEW t \in Nat \ {0}, NEW p \in Nat
  PROVE  Share(a, t, p) \in Nat /\ 2 * (t * Share(a, t, p)) < 2 * (p * a) + t
<1>1. Share(a, t, p) = RoundedPart(Parts, a, t, p)
  BY DEF Share, from_rational, RoundedPart
<1>2. Parts \in Nat \ {0}
  BY AmountAssumption
<1>. QED BY <1>1, <1>2, PartRounded

(* take_shares keeps the type of the payment record.                       *)
LEMMA TakeSharesType ==
  ASSUME TypeOK, NEW d \in Dominator, NEW a \in Staker,
         NEW from \in Season, NEW to \in Season, NEW amount \in Nat
  PROVE  take_shares(d, a, from, to, amount) \in
           [Dominator -> [Staker -> [Season -> [times : Nat, base : Nat, share : Nat]]]]
  <1>1. ASSUME NEW s \in Season, s \in Distributed(d, from, to)
        PROVE  Share(amount, bonuses[d][s].staked, bonuses[d][s].profit) \in Nat
    <2>1. bonuses[d][s].staked \in Nat \ {0} /\ bonuses[d][s].profit \in Nat
      BY <1>1 DEF TypeOK, Distributed
    <2> QED BY <2>1, ShareType
  <1> DEFINE Payment == [times : Nat, base : Nat, share : Nat]
             P(s) == LET p == paid[d][a][s]
                         b == bonuses[d][s]
                     IN  IF s \in Distributed(d, from, to)
                         THEN [times |-> p.times + 1,
                               base  |-> p.base + amount,
                               share |-> p.share + Share(amount, b.staked, b.profit)]
                         ELSE p
  <1>2. paid \in [Dominator -> [Staker -> [Season -> Payment]]]
    BY DEF TypeOK
  <1>3. ASSUME NEW s \in Season PROVE P(s) \in Payment
    BY <1>1, <1>2, <1>3
  <1>4. [s \in Season |-> P(s)] \in [Season -> Payment]
    BY <1>3
  <1>5. take_shares(d, a, from, to, amount)
          = [paid EXCEPT ![d][a] = [s \in Season |-> P(s)]]
    BY DEF take_shares
  <1> HIDE DEF P, Payment
  <1>6. take_shares(d, a, from, to, amount) \in [Dominator -> [Staker -> [Season -> Payment]]]
    BY <1>2, <1>4, <1>5
  <1> QED BY <1>6 DEF Payment

(* take_shares leaves the payments of other stakers and dominators alone.  *)
LEMMA TakeSharesElsewhere ==
  ASSUME TypeOK, NEW d \in Dominator, NEW a \in Staker,
         NEW e \in Dominator, NEW x \in Staker, e # d \/ x # a,
         NEW from, NEW to, NEW v
  PROVE  take_shares(e, x, from, to, v)[d][a] = paid[d][a]
  <1> DEFINE P(s) == LET p == paid[e][x][s]
                         b == bonuses[e][s]
                     IN  IF s \in Distributed(e, from, to)
                         THEN [times |-> p.times + 1,
                               base  |-> p.base + v,
                               share |-> p.share + Share(v, b.staked, b.profit)]
                         ELSE p
             row == [s \in Season |-> P(s)]
  <1>1. take_shares(e, x, from, to, v) = [paid EXCEPT ![e][x] = row]
    BY DEF take_shares
  <1> HIDE DEF P, row
  <1>2. d \in DOMAIN paid /\ a \in DOMAIN paid[d]
    BY DEF TypeOK
  <1> QED BY <1>1, <1>2

(* The grace block at or before a block is a block.                        *)
LEMMA RoundDownType ==
  ASSUME NEW n \in Block
  PROVE  RoundDown(n) \in Block /\ RoundDown(n) <= n
         /\ n < RoundDown(n) + DominatorCheckGracePeriod
  <1>1. n \in Nat /\ LastBlock \in Nat
    BY PeriodAssumption, AmountAssumption DEF Block, LastBlock
  <1>2. n % DominatorCheckGracePeriod \in 0..(DominatorCheckGracePeriod - 1)
        /\ n % DominatorCheckGracePeriod <= n
    BY <1>1, DivMod, PeriodAssumption
  <1> QED BY <1>1, <1>2, PeriodAssumption DEF RoundDown, Block

(* While extrinsics run, the unlock block they compute is within the run.  *)
LEMMA UnlockAtType ==
  ASSUME NEW n \in Block, n <= MaxBlock
  PROVE  unlock_at(n) \in Block
  BY RoundDownType, PeriodAssumption, AmountAssumption DEF unlock_at, Block, LastBlock

(* Init establishes the type invariant.                                    *)
LEMMA InitType == Init => TypeOK
  BY PeriodAssumption, AmountAssumption
  DEF Init, TypeOK, Block, Season, LastBlock, Status, NoStaking, LedgerType,
      EmptyReserves, Holder, ReserveId

(* Moving a stake to the pending reserve keeps the ledger's type.          *)
LEMMA MoveType ==
  ASSUME TypeOK, NEW a \in Staker, NEW d \in Dominator, NEW v \in Nat,
         can_unreserve(ledger, "STAKING", a, Native, v, d)
  PROVE  MoveToPending(ledger, a, d, v) \in LedgerType(Staker, Holder, {Native}, ReserveId)
  <1> DEFINE m == unreserve(ledger, "STAKING", a, Native, v, d)
  <1>1. m \in LedgerType(Staker, Holder, {Native}, ReserveId)
    BY UnreserveType DEF TypeOK, ReserveId, Holder
  <1>2. m.free[Native][a] = ledger.free[Native][a] + v /\ ledger.free[Native][a] \in Nat
    BY DEF unreserve, TypeOK, LedgerType
  <1>3. can_reserve(m, Native, a, v)
    BY <1>2 DEF can_reserve
  <1> HIDE DEF m
  <1>4. reserve(m, "PENDING_UNSTAKE", a, Native, v, SystemAccount)
          \in LedgerType(Staker, Holder, {Native}, ReserveId)
    BY <1>1, <1>3, ReserveType DEF ReserveId, Holder
  <1> QED BY <1>4 DEF MoveToPending, m

(* So does releasing what is due at a block.                               *)
LEMMA UnlockType ==
  ASSUME TypeOK, NEW n \in Block
  PROVE  UnlockPending(n) \in LedgerType(Staker, Holder, {Native}, ReserveId)
  <1>1. ledger.free \in [{Native} -> [Staker -> Nat]]
        /\ ledger.reserved \in [{Native} -> [Staker -> Nat]]
        /\ ledger.reserves \in [ReserveId -> [Staker -> [{Native} -> [Holder -> Nat]]]]
    BY DEF TypeOK, LedgerType
  <1>2. ASSUME NEW a \in Staker
        PROVE  /\ Unlocked(n, a) \in Nat
               /\ Unlocked(n, a) <= ledger.reserved[Native][a]
               /\ Unlocked(n, a)
                    <= ledger.reserves["PENDING_UNSTAKE"][a][Native][SystemAccount]
    <2>1. pending[n][a] \in Nat
      BY DEF TypeOK
    <2>2. ledger.reserved[Native][a] \in Nat
          /\ ledger.reserves["PENDING_UNSTAKE"][a][Native][SystemAccount] \in Nat
      BY <1>1 DEF ReserveId, Holder
    <2> QED BY <2>1, <2>2 DEF Unlocked, can_unreserve
  <1> DEFINE u == UnlockPending(n)
  <1>3. u.free \in [{Native} -> [Staker -> Nat]]
    BY <1>1, <1>2 DEF UnlockPending
  <1>4. u.reserved \in [{Native} -> [Staker -> Nat]]
    BY <1>1, <1>2 DEF UnlockPending
  <1>5. u.reserves \in [ReserveId -> [Staker -> [{Native} -> [Holder -> Nat]]]]
    <2> DEFINE R == [a \in Staker |-> [t \in {Native} |-> [h \in Holder |->
                      ledger.reserves["PENDING_UNSTAKE"][a][t][h]
                        - (IF h = SystemAccount THEN Unlocked(n, a) ELSE 0)]]]
    <2>1. R \in [Staker -> [{Native} -> [Holder -> Nat]]]
      BY <1>1, <1>2 DEF ReserveId
    <2>2. u.reserves = [ledger.reserves EXCEPT !["PENDING_UNSTAKE"] = R]
      BY DEF UnlockPending
    <2> HIDE DEF R
    <2> QED BY <1>1, <2>1, <2>2
  <1> QED BY <1>3, <1>4, <1>5 DEF LedgerType, UnlockPending

(* Field updates keep the types of the stored records.                     *)
LEMMA BonusUpdate ==
  ASSUME NEW b \in [staked : Nat, profit : Nat], NEW v \in Nat
  PROVE  /\ [b EXCEPT !.staked = v] \in [staked : Nat, profit : Nat]
         /\ [b EXCEPT !.profit = @ + v] \in [staked : Nat, profit : Nat]
  OBVIOUS

(* Updating stake and status keeps the type of a dominator's record.       *)
LEMMA DominatorUpdate ==
  ASSUME NEW r \in [name : Name, staked : Nat, start_from : Block, status : Status],
         NEW v \in Nat, NEW st \in Status
  PROVE  [r EXCEPT !.staked = v, !.status = st]
           \in [name : Name, staked : Nat, start_from : Block, status : Status]
  OBVIOUS

(* Updating an amount or a season keeps the type of a staking.             *)
LEMMA StakingUpdate ==
  ASSUME NEW r \in [amount : Nat, from_season : Season], NEW s \in Season
  PROVE  [r EXCEPT !.from_season = s] \in [amount : Nat, from_season : Season]
  OBVIOUS

(* Every step keeps the type invariant.                                    *)
LEMMA NextType == TypeOK /\ [Next]_vars => TypeOK'
  <1> SUFFICES ASSUME TypeOK, [Next]_vars PROVE TypeOK'
    OBVIOUS
  <1>a. \A d \in Dominator : CurrentSeason(d) \in Season
    BY SeasonType DEF CurrentSeason, TypeOK
  <1>b. \A staked : StatusFor(staked) \in Status
    BY DEF StatusFor, Status
  <1>c. LastBlock \in Nat /\ 0 \in Season
    BY PeriodAssumption, AmountAssumption DEF LastBlock, Season
  <1>d. \A d \in Dominator, a \in Staker :
          stakings[d][a].amount \in Nat /\ stakings[d][a].from_season \in Season
    BY DEF TypeOK
  <1>1. ASSUME NEW d \in Dominator, NEW n \in Name, register(d, n) PROVE TypeOK'
    BY <1>1, RoundDownType DEF register, Status, TypeOK
  <1>2. ASSUME NEW d \in Dominator, evict(d) PROVE TypeOK'
    BY <1>2 DEF evict, Status, TypeOK
  <1>3. ASSUME NEW d \in Dominator, launch(d) PROVE TypeOK'
    BY <1>3 DEF launch, Status, TypeOK
  <1>4. ASSUME NEW d \in Dominator, NEW fee \in Fee, put_profit(d, fee) PROVE TypeOK'
    <2>1. fee \in Nat /\ CurrentSeason(d) \in Season
      BY <1>a, AmountAssumption
    <2> DEFINE b == bonuses[d][CurrentSeason(d)]
               c == [b EXCEPT !.profit = @ + fee]
    <2>2. c \in [staked : Nat, profit : Nat]
      <3>1. b \in [staked : Nat, profit : Nat]
        BY <2>1 DEF TypeOK
      <3> HIDE DEF b
      <3> QED BY <2>1, <3>1, BonusUpdate
    <2>3. bonuses' = [bonuses EXCEPT ![d][CurrentSeason(d)] = c]
      BY <1>4, <2>1 DEF put_profit, TypeOK
    <2> HIDE DEF c
    <2>4. bonuses' \in [Dominator -> [Season -> [staked : Nat, profit : Nat]]]
      BY <2>1, <2>2, <2>3 DEF TypeOK
    <2> QED BY <1>4, <2>4 DEF put_profit, TypeOK
  <1>5. ASSUME NEW d \in Dominator, NEW a \in Staker, claim_shares(a, d) PROVE TypeOK'
    <2>1. paid' \in [Dominator -> [Staker -> [Season -> [times : Nat, base : Nat, share : Nat]]]]
      BY <1>5, <1>a, <1>d, TakeSharesType DEF claim_shares
    <2>2. stakings' \in [Dominator -> [Staker -> [amount : Nat, from_season : Season]]]
      <3>1. stakings[d][a] \in [amount : Nat, from_season : Season]
        BY DEF TypeOK
      <3> DEFINE r == [stakings[d][a] EXCEPT !.from_season = CurrentSeason(d)]
      <3>2. r \in [amount : Nat, from_season : Season]
        BY <1>a, <3>1, StakingUpdate
      <3>3. stakings' = [stakings EXCEPT ![d][a] = r]
        BY <1>5 DEF claim_shares, TypeOK
      <3> HIDE DEF r
      <3> QED BY <3>2, <3>3 DEF TypeOK
    <2> QED BY <1>5, <2>1, <2>2 DEF claim_shares, TypeOK
  <1>6. ASSUME NEW d \in Dominator, NEW a \in Staker, NEW v \in Amount, stake_on(a, d, v)
        PROVE  TypeOK'
    <2>0. v \in Nat
      BY AmountAssumption
    <2>1. paid' \in [Dominator -> [Staker -> [Season -> [times : Nat, base : Nat, share : Nat]]]]
      BY <1>6, <1>a, <1>d, TakeSharesType DEF stake_on, SettleBeforeStake, TypeOK
    <2>2. stakings' \in [Dominator -> [Staker -> [amount : Nat, from_season : Season]]]
      BY <1>6, <1>a, <1>d, <2>0 DEF stake_on, TypeOK
    <2>3. ledger' \in LedgerType(Staker, Holder, {Native}, ReserveId)
      BY <1>6, <2>0, ReserveType DEF stake_on, ReserveId, Holder, TypeOK
    <2>4. dominators' \in [Dominator -> [name : Name, staked : Nat,
                                         start_from : Block, status : Status]]
      <3> DEFINE total == dominators[d].staked + v
                 r == [dominators[d] EXCEPT !.staked = total,
                                            !.status = StatusFor(dominators[d].staked + v)]
      <3>1. dominators[d] \in [name : Name, staked : Nat,
                               start_from : Block, status : Status]
        BY DEF TypeOK
      <3>2. total \in Nat /\ StatusFor(dominators[d].staked + v) \in Status
        BY <1>6, <1>b, <2>0, <3>1 DEF stake_on
      <3>3. r \in [name : Name, staked : Nat, start_from : Block, status : Status]
        BY <3>1, <3>2, DominatorUpdate
      <3>4. dominators' = [dominators EXCEPT ![d] = r]
        BY <1>6 DEF stake_on, TypeOK
      <3> HIDE DEF r
      <3> QED BY <3>3, <3>4 DEF TypeOK
    <2> QED BY <1>6, <2>1, <2>2, <2>3, <2>4 DEF stake_on, TypeOK
  <1>7. ASSUME NEW d \in Dominator, NEW a \in Staker, NEW v \in Amount,
               unstake_from(a, d, v), now <= MaxBlock
        PROVE  TypeOK'
    <2>0. v \in Nat
      BY AmountAssumption
    <2>1. paid' \in [Dominator -> [Staker -> [Season -> [times : Nat, base : Nat, share : Nat]]]]
      BY <1>7, <1>a, <1>d, TakeSharesType DEF unstake_from
    <2>2. stakings' \in [Dominator -> [Staker -> [amount : Nat, from_season : Season]]]
      BY <1>7, <1>a, <1>c, <1>d, <2>0 DEF unstake_from, NoStaking, TypeOK
    <2>3. ledger' \in LedgerType(Staker, Holder, {Native}, ReserveId)
      BY <1>7, <2>0, MoveType DEF unstake_from
    <2>4. dominators' \in [Dominator -> [name : Name, staked : Nat,
                                         start_from : Block, status : Status]]
      <3> DEFINE total == dominators[d].staked - v
                 r == [dominators[d] EXCEPT !.staked = total,
                                            !.status = UnstakeStatus(d, dominators[d].staked - v)]
      <3>1. dominators[d] \in [name : Name, staked : Nat,
                               start_from : Block, status : Status]
        BY DEF TypeOK
      <3>2. total \in Nat /\ UnstakeStatus(d, dominators[d].staked - v) \in Status
        BY <1>7, <1>b, <2>0, <3>1 DEF unstake_from, UnstakeStatus, Status
      <3>3. r \in [name : Name, staked : Nat, start_from : Block, status : Status]
        BY <3>1, <3>2, DominatorUpdate
      <3>4. dominators' = [dominators EXCEPT ![d] = r]
        BY <1>7 DEF unstake_from, TypeOK
      <3> HIDE DEF r
      <3> QED BY <3>3, <3>4 DEF TypeOK
    <2>5. pending' \in [Block -> [Staker -> Nat]]
      BY <1>7, <2>0, UnlockAtType DEF unstake_from, AddPending, TypeOK
    <2> QED BY <1>7, <2>1, <2>2, <2>3, <2>4, <2>5 DEF unstake_from, TypeOK
  <1>8. CASE GraceBlock
    <2>0. now + 1 \in Block
      BY <1>8, <1>c DEF GraceBlock, Block, TypeOK
    <2>1. bonuses' \in [Dominator -> [Season -> [staked : Nat, profit : Nat]]]
      <3>1. ASSUME NEW d \in Dominator, NEW s \in Season
            PROVE  /\ bonuses[d][s] \in [staked : Nat, profit : Nat]
                   /\ [bonuses[d][s] EXCEPT !.staked = dominators[d].staked]
                        \in [staked : Nat, profit : Nat]
        <4>1. bonuses[d][s] \in [staked : Nat, profit : Nat] /\ dominators[d].staked \in Nat
          BY DEF TypeOK
        <4> QED BY <4>1, BonusUpdate
      <3>2. bonuses' = SaveStaked(now + 1)
        BY <1>8 DEF GraceBlock, on_initialize
      <3> QED BY <3>1, <3>2 DEF SaveStaked
    <2>2. ledger' \in LedgerType(Staker, Holder, {Native}, ReserveId)
      BY <1>8, <2>0, UnlockType DEF GraceBlock, on_initialize
    <2>3. pending' \in [Block -> [Staker -> Nat]]
      BY <1>8, <2>0 DEF GraceBlock, on_initialize, TypeOK
    <2> QED BY <1>8, <2>0, <2>1, <2>2, <2>3 DEF GraceBlock, TypeOK
  <1>9. CASE OrdinaryBlock
    BY <1>9, <1>c DEF OrdinaryBlock, Block, TypeOK
  <1>10. CASE UNCHANGED vars
    BY <1>10 DEF vars, TypeOK
  <1> QED BY <1>1, <1>2, <1>3, <1>4, <1>5, <1>6, <1>7, <1>8, <1>9, <1>10
          DEF Next, NextBlock, Extrinsic

-----------------------------------------------------------------------------
(* The inductive invariant.  PaidOnce is not inductive: it needs that the  *)
(* seasons a staker was paid for lie behind the season its stake counts    *)
(* from, and behind the dominator's current season, which a stake removed  *)
(* and put back starts from.                                               *)

StartBefore == \A d \in Dominator : dominators[d].start_from <= now

PaymentBehind(d, a) ==
  /\ stakings[d][a].amount # 0 =>
       Registered(d) /\ stakings[d][a].from_season <= CurrentSeason(d)
  /\ \A s \in Season :
       /\ paid[d][a][s].times <= 1
       /\ paid[d][a][s].times # 0 =>
            /\ Registered(d)
            /\ s < CurrentSeason(d)
            /\ stakings[d][a].amount # 0 => s < stakings[d][a].from_season
PaymentsBehind == \A d \in Dominator, a \in Staker : PaymentBehind(d, a)

(* Stakes stay backed by the staking reserve.                              *)
LEMMA NextStakeBacked == TypeOK /\ StakeBacked /\ [Next]_vars => StakeBacked'
  <1> SUFFICES ASSUME TypeOK, StakeBacked, [Next]_vars,
                      NEW d \in Dominator, NEW a \in Staker
               PROVE  ledger'.reserves["STAKING"][a][Native][d] = stakings'[d][a].amount
    BY DEF StakeBacked
  <1>a. ledger.reserves["STAKING"][a][Native][d] = stakings[d][a].amount
    BY DEF StakeBacked
  <1>b. stakings \in [Dominator -> [Staker -> [amount : Nat, from_season : Season]]]
        /\ stakings[d][a].amount \in Nat
        /\ ledger \in LedgerType(Staker, Holder, {Native}, ReserveId)
        /\ d \in Holder /\ SystemAccount \in Holder
        /\ "STAKING" \in ReserveId /\ "PENDING_UNSTAKE" \in ReserveId
    BY DEF TypeOK, Holder, ReserveId
  <1>c. ledger.reserves \in [ReserveId -> [Staker -> [{Native} -> [Holder -> Nat]]]]
    BY <1>b DEF LedgerType
  <1>1. ASSUME NEW e \in Dominator, NEW x \in Staker, claim_shares(x, e)
        PROVE  ledger'.reserves["STAKING"][a][Native][d] = stakings'[d][a].amount
    BY <1>1, <1>a, <1>b DEF claim_shares
  <1>2. ASSUME NEW e \in Dominator, NEW x \in Staker, NEW v \in Amount, stake_on(x, e, v)
        PROVE  ledger'.reserves["STAKING"][a][Native][d] = stakings'[d][a].amount
    <2>0. v \in Nat /\ e \in Holder
      BY AmountAssumption DEF Holder
    <2>1. ledger'.reserves["STAKING"][a][Native][d] = ledger.reserves["STAKING"][a][Native][d]
            + (IF a = x /\ d = e THEN v ELSE 0)
      BY <1>2, <1>b, <1>c, <2>0 DEF stake_on, reserve
    <2>2. stakings'[d][a].amount = stakings[d][a].amount + (IF a = x /\ d = e THEN v ELSE 0)
      BY <1>2, <1>b, <2>0 DEF stake_on
    <2> QED BY <1>a, <2>1, <2>2
  <1>3. ASSUME NEW e \in Dominator, NEW x \in Staker, NEW v \in Amount, unstake_from(x, e, v)
        PROVE  ledger'.reserves["STAKING"][a][Native][d] = stakings'[d][a].amount
    <2>0. v \in Nat /\ e \in Holder
      BY AmountAssumption DEF Holder
    <2> DEFINE m == unreserve(ledger, "STAKING", x, Native, v, e)
    <2>1. m \in LedgerType(Staker, Holder, {Native}, ReserveId)
      BY <1>3, <1>b, <2>0, UnreserveType DEF unstake_from
    <2>2. m.reserves["STAKING"][a][Native][d] = ledger.reserves["STAKING"][a][Native][d]
            - (IF a = x /\ d = e THEN v ELSE 0)
      BY <1>b, <1>c, <2>0 DEF unreserve
    <2>3. ledger' = reserve(m, "PENDING_UNSTAKE", x, Native, v, SystemAccount)
      BY <1>3 DEF unstake_from, MoveToPending
    <2> HIDE DEF m
    <2>4. m.reserves \in [ReserveId -> [Staker -> [{Native} -> [Holder -> Nat]]]]
      BY <2>1 DEF LedgerType
    <2>5. ledger'.reserves["STAKING"][a][Native][d] = m.reserves["STAKING"][a][Native][d] + 0
      BY <1>b, <2>0, <2>3, <2>4 DEF reserve
    <2>6. m.reserves["STAKING"][a][Native][d] \in Nat
      BY <1>b, <2>1 DEF LedgerType
    <2>7. stakings'[d][a].amount = stakings[d][a].amount - (IF a = x /\ d = e THEN v ELSE 0)
      BY <1>3, <1>b, <2>0 DEF unstake_from, NoStaking
    <2> QED BY <1>a, <2>2, <2>5, <2>6, <2>7
  <1>4. CASE GraceBlock
    <2>1. ledger'.reserves["STAKING"] = ledger.reserves["STAKING"]
      BY <1>4, <1>b DEF GraceBlock, on_initialize, UnlockPending, LedgerType
    <2> QED BY <1>4, <1>a, <2>1 DEF GraceBlock
  <1>5. CASE UNCHANGED <<ledger, stakings>>
    BY <1>5, <1>a
  <1> QED BY <1>1, <1>2, <1>3, <1>4, <1>5
          DEF Next, NextBlock, Extrinsic, OrdinaryBlock, register, evict, launch,
              put_profit, vars

(* The status rule is kept.                                                *)
LEMMA NextStatus == TypeOK /\ StatusFollowsStake /\ [Next]_vars => StatusFollowsStake'
  <1> SUFFICES ASSUME TypeOK, StatusFollowsStake, [Next]_vars PROVE StatusFollowsStake'
    OBVIOUS
  <1>a. \A d \in Dominator : dominators[d] \in
          [name : Name, staked : Nat, start_from : Block, status : Status]
    BY DEF TypeOK
  <1>b. dominators \in [Dominator ->
          [name : Name, staked : Nat, start_from : Block, status : Status]]
    BY DEF TypeOK
  <1>1. ASSUME NEW d \in Dominator, NEW n \in Name, register(d, n)
        PROVE  StatusFollowsStake'
    BY <1>1, <1>a, <1>b DEF register, StatusFollowsStake
  <1>2. ASSUME NEW d \in Dominator, evict(d) PROVE StatusFollowsStake'
    BY <1>2, <1>a, <1>b DEF evict, StatusFollowsStake
  <1>3. ASSUME NEW d \in Dominator, launch(d) PROVE StatusFollowsStake'
    BY <1>3, <1>a, <1>b, AmountAssumption DEF launch, StatusFollowsStake
  <1>4. ASSUME NEW d \in Dominator, NEW a \in Staker, NEW v \in Amount, stake_on(a, d, v)
        PROVE  StatusFollowsStake'
    <2>1. dominators[d].staked + v \in Nat
      BY <1>a, AmountAssumption
    <2> QED BY <1>4, <1>a, <1>b, <2>1, AmountAssumption
            DEF stake_on, StatusFollowsStake, StatusFor
  <1>5. ASSUME NEW d \in Dominator, NEW a \in Staker, NEW v \in Amount, unstake_from(a, d, v)
        PROVE  StatusFollowsStake'
    <2>1. dominators[d].staked - v \in Int
      BY <1>a, AmountAssumption
    <2> QED BY <1>5, <1>a, <1>b, <2>1, AmountAssumption
            DEF unstake_from, StatusFollowsStake, StatusFor, UnstakeStatus
  <1>6. CASE UNCHANGED dominators
    BY <1>6 DEF StatusFollowsStake
  <1> QED BY <1>1, <1>2, <1>3, <1>4, <1>5, <1>6
          DEF Next, NextBlock, Extrinsic, GraceBlock, OrdinaryBlock, claim_shares,
              put_profit, vars

(* What one step may do to the clock and to a dominator's life: only       *)
(* register sets the start of its season clock, and only once.             *)
LifeStep(d) ==
  /\ now' \in {now, now + 1}
  /\ \/ dominators'[d].start_from = dominators[d].start_from
     \/ ~Registered(d) /\ dominators'[d].start_from = RoundDown(now)
  /\ ~Registered(d) /\ Registered(d)' =>
       now' = now /\ dominators'[d].start_from = RoundDown(now)
  /\ Registered(d) => Registered(d)'
  /\ dominators[d].status = "EVICTED" => dominators'[d].status = "EVICTED"

(* The step behind EvictedIsFinal.                                         *)
LEMMA StepLife ==
  ASSUME TypeOK, [Next]_vars, NEW d \in Dominator
  PROVE  LifeStep(d)
  <1>a. dominators \in [Dominator ->
          [name : Name, staked : Nat, start_from : Block, status : Status]]
    BY DEF TypeOK
  <1> USE <1>a DEF LifeStep, Registered
  <1>1. ASSUME NEW e \in Dominator, NEW n \in Name, register(e, n) PROVE LifeStep(d)
    BY <1>1 DEF register
  <1>2. ASSUME NEW e \in Dominator, evict(e) PROVE LifeStep(d)
    BY <1>2 DEF evict
  <1>3. ASSUME NEW e \in Dominator, launch(e) PROVE LifeStep(d)
    BY <1>3 DEF launch
  <1>4. ASSUME NEW e \in Dominator, NEW a \in Staker, NEW v \in Amount, stake_on(a, e, v)
        PROVE  LifeStep(d)
    BY <1>4 DEF stake_on, StatusFor
  <1>5. ASSUME NEW e \in Dominator, NEW a \in Staker, NEW v \in Amount, unstake_from(a, e, v)
        PROVE  LifeStep(d)
    BY <1>5 DEF unstake_from, UnstakeStatus, StatusFor
  <1>6. CASE UNCHANGED dominators /\ now' \in {now, now + 1}
    BY <1>6
  <1>7. CASE NextBlock
    BY <1>6, <1>7 DEF NextBlock, GraceBlock, OrdinaryBlock
  <1>8. ASSUME NEW e \in Dominator, NEW a \in Staker, claim_shares(a, e) PROVE LifeStep(d)
    BY <1>6, <1>8 DEF claim_shares
  <1>9. ASSUME NEW e \in Dominator, NEW fee \in Fee, put_profit(e, fee) PROVE LifeStep(d)
    BY <1>6, <1>9 DEF put_profit
  <1>10. CASE UNCHANGED vars
    BY <1>6, <1>10 DEF vars
  <1> HIDE DEF LifeStep
  <1> QED BY <1>1, <1>2, <1>3, <1>4, <1>5, <1>7, <1>8, <1>9, <1>10 DEF Next, Extrinsic

(* The season clock of a dominator starts in the past.                     *)
LEMMA NextStart == TypeOK /\ StartBefore /\ [Next]_vars => StartBefore'
  <1> SUFFICES ASSUME TypeOK, StartBefore, [Next]_vars, NEW d \in Dominator
               PROVE  dominators'[d].start_from <= now'
    BY DEF StartBefore
  <1>a. dominators[d].start_from <= now
    BY DEF StartBefore
  <1>b. now \in Nat /\ now \in Block /\ dominators[d].start_from \in Nat
    BY PeriodAssumption, AmountAssumption DEF TypeOK, Block, LastBlock
  <1>1. LifeStep(d)
    BY StepLife
  <1>2. RoundDown(now) <= now /\ RoundDown(now) \in Nat
    BY <1>b, RoundDownType DEF Block
  <1> QED BY <1>a, <1>b, <1>1, <1>2 DEF LifeStep

(* A dominator on the register keeps its start and its season only grows.  *)
LEMMA SeasonGrows ==
  ASSUME TypeOK, StartBefore, [Next]_vars, NEW d \in Dominator, Registered(d)
  PROVE  /\ Registered(d)'
         /\ dominators'[d].start_from = dominators[d].start_from
         /\ CurrentSeason(d) <= CurrentSeason(d)'
  <1>a. LifeStep(d)
    BY StepLife
  <1>b. now \in Nat /\ dominators[d].start_from \in Nat /\ dominators[d].start_from <= now
    BY PeriodAssumption, AmountAssumption DEF TypeOK, Block, LastBlock, StartBefore
  <1>1. Registered(d)' /\ dominators'[d].start_from = dominators[d].start_from
    BY <1>a DEF LifeStep
  <1>2. now' \in {now, now + 1}
    BY <1>a DEF LifeStep
  <1> DEFINE c == dominators[d].start_from
  <1>3. now - c \in Nat /\ now' - c \in Nat /\ now - c <= now' - c
    BY <1>b, <1>2
  <1>4. (now - c) \div SeasonDuration <= (now' - c) \div SeasonDuration
    BY <1>3, DivMonotone, PeriodAssumption
  <1>5. (now' - c) \div SeasonDuration \in Nat
    <2>1. \A x \in Nat : x \div SeasonDuration \in 0..x
      BY DivMod, PeriodAssumption
    <2> QED BY <1>3, <2>1
  <1>6. CASE now <= c
    <2>1. CurrentSeason(d) = 0
      BY <1>6 DEF CurrentSeason, current_season
    <2>2. CurrentSeason(d)' \in {0, (now' - c) \div SeasonDuration}
      BY <1>1 DEF CurrentSeason, current_season
    <2> QED BY <1>1, <1>5, <2>1, <2>2
  <1>7. CASE ~(now <= c)
    <2>1. CurrentSeason(d) = (now - c) \div SeasonDuration
      BY <1>7 DEF CurrentSeason, current_season
    <2>2. CurrentSeason(d)' = (now' - c) \div SeasonDuration
      BY <1>1, <1>2, <1>7, <1>b DEF CurrentSeason, current_season
    <2> QED BY <1>1, <1>4, <2>1, <2>2
  <1> QED BY <1>6, <1>7

(* What is pending stays due at a later grace block.                       *)
LEMMA UnlockAhead ==
  ASSUME NEW n \in Block
  PROVE  unlock_at(n) > n /\ unlock_at(n) % DominatorCheckGracePeriod = 0
  <1> DEFINE G == DominatorCheckGracePeriod
             q == n \div G
             r == UnstakeDelayBlocks \div G
  <1>1. n \in Nat /\ G \in Nat \ {0} /\ UnstakeDelayBlocks \in Nat \ {0}
    BY PeriodAssumption, AmountAssumption DEF Block, LastBlock
  <1>2. q \in Nat /\ RoundDown(n) = G * q
    <2>1. q \in Nat /\ n % G \in Nat /\ n = (G * q) + (n % G)
      <3>1. n \div G \in 0..n /\ n % G \in 0..(G - 1) /\ n % G <= n
            /\ n = (G * (n \div G)) + (n % G)
        BY <1>1, DivMod, Zenon
      <3> QED BY <1>1, <3>1
    <2> HIDE DEF q
    <2>2. G * q \in Nat
      BY <1>1, <2>1
    <2> QED BY <2>1, <2>2 DEF RoundDown
  <1>3. r \in Nat /\ UnstakeDelayBlocks = G * r
    BY <1>1, DivMod, PeriodAssumption
  <1>4. unlock_at(n) = G * (q + r)
    BY <1>1, <1>2, <1>3 DEF unlock_at
  <1>5. UnstakeDelayBlocks >= G
    BY <1>1, PeriodAssumption
  <1> HIDE DEF q, r
  <1>6. (G * (q + r)) % G = 0
    BY <1>1, <1>2, <1>3
  <1>7. n < RoundDown(n) + G /\ RoundDown(n) \in Nat
    BY <1>1, <1>2, RoundDownType
  <1> QED BY <1>1, <1>4, <1>5, <1>6, <1>7 DEF unlock_at

(* Every step keeps pending amounts due at later grace blocks.             *)
LEMMA NextPending == TypeOK /\ PendingAhead /\ [Next]_vars => PendingAhead'
  <1> SUFFICES ASSUME TypeOK, PendingAhead, [Next]_vars,
                      NEW b \in Block, NEW a \in Staker, pending'[b][a] # 0
               PROVE  b > now' /\ b % DominatorCheckGracePeriod = 0
    BY DEF PendingAhead
  <1>a. pending \in [Block -> [Staker -> Nat]] /\ now \in Nat /\ b \in Nat /\ now \in Block
    BY PeriodAssumption, AmountAssumption DEF TypeOK, Block, LastBlock
  <1>b. pending[b][a] # 0 => b > now /\ b % DominatorCheckGracePeriod = 0
    BY DEF PendingAhead
  <1>1. ASSUME NEW d \in Dominator, NEW x \in Staker, NEW v \in Amount, unstake_from(x, d, v)
        PROVE  b > now' /\ b % DominatorCheckGracePeriod = 0
    <2>1. now' = now /\ pending' = [pending EXCEPT ![unlock_at(now)][x] = @ + v]
      BY <1>1 DEF unstake_from, AddPending
    <2>2. b = unlock_at(now) \/ pending[b][a] # 0
      BY <1>a, <2>1
    <2> QED BY <1>a, <1>b, <2>1, <2>2, UnlockAhead
  <1>2. CASE GraceBlock
    <2>1. pending' = [pending EXCEPT ![now + 1] = [x \in Staker |-> 0]] /\ now' = now + 1
      BY <1>2 DEF GraceBlock, on_initialize
    <2>2. b # now + 1 /\ pending[b][a] # 0
      BY <1>a, <2>1
    <2> QED BY <1>a, <1>b, <2>1, <2>2
  <1>3. CASE OrdinaryBlock
    BY <1>3, <1>a, <1>b DEF OrdinaryBlock
  <1>4. CASE UNCHANGED <<pending, now>>
    BY <1>4, <1>b
  <1>5. ASSUME NEW d \in Dominator, NEW x \in Staker, NEW v \in Amount, stake_on(x, d, v)
        PROVE  UNCHANGED <<pending, now>>
    BY <1>5 DEF stake_on
  <1>6. ASSUME NEW d \in Dominator,
               \/ \E n \in Name : register(d, n)
               \/ evict(d)
               \/ launch(d)
               \/ \E fee \in Fee : put_profit(d, fee)
               \/ \E x \in Staker : claim_shares(x, d)
        PROVE  UNCHANGED <<pending, now>>
    BY <1>6 DEF register, evict, launch, put_profit, claim_shares
  <1>7. CASE Extrinsic
    BY <1>1, <1>4, <1>5, <1>6, <1>7, Zenon DEF Extrinsic
  <1>8. CASE UNCHANGED vars
    BY <1>4, <1>8 DEF vars
  <1> QED BY <1>2, <1>3, <1>7, <1>8 DEF Next, NextBlock

(* Payments stay behind the seasons still to be paid.                      *)
LEMMA NextPayments ==
  TypeOK /\ StartBefore /\ PaymentsBehind /\ [Next]_vars => PaymentsBehind'
  <1> SUFFICES ASSUME TypeOK, StartBefore, PaymentsBehind, [Next]_vars,
                      NEW d \in Dominator, NEW a \in Staker
               PROVE  PaymentBehind(d, a)'
    BY DEF PaymentsBehind
  <1>a. PaymentBehind(d, a)
    BY DEF PaymentsBehind
  <1>b. /\ stakings \in [Dominator -> [Staker -> [amount : Nat, from_season : Season]]]
        /\ paid \in [Dominator -> [Staker -> [Season -> [times : Nat, base : Nat, share : Nat]]]]
        /\ Season \subseteq Nat /\ CurrentSeason(d) \in Season
    <2>1. Season \subseteq Nat
      BY PeriodAssumption, AmountAssumption DEF Season, LastBlock
    <2>2. CurrentSeason(d) \in Season
      BY SeasonType DEF TypeOK, CurrentSeason
    <2> QED BY <2>1, <2>2 DEF TypeOK
  <1>c. CurrentSeason(d)' \in Nat
    <2>1. TypeOK'
      BY NextType
    <2>2. CurrentSeason(d)' \in Season
      BY <2>1, SeasonType DEF TypeOK, CurrentSeason
    <2> QED BY <1>b, <2>2
  <1>d. Registered(d) => Registered(d)' /\ CurrentSeason(d) <= CurrentSeason(d)'
    BY SeasonGrows
  <1>1. CASE stakings'[d][a] = stakings[d][a] /\ paid'[d][a] = paid[d][a]
    <2>1. CurrentSeason(d) \in Nat /\ stakings[d][a].from_season \in Nat
      BY <1>b
    <2>2. stakings'[d][a].amount # 0 =>
            Registered(d)' /\ stakings'[d][a].from_season <= CurrentSeason(d)'
      BY <1>1, <1>a, <1>c, <1>d, <2>1 DEF PaymentBehind
    <2>3. ASSUME NEW s \in Season
          PROVE  /\ paid'[d][a][s].times <= 1
                 /\ paid'[d][a][s].times # 0 =>
                      /\ Registered(d)'
                      /\ s < CurrentSeason(d)'
                      /\ stakings'[d][a].amount # 0 => s < stakings'[d][a].from_season
      <3>1. s \in Nat
        BY <1>b
      <3> QED BY <1>1, <1>a, <1>c, <1>d, <2>1, <3>1 DEF PaymentBehind
    <2> QED BY <2>2, <2>3 DEF PaymentBehind
  (* The three calls by a on d that settle its seasons up to the current.  *)
  <1>2. ASSUME Registered(d), CurrentSeason(d)' = CurrentSeason(d),
               stakings[d][a].amount # 0,
               paid' = take_shares(d, a, stakings[d][a].from_season,
                                   CurrentSeason(d), stakings[d][a].amount),
               \/ stakings'[d][a].amount = 0
               \/ stakings'[d][a].from_season = CurrentSeason(d)
        PROVE  PaymentBehind(d, a)'
    <2> DEFINE f == stakings[d][a].from_season
               c == CurrentSeason(d)
    <2>1. f \in Nat /\ c \in Nat /\ f <= c
      BY <1>2, <1>a, <1>b DEF PaymentBehind
    <2>2. ASSUME NEW s \in Season
          PROVE  /\ paid'[d][a][s].times <= 1
                 /\ paid'[d][a][s].times # 0 => s < c
      <3>1. s \in Nat /\ paid[d][a][s].times \in Nat
        BY <1>b
      <3>2. paid[d][a][s].times <= 1 /\ (paid[d][a][s].times # 0 => s < f)
        BY <1>2, <1>a DEF PaymentBehind
      <3>3. CASE s \in Distributed(d, f, c)
        <4>1. paid'[d][a][s].times = paid[d][a][s].times + 1
          BY <1>2, <1>b, <3>3 DEF take_shares
        <4>2. f <= s /\ s < c
          BY <2>1, <3>1, <3>3 DEF Distributed
        <4> QED BY <2>1, <3>1, <3>2, <4>1, <4>2
      <3>4. CASE s \notin Distributed(d, f, c)
        <4>1. paid'[d][a][s] = paid[d][a][s]
          BY <1>2, <1>b, <3>4 DEF take_shares
        <4> QED BY <2>1, <3>1, <3>2, <4>1
      <3> QED BY <3>3, <3>4
    <2> HIDE DEF f
    <2> QED BY <1>2, <1>d, <2>1, <2>2 DEF PaymentBehind
  <1>e. ASSUME NEW e \in Dominator, NEW x \in Staker, e # d \/ x # a,
               NEW r, NEW from, NEW to, NEW v,
               stakings' = [stakings EXCEPT ![e][x] = r],
               paid' \in {paid, take_shares(e, x, from, to, v)}
        PROVE  PaymentBehind(d, a)'
    <2>1. stakings'[d][a] = stakings[d][a]
      BY <1>e, <1>b
    <2>2. paid'[d][a] = paid[d][a]
      BY <1>e, TakeSharesElsewhere
    <2> QED BY <1>1, <2>1, <2>2
  <1>f. UNCHANGED now /\ Registered(d) => CurrentSeason(d)' = CurrentSeason(d)
    BY SeasonGrows DEF CurrentSeason
  <1>3. ASSUME NEW e \in Dominator, NEW x \in Staker, claim_shares(x, e)
        PROVE  PaymentBehind(d, a)'
    <2>1. CASE e = d /\ x = a
      <3>1. Registered(d) /\ CurrentSeason(d)' = CurrentSeason(d)
        BY <1>3, <1>f, <2>1 DEF claim_shares, Registered
      <3>2. stakings[d][a].amount # 0
            /\ stakings'[d][a].from_season = CurrentSeason(d)
        BY <1>3, <1>b, <2>1 DEF claim_shares
      <3> QED BY <1>2, <1>3, <2>1, <3>1, <3>2 DEF claim_shares
    <2>2. CASE e # d \/ x # a
      <3>1. stakings'[d][a] = stakings[d][a]
        BY <1>3, <1>b, <2>2 DEF claim_shares
      <3>2. paid'[d][a] = paid[d][a]
        BY <1>3, <2>2, TakeSharesElsewhere DEF claim_shares
      <3> QED BY <1>1, <3>1, <3>2
    <2> QED BY <2>1, <2>2
  <1>4. ASSUME NEW e \in Dominator, NEW x \in Staker, NEW v \in Amount, stake_on(x, e, v)
        PROVE  PaymentBehind(d, a)'
    <2>1. CASE e = d /\ x = a
      <3>1. Registered(d) /\ CurrentSeason(d)' = CurrentSeason(d)
        BY <1>4, <1>f, <2>1 DEF stake_on, Registered
      <3>2. stakings'[d][a].from_season = CurrentSeason(d)
        BY <1>4, <1>b, <2>1 DEF stake_on
      <3>3. CASE stakings[d][a].amount # 0
        BY <1>2, <1>4, <2>1, <3>1, <3>2, <3>3 DEF stake_on, SettleBeforeStake
      <3>4. CASE stakings[d][a].amount = 0
        <4>1. paid' = paid
          BY <1>4, <2>1, <3>4 DEF stake_on, SettleBeforeStake
        <4>2. CurrentSeason(d) \in Nat
          BY <1>b
        <4> QED BY <1>a, <1>d, <3>1, <3>2, <4>1, <4>2 DEF PaymentBehind
      <3> QED BY <3>3, <3>4
    <2>2. CASE e # d \/ x # a
      BY <1>4, <1>e, <2>2 DEF stake_on, SettleBeforeStake
    <2> QED BY <2>1, <2>2
  <1>5. ASSUME NEW e \in Dominator, NEW x \in Staker, NEW v \in Amount, unstake_from(x, e, v)
        PROVE  PaymentBehind(d, a)'
    <2>1. CASE e = d /\ x = a
      <3>1. Registered(d) /\ CurrentSeason(d)' = CurrentSeason(d)
        BY <1>5, <1>f, <2>1 DEF unstake_from, Registered
      <3>2. stakings[d][a].amount # 0
            /\ (\/ stakings'[d][a].amount = 0
                \/ stakings'[d][a].from_season = CurrentSeason(d))
        BY <1>5, <1>b, <2>1 DEF unstake_from, NoStaking
      <3> QED BY <1>2, <1>5, <2>1, <3>1, <3>2 DEF unstake_from
    <2>2. CASE e # d \/ x # a
      BY <1>5, <1>e, <2>2 DEF unstake_from
    <2> QED BY <2>1, <2>2
  <1>6. CASE UNCHANGED <<stakings, paid>>
    BY <1>1, <1>6
  <1> QED BY <1>3, <1>4, <1>5, <1>6
          DEF Next, NextBlock, Extrinsic, GraceBlock, OrdinaryBlock, register, evict,
              launch, put_profit, vars

-----------------------------------------------------------------------------
(* The funds: every lock is accounted for, to the last unit.               *)

(* The sets that totals are taken over are finite.                         *)
LEMMA FiniteIndices ==
  /\ IsFiniteSet(Staker) /\ IsFiniteSet(Holder)
  /\ IsFiniteSet(ReserveId) /\ IsFiniteSet(Block)
  <1>1. IsFiniteSet(Holder)
    BY AccountAssumption, FS_AddElement DEF Holder
  <1>2. IsFiniteSet(ReserveId)
    <2>1. IsFiniteSet({"STAKING"})
      BY FS_Singleton
    <2>2. IsFiniteSet({"STAKING"} \cup {"PENDING_UNSTAKE"})
      BY <2>1, FS_AddElement
    <2>3. ReserveId = {"STAKING"} \cup {"PENDING_UNSTAKE"}
      BY DEF ReserveId
    <2> QED BY <2>2, <2>3
  <1>3. IsFiniteSet(Block)
    <2>1. LastBlock \in Int
      BY PeriodAssumption, AmountAssumption DEF LastBlock
    <2> QED BY <2>1, FS_Interval DEF Block
  <1> QED BY <1>1, <1>2, <1>3, AccountAssumption

(* What a dominator counts as staked stays the sum of the stakes on it.    *)
LEMMA NextStakedIsSum ==
  TypeOK /\ StatusFollowsStake /\ StakedIsSum /\ [Next]_vars => StakedIsSum'
  <1> SUFFICES ASSUME TypeOK, StatusFollowsStake, StakedIsSum, [Next]_vars,
                      NEW d \in Dominator
               PROVE  dominators'[d].staked
                        = SumFunction([a \in Staker |-> stakings'[d][a].amount])
    BY DEF StakedIsSum
  <1> DEFINE F == [a \in Staker |-> stakings[d][a].amount]
             G == [a \in Staker |-> stakings'[d][a].amount]
             Goal == dominators'[d].staked = SumFunction(G)
  <1>a. dominators[d].staked = SumFunction(F) /\ dominators[d].staked \in Nat
    BY DEF StakedIsSum, TypeOK
  <1>b. /\ stakings \in [Dominator -> [Staker -> [amount : Nat, from_season : Season]]]
        /\ stakings' \in [Dominator -> [Staker -> [amount : Nat, from_season : Season]]]
        /\ dominators \in [Dominator -> [name : Name, staked : Nat,
                                         start_from : Block, status : Status]]
    BY NextType DEF TypeOK
  <1>c. F \in [Staker -> Int] /\ G \in [Staker -> Int]
    BY <1>b
  <1>1. ASSUME NEW x \in Staker, NEW v \in Int,
               dominators'[d].staked = dominators[d].staked + v,
               stakings'[d][x].amount = stakings[d][x].amount + v,
               \A a \in Staker \ {x} : stakings'[d][a] = stakings[d][a]
        PROVE  Goal
    <2>1. G[x] = F[x] + v /\ \A a \in Staker \ {x} : G[a] = F[a]
      BY <1>1
    <2>2. F[x] \in Int
      BY <1>c
    <2> HIDE DEF F, G
    <2>3. SumFunction(G) = SumFunction(F) + G[x] - F[x]
      BY <1>c, <2>1, FiniteIndices, TotalUpdate
    <2> QED BY <1>1, <1>a, <2>1, <2>2, <2>3
  <1>2. ASSUME dominators'[d].staked = dominators[d].staked,
               \A a \in Staker : stakings'[d][a].amount = stakings[d][a].amount
        PROVE  Goal
    <2>1. G = F
      BY <1>2
    <2> QED BY <1>2, <1>a, <2>1
  <1>3. ASSUME NEW e \in Dominator, NEW x \in Staker, NEW v \in Amount, stake_on(x, e, v)
        PROVE  Goal
    <2>0. v \in Int
      BY AmountAssumption
    <2>1. CASE e = d
      <3>1. dominators'[d].staked = dominators[d].staked + v
        BY <1>3, <1>b, <2>1 DEF stake_on
      <3>2. stakings'[d][x].amount = stakings[d][x].amount + v
            /\ \A a \in Staker \ {x} : stakings'[d][a] = stakings[d][a]
        BY <1>3, <1>b, <2>1 DEF stake_on
      <3> HIDE DEF G
      <3> QED BY <1>1, <2>0, <3>1, <3>2
    <2>2. CASE e # d
      BY <1>2, <1>3, <1>b, <2>2 DEF stake_on
    <2> QED BY <2>1, <2>2
  <1>4. ASSUME NEW e \in Dominator, NEW x \in Staker, NEW v \in Amount, unstake_from(x, e, v)
        PROVE  Goal
    <2>0. -v \in Int /\ v \in Int
      BY AmountAssumption
    <2>1. CASE e = d
      <3>1. dominators'[d].staked = dominators[d].staked + (-v)
        BY <1>4, <1>b, <1>a, <2>0, <2>1 DEF unstake_from
      <3>2. stakings'[d][x].amount = stakings[d][x].amount + (-v)
        BY <1>4, <1>b, <2>0, <2>1 DEF unstake_from, NoStaking
      <3>3. \A a \in Staker \ {x} : stakings'[d][a] = stakings[d][a]
        BY <1>4, <1>b, <2>1 DEF unstake_from
      <3> HIDE DEF G
      <3> QED BY <1>1, <2>0, <3>1, <3>2, <3>3
    <2>2. CASE e # d
      BY <1>2, <1>4, <1>b, <2>2 DEF unstake_from
    <2> QED BY <2>1, <2>2
  <1>5. ASSUME NEW e \in Dominator, NEW x \in Staker, claim_shares(x, e)
        PROVE  Goal
    BY <1>2, <1>5, <1>b DEF claim_shares
  <1>6. ASSUME NEW e \in Dominator, NEW n \in Name, register(e, n)
        PROVE  Goal
    <2>1. ~Registered(e) => dominators[e].staked = 0
      BY DEF Registered, StatusFollowsStake
    <2>2. dominators'[d].staked = dominators[d].staked /\ stakings' = stakings
      BY <1>6, <1>b, <2>1 DEF register
    <2> QED BY <1>2, <2>2
  <1>7. ASSUME NEW e \in Dominator, evict(e) \/ launch(e)
        PROVE  Goal
    <2>1. CASE evict(e)
      BY <1>2, <1>b, <2>1 DEF evict
    <2>2. CASE launch(e)
      BY <1>2, <1>b, <2>2 DEF launch
    <2> QED BY <1>7, <2>1, <2>2
  <1>8. ASSUME UNCHANGED <<dominators, stakings>> PROVE Goal
    BY <1>2, <1>8
  <1>9. ASSUME NEW e \in Dominator, NEW fee \in Fee, put_profit(e, fee)
        PROVE  Goal
    BY <1>8, <1>9 DEF put_profit
  <1>10. ASSUME NextBlock \/ UNCHANGED vars PROVE Goal
    BY <1>8, <1>10 DEF NextBlock, GraceBlock, OrdinaryBlock, vars
  <1> HIDE DEF Goal
  <1>11. Goal
    BY <1>3, <1>4, <1>5, <1>6, <1>7, <1>9, <1>10 DEF Next, Extrinsic
  <1> QED BY <1>11 DEF Goal

(* What is due at a block can be unreserved in full: on_initialize never   *)
(* meets the failure it would only log.                                    *)
LEMMA UnlockedInFull ==
  ASSUME TypeOK, PendingBacked, ReservedIsBacking, NEW n \in Block, NEW a \in Staker
  PROVE  Unlocked(n, a) = pending[n][a] /\ pending[n][a] \in Nat
  <1> DEFINE F == [b \in Block |-> pending[b][a]]
             locked == ledger.reserves["PENDING_UNSTAKE"][a][Native][SystemAccount]
  <1>1. F \in [Block -> Nat] /\ F[n] = pending[n][a] /\ pending[n][a] \in Nat
    BY DEF TypeOK
  <1>2. locked = SumFunction(F)
    BY DEF PendingBacked
  <1> HIDE DEF F
  <1>3. F[n] <= SumFunction(F)
    BY <1>1, FiniteIndices, TotalElement
  <1>4. "PENDING_UNSTAKE" \in ReserveId /\ SystemAccount \in Holder /\ Native \in {Native}
        /\ ledger \in LedgerType(Staker, Holder, {Native}, ReserveId)
    BY DEF ReserveId, Holder, TypeOK
  <1>5. TotalReserves(ledger, Native, a) \in Nat /\ locked <= TotalReserves(ledger, Native, a)
    BY <1>4, FiniteIndices, TotalReservesBound
  <1>6. ledger.reserved[Native][a] = TotalReserves(ledger, Native, a)
    BY DEF ReservedIsBacking
  <1>7. locked \in Nat
    BY <1>4 DEF LedgerType
  <1>8. pending[n][a] <= locked
    BY <1>1, <1>2, <1>3
  <1>9. can_unreserve(ledger, "PENDING_UNSTAKE", a, Native, pending[n][a], SystemAccount)
    BY <1>1, <1>5, <1>6, <1>7, <1>8 DEF can_unreserve
  <1> QED BY <1>1, <1>9 DEF Unlocked

(* Every reserved unit stays matched by the purposes it is reserved for,   *)
(* and the pending purpose by the amounts still waiting.                   *)
LEMMA NextBacking ==
  TypeOK /\ PendingBacked /\ ReservedIsBacking /\ [Next]_vars
    => PendingBacked' /\ ReservedIsBacking'
  <1> SUFFICES ASSUME TypeOK, PendingBacked, ReservedIsBacking, [Next]_vars, NEW a \in Staker
               PROVE  /\ ledger'.reserves["PENDING_UNSTAKE"][a][Native][SystemAccount]
                           = SumFunction([b \in Block |-> pending'[b][a]])
                      /\ Backed(ledger', a)
    BY DEF PendingBacked, ReservedIsBacking, Backed, TotalReserves
  <1> DEFINE F == [b \in Block |-> pending[b][a]]
             G == [b \in Block |-> pending'[b][a]]
             lock(l) == l.reserves["PENDING_UNSTAKE"][a][Native][SystemAccount]
             Goal == /\ lock(ledger') = SumFunction(G)
                     /\ Backed(ledger', a)
  <1>a. lock(ledger) = SumFunction(F) /\ Backed(ledger, a)
    BY DEF PendingBacked, ReservedIsBacking, Backed
  <1>b. /\ pending \in [Block -> [Staker -> Nat]]
        /\ pending' \in [Block -> [Staker -> Nat]]
        /\ ledger \in NativeLedger /\ ledger' \in NativeLedger
        /\ SystemAccount \in Holder /\ Native \in {Native}
        /\ "STAKING" \in ReserveId /\ "PENDING_UNSTAKE" \in ReserveId
    BY NextType DEF TypeOK, NativeLedger, Holder, ReserveId
  <1>c. F \in [Block -> Int] /\ G \in [Block -> Int] /\ lock(ledger) \in Int
    BY <1>b DEF NativeLedger, LedgerType
  <1>d. ASSUME NEW n \in Block, NEW v \in Int,
               pending'[n][a] = pending[n][a] + v,
               \A b \in Block \ {n} : pending'[b][a] = pending[b][a],
               lock(ledger') = lock(ledger) + v
        PROVE  lock(ledger') = SumFunction(G)
    <2>1. G[n] = F[n] + v /\ (\A b \in Block \ {n} : G[b] = F[b]) /\ F[n] \in Int
      BY <1>c, <1>d
    <2> HIDE DEF F, G, lock
    <2>2. SumFunction(G) = SumFunction(F) + G[n] - F[n]
      BY <1>c, <2>1, FiniteIndices, TotalUpdate
    <2> QED BY <1>a, <1>c, <1>d, <2>1, <2>2
  <1>1. ASSUME NEW e \in Dominator, NEW x \in Staker, NEW v \in Amount, stake_on(x, e, v)
        PROVE  Goal
    <2>1. v \in Nat /\ v \in Int /\ e \in Holder
      BY AmountAssumption DEF Holder
    <2>2. ledger' = reserve(ledger, "STAKING", x, Native, v, e) /\ pending' = pending
      BY <1>1 DEF stake_on
    <2>3. \A i \in ReserveId, b \in Staker, k \in Holder :
            reserve(ledger, "STAKING", x, Native, v, e).reserves[i][b][Native][k]
              = IF i = "STAKING" /\ b = x /\ k = e
                THEN ledger.reserves[i][b][Native][k] + v ELSE ledger.reserves[i][b][Native][k]
      BY <1>b, <2>1, ReserveEffect
    <2>4. lock(ledger') = lock(ledger)
      BY <1>b, <2>2, <2>3
    <2>5. can_reserve(ledger, Native, x, v)
      BY <1>1 DEF stake_on
    <2>6. Backed(ledger', a)
      BY <1>a, <1>b, <2>1, <2>2, <2>5, FiniteIndices, ReserveBacked
    <2> QED BY <1>a, <2>2, <2>4, <2>6
  <1>2. ASSUME NEW e \in Dominator, NEW x \in Staker, NEW v \in Amount,
               now <= MaxBlock, unstake_from(x, e, v)
        PROVE  Goal
    <2>1. v \in Nat /\ v \in Int /\ -v \in Int /\ e \in Holder
      BY AmountAssumption DEF Holder
    <2> DEFINE m == unreserve(ledger, "STAKING", x, Native, v, e)
    <2>2. m \in NativeLedger
      BY <1>2, <1>b, <2>1, UnreserveType DEF unstake_from, NativeLedger
    <2>3. \A i \in ReserveId, b \in Staker, k \in Holder :
            m.reserves[i][b][Native][k]
              = IF i = "STAKING" /\ b = x /\ k = e
                THEN ledger.reserves[i][b][Native][k] - v ELSE ledger.reserves[i][b][Native][k]
      BY <1>b, <2>1, UnreserveEffect
    <2>4. ledger' = reserve(m, "PENDING_UNSTAKE", x, Native, v, SystemAccount)
      BY <1>2 DEF unstake_from, MoveToPending
    <2>5. Backed(m, a)
      <3>1. can_unreserve(ledger, "STAKING", x, Native, v, e)
        BY <1>2 DEF unstake_from
      <3> QED BY <1>a, <1>b, <2>1, <3>1, FiniteIndices, UnreserveBacked
    <2>6. can_reserve(m, Native, x, v)
      <3>1. m.free[Native][x] = ledger.free[Native][x] + v /\ ledger.free[Native][x] \in Nat
        BY <1>b DEF unreserve, NativeLedger, LedgerType
      <3> QED BY <2>1, <3>1 DEF can_reserve
    <2> HIDE DEF m
    <2>7. \A i \in ReserveId, b \in Staker, k \in Holder :
            reserve(m, "PENDING_UNSTAKE", x, Native, v, SystemAccount).reserves[i][b][Native][k]
              = IF i = "PENDING_UNSTAKE" /\ b = x /\ k = SystemAccount
                THEN m.reserves[i][b][Native][k] + v ELSE m.reserves[i][b][Native][k]
      <3>1. "PENDING_UNSTAKE" \in ReserveId /\ SystemAccount \in Holder
        BY <1>b
      <3>2. x \in Staker /\ v \in Nat /\ m \in NativeLedger
        BY <2>1, <2>2
      <3> QED BY ONLY <3>1, <3>2, ReserveEffect, SMTT(30)
    <2>8. Backed(ledger', a)
      BY <1>b, <2>1, <2>2, <2>4, <2>5, <2>6, FiniteIndices, ReserveBacked
    <2>9. lock(ledger') = IF a = x THEN lock(ledger) + v ELSE lock(ledger)
      BY <1>b, <2>3, <2>4, <2>7
    <2>10. unlock_at(now) \in Block
      BY <1>2, UnlockAtType DEF TypeOK
    <2>11. pending' = [pending EXCEPT ![unlock_at(now)][x] = @ + v]
      BY <1>2 DEF unstake_from, AddPending
    <2>12. CASE a = x
      <3>1. pending'[unlock_at(now)][a] = pending[unlock_at(now)][a] + v
            /\ \A b \in Block \ {unlock_at(now)} : pending'[b][a] = pending[b][a]
        BY <1>b, <2>10, <2>11, <2>12
      <3> QED BY <1>d, <2>1, <2>8, <2>9, <2>10, <2>12, <3>1
    <2>13. CASE a # x
      <3>1. \A b \in Block : pending'[b][a] = pending[b][a]
        BY <1>b, <2>11, <2>13
      <3>2. G = F
        BY <3>1
      <3> QED BY <1>a, <2>8, <2>9, <2>13, <3>2
    <2> QED BY <2>12, <2>13
  <1>3. ASSUME GraceBlock PROVE Goal
    <2> DEFINE n == now + 1
    <2>1. n \in Block
      BY <1>3, PeriodAssumption, AmountAssumption DEF GraceBlock, TypeOK, Block, LastBlock
    <2>2. Unlocked(n, a) = pending[n][a] /\ pending[n][a] \in Nat
      BY <2>1, UnlockedInFull
    <2>3. ledger' = UnlockPending(n) /\ pending' = [pending EXCEPT ![n] = [x \in Staker |-> 0]]
      BY <1>3 DEF GraceBlock, on_initialize
    <2> HIDE DEF n
    <2> DEFINE v == -pending[n][a]
    <2>4. v \in Int
      BY <2>2
    <2>5. ledger'.reserved[Native][a] = ledger.reserved[Native][a] - Unlocked(n, a)
      BY <2>3 DEF UnlockPending
    <2>6. \A i \in ReserveId, k \in Holder : ledger'.reserves[i][a][Native][k]
            = IF i = "PENDING_UNSTAKE" /\ k = SystemAccount
              THEN ledger.reserves[i][a][Native][k] - Unlocked(n, a)
              ELSE ledger.reserves[i][a][Native][k]
      <3> SUFFICES ASSUME NEW i \in ReserveId, NEW k \in Holder
                   PROVE  ledger'.reserves[i][a][Native][k]
                            = IF i = "PENDING_UNSTAKE" /\ k = SystemAccount
                              THEN ledger.reserves[i][a][Native][k] - Unlocked(n, a)
                              ELSE ledger.reserves[i][a][Native][k]
        OBVIOUS
      <3>1. DOMAIN ledger.reserves = ReserveId /\ ledger.reserves[i][a][Native][k] \in Int
        BY <1>b DEF NativeLedger, LedgerType
      <3> QED BY <2>3, <3>1 DEF UnlockPending
    <2>7. /\ ledger.reserved[Native][a] \in Int
          /\ \A i \in ReserveId, k \in Holder : ledger.reserves[i][a][Native][k] \in Int
      BY <1>b DEF NativeLedger, LedgerType
    <2>8. /\ ledger'.reserved[Native][a] = ledger.reserved[Native][a] + v
          /\ \A i \in ReserveId, k \in Holder : ledger'.reserves[i][a][Native][k]
               = IF i = "PENDING_UNSTAKE" /\ k = SystemAccount
                 THEN ledger.reserves[i][a][Native][k] + v
                 ELSE ledger.reserves[i][a][Native][k]
      BY <2>2, <2>5, <2>6, <2>7
    <2> HIDE DEF v
    <2>9. Backed(ledger', a)
      <3>1. \A i \in ReserveId, k \in Holder :
              (i # "PENDING_UNSTAKE" \/ k # SystemAccount) =>
                ledger'.reserves[i][a][Native][k] = ledger.reserves[i][a][Native][k]
        BY <2>8
      <3>2. ledger'.reserved[Native][a] - ledger.reserved[Native][a]
              = ledger'.reserves["PENDING_UNSTAKE"][a][Native][SystemAccount]
                - ledger.reserves["PENDING_UNSTAKE"][a][Native][SystemAccount]
        BY <1>b, <2>4, <2>7, <2>8
      <3> QED BY <1>a, <1>b, <3>1, <3>2, FiniteIndices, BackingKept
    <2>10. lock(ledger') = lock(ledger) + v
      BY <1>b, <2>8
    <2>11. pending'[n][a] = 0 /\ \A b \in Block \ {n} : pending'[b][a] = pending[b][a]
      BY <1>b, <2>1, <2>3
    <2>12. pending'[n][a] = pending[n][a] + v
      BY <2>2, <2>11 DEF v
    <2> QED BY <1>d, <2>1, <2>4, <2>9, <2>10, <2>11, <2>12
  <1>4. ASSUME UNCHANGED <<ledger, pending>> PROVE Goal
    BY <1>4, <1>a
  <1>5. ASSUME NEW e \in Dominator,
               \/ \E n \in Name : register(e, n)
               \/ evict(e)
               \/ launch(e)
               \/ \E fee \in Fee : put_profit(e, fee)
               \/ \E x \in Staker : claim_shares(x, e)
        PROVE  Goal
    <2>1. UNCHANGED <<ledger, pending>>
      BY <1>5 DEF register, evict, launch, put_profit, claim_shares
    <2> QED BY <1>4, <2>1
  <1>6. ASSUME OrdinaryBlock \/ UNCHANGED vars PROVE Goal
    BY <1>4, <1>6 DEF OrdinaryBlock, vars
  <1> HIDE DEF Goal
  <1>7. Goal
    BY <1>1, <1>2, <1>3, <1>5, <1>6 DEF Next, NextBlock, Extrinsic
  <1> QED BY <1>7 DEF Goal

-----------------------------------------------------------------------------
(* The seasons: what a closed season is divided by, and what it pays.      *)

(* Between multiples of a period the quotient stays the same.              *)
LEMMA DivSame ==
  ASSUME NEW x \in Nat, NEW k \in Nat \ {0}, (x + 1) % k # 0
  PROVE  (x + 1) \div k = x \div k
  <1> DEFINE q == (x + 1) \div k
             p == x \div k
             t == (x + 1) % k
             r == x % k
  <1>1. q \in Nat /\ t \in 1..(k - 1) /\ x + 1 = (k * q) + t
    <2> DEFINE y == x + 1
    <2>1. y \in Nat /\ y % k # 0
      OBVIOUS
    <2> HIDE DEF y
    <2>2. y \div k \in 0..y /\ y % k \in 0..(k - 1) /\ y = (k * (y \div k)) + (y % k)
      BY <2>1, DivMod
    <2>3. y \div k \in Nat /\ y % k \in 1..(k - 1) /\ y = (k * (y \div k)) + (y % k)
      BY <2>1, <2>2
    <2> QED BY <2>3 DEF y
  <1>2. p \in Nat /\ r \in 0..(k - 1) /\ x = (k * p) + r
    <2>1. /\ x \div k \in 0..x
          /\ x % k \in 0..(k - 1)
          /\ x = (k * (x \div k)) + (x % k)
      BY DivMod
    <2> QED BY <2>1
  <1> HIDE DEF q, p, t, r
  <1>3. \A m, n \in Nat : m < n => k * m + k <= k * n
    <2> SUFFICES ASSUME NEW m \in Nat, NEW n \in Nat, m < n PROVE k * m + k <= k * n
      OBVIOUS
    <2> DEFINE j == m + 1
    <2>1. j \in Nat /\ j <= n /\ k \in Nat
      OBVIOUS
    <2>2. k * j = k * m + k
      OBVIOUS
    <2> HIDE DEF j
    <2>3. k * j <= k * n
      BY <2>1, MulMono
    <2> QED BY <2>2, <2>3
  <1>4. ~(q < p)
    <2>1. (k * q) \in Nat /\ (k * p) \in Nat
      BY <1>1, <1>2
    <2> QED BY <1>1, <1>2, <1>3, <2>1
  <1>5. ~(p < q)
    <2>1. (k * q) \in Nat /\ (k * p) \in Nat
      BY <1>1, <1>2
    <2> QED BY <1>1, <1>2, <1>3, <2>1
  <1>6. q = p
    BY <1>1, <1>2, <1>4, <1>5
  <1> QED BY <1>6 DEF q, p

(* A season that starts at a grace block ends at one.                      *)
LEMMA AlignedSum ==
  ASSUME NEW c \in Nat, NEW y \in Nat, c % DominatorCheckGracePeriod = 0,
         y % SeasonDuration = 0
  PROVE  (c + y) % DominatorCheckGracePeriod = 0
  <1> DEFINE G == DominatorCheckGracePeriod
             i == c \div G
             j == y \div SeasonDuration
             l == SeasonDuration \div G
  <1>1. G \in Nat \ {0} /\ SeasonDuration \in Nat \ {0}
    BY PeriodAssumption
  <1>2. i \in Nat /\ c = G * i
    BY <1>1, DivMod
  <1>3. j \in Nat /\ y = SeasonDuration * j
    BY <1>1, DivMod
  <1>4. l \in Nat /\ SeasonDuration = G * l
    BY <1>1, DivMod, PeriodAssumption
  <1> HIDE DEF i, j, l
  <1>5. l * j \in Nat /\ y = G * (l * j)
    BY <1>1, <1>3, <1>4
  <1>6. c + y = G * (i + l * j)
    BY <1>1, <1>2, <1>5
  <1>7. \A n \in Nat : (G * n) % G = 0
    BY <1>1
  <1>8. i + l * j \in Nat
    BY <1>2, <1>5
  <1> QED BY <1>6, <1>7, <1>8

(* The season clocks start at grace blocks.                                *)
StartAligned ==
  \A d \in Dominator : dominators[d].start_from % DominatorCheckGracePeriod = 0

(* Rounding down to the grace period gives a multiple of it.               *)
LEMMA RoundDownAligned ==
  ASSUME NEW n \in Block
  PROVE  RoundDown(n) % DominatorCheckGracePeriod = 0
  <1> DEFINE G == DominatorCheckGracePeriod
             q == n \div G
  <1>1. n \in Nat /\ G \in Nat \ {0}
    BY PeriodAssumption, AmountAssumption DEF Block, LastBlock
  <1>2. q \in Nat /\ n % G \in Nat /\ n = (G * q) + (n % G)
    <2>1. n \div G \in 0..n /\ n % G \in 0..(G - 1) /\ n = (G * (n \div G)) + (n % G)
      BY <1>1, DivMod, Zenon
    <2> QED BY <1>1, <2>1
  <1> HIDE DEF q
  <1>3. G * q \in Nat
    BY <1>1, <1>2
  <1>4. RoundDown(n) = G * q
    BY <1>2, <1>3 DEF RoundDown
  <1>5. (G * q) % G = 0
    BY <1>1, <1>2
  <1> QED BY <1>4, <1>5

(* Only register sets a season clock, and it rounds down.                  *)
LEMMA NextAligned == TypeOK /\ StartAligned /\ [Next]_vars => StartAligned'
  <1> SUFFICES ASSUME TypeOK, StartAligned, [Next]_vars, NEW d \in Dominator
               PROVE  dominators'[d].start_from % DominatorCheckGracePeriod = 0
    BY DEF StartAligned
  <1>1. LifeStep(d)
    BY StepLife
  <1>2. RoundDown(now) % DominatorCheckGracePeriod = 0
    BY RoundDownAligned DEF TypeOK
  <1> QED BY <1>1, <1>2 DEF LifeStep, StartAligned

(* A season is over exactly at the grace block whose on_initialize saves   *)
(* the total stake for it.                                                 *)
LEMMA SeasonStep ==
  ASSUME TypeOK, StartBefore, StartAligned, [Next]_vars, NEW d \in Dominator, Registered(d)
  PROVE  \/ CurrentSeason(d)' = CurrentSeason(d)
         \/ /\ GraceBlock
            /\ EndsSeason(d, now + 1)
            /\ prv_season(d, now + 1) = CurrentSeason(d)
            /\ CurrentSeason(d)' = CurrentSeason(d) + 1
  <1> DEFINE c == dominators[d].start_from
             x == now - c
  <1>a. now \in Nat /\ c \in Nat /\ c <= now /\ x \in Nat
    BY PeriodAssumption, AmountAssumption DEF TypeOK, Block, LastBlock, StartBefore
  <1>b. dominators'[d].start_from = c
    BY SeasonGrows
  <1>c. LifeStep(d)
    BY StepLife
  <1>d. \A y \in Nat : y \div SeasonDuration \in Nat
    BY DivMod, PeriodAssumption
  <1>e. CurrentSeason(d) = x \div SeasonDuration
    <2>1. CASE now = c
      <3>1. 0 \div SeasonDuration = 0
        BY DivMod, PeriodAssumption
      <3> QED BY <1>a, <2>1, <3>1 DEF CurrentSeason, current_season
    <2>2. CASE now # c
      BY <1>a, <2>2 DEF CurrentSeason, current_season
    <2> QED BY <2>1, <2>2
  <1>1. CASE now' = now
    BY <1>1, <1>b DEF CurrentSeason
  <1>2. CASE now' = now + 1
    <2>1. (now + 1) - c = x + 1 /\ ~(now + 1 <= c) /\ now + 1 # c
      BY <1>a
    <2>2. CurrentSeason(d)' = (x + 1) \div SeasonDuration
      BY <1>2, <1>b, <2>1 DEF CurrentSeason, current_season
    <2>3. CASE (x + 1) % SeasonDuration # 0
      BY <1>a, <1>e, <2>2, <2>3, DivSame, PeriodAssumption
    <2>4. CASE (x + 1) % SeasonDuration = 0
      <3>1. (x + 1) \div SeasonDuration - 1 = x \div SeasonDuration
        BY <1>a, <2>4, DivAtEnd, PeriodAssumption
      <3>2. EndsSeason(d, now + 1)
        BY <2>1, <2>4 DEF EndsSeason
      <3>3. prv_season(d, now + 1) = CurrentSeason(d)
        BY <1>e, <2>1, <3>1 DEF prv_season
      <3>4. x + 1 \in Nat /\ now + 1 = c + (x + 1)
        BY <1>a
      <3>5. (now + 1) % DominatorCheckGracePeriod = 0
        <4>1. c % DominatorCheckGracePeriod = 0
          BY DEF StartAligned
        <4>2. (c + (x + 1)) % DominatorCheckGracePeriod = 0
          BY <1>a, <2>4, <3>4, <4>1, AlignedSum
        <4> QED BY <3>4, <4>2
      <3>6. now' # now
        BY <1>2, <1>a
      <3>7. GraceBlock
        <4>1. ASSUME NEW e \in Dominator, NEW a \in Staker, NEW v \in Amount,
                     stake_on(a, e, v) \/ unstake_from(a, e, v)
              PROVE  FALSE
          BY <3>6, <4>1 DEF stake_on, unstake_from
        <4>2. ASSUME NEW e \in Dominator, NEW a \in Staker, claim_shares(a, e) PROVE FALSE
          BY <3>6, <4>2 DEF claim_shares
        <4>3. ASSUME NEW e \in Dominator, NEW n \in Name, register(e, n) PROVE FALSE
          BY <3>6, <4>3 DEF register
        <4>4. ASSUME NEW e \in Dominator, NEW fee \in Fee, put_profit(e, fee) PROVE FALSE
          BY <3>6, <4>4 DEF put_profit
        <4>5. ASSUME NEW e \in Dominator, evict(e) \/ launch(e) PROVE FALSE
          BY <3>6, <4>5 DEF evict, launch
        <4>6. ~Extrinsic
          BY <4>1, <4>2, <4>3, <4>4, <4>5 DEF Extrinsic
        <4> QED BY <3>5, <3>6, <4>6 DEF Next, NextBlock, OrdinaryBlock, vars
      <3>8. CurrentSeason(d)' = CurrentSeason(d) + 1
        <4>1. (x + 1) \div SeasonDuration \in Nat /\ x \div SeasonDuration \in Nat
          BY <1>a, <1>d, <3>4
        <4> QED BY <1>e, <2>2, <3>1, <4>1
      <3> QED BY <3>2, <3>3, <3>7, <3>8
    <2> QED BY <2>3, <2>4
  <1> QED BY <1>1, <1>2, <1>c DEF LifeStep

(* A closed season's profit and total stake are never written again.       *)
LEMMA StepClosed ==
  ASSUME TypeOK, StartBefore, [Next]_vars,
         NEW d \in Dominator, NEW s \in Season, Registered(d), s < CurrentSeason(d)
  PROVE  bonuses'[d][s] = bonuses[d][s]
  <1>a. bonuses \in [Dominator -> [Season -> [staked : Nat, profit : Nat]]]
        /\ CurrentSeason(d) \in Season /\ Season \subseteq Nat
    <2>1. CurrentSeason(d) \in Season
      BY SeasonType DEF TypeOK, CurrentSeason
    <2>2. Season \subseteq Nat
      BY PeriodAssumption, AmountAssumption DEF Season, LastBlock
    <2> QED BY <2>1, <2>2 DEF TypeOK
  <1>1. ASSUME NEW e \in Dominator, NEW fee \in Fee, put_profit(e, fee)
        PROVE  bonuses'[d][s] = bonuses[d][s]
    <2>1. d # e \/ s # CurrentSeason(e)
      BY <1>a
    <2> QED BY <1>1, <1>a, <2>1 DEF put_profit
  <1>2. CASE GraceBlock
    <2> DEFINE c == dominators[d].start_from
    <2>1. now \in Nat /\ c \in Nat /\ c <= now
      BY PeriodAssumption, AmountAssumption DEF TypeOK, Block, LastBlock, StartBefore
    <2>2. CASE EndsSeason(d, now + 1)
      <3>1. now - c \in Nat /\ (now + 1) - c = (now - c) + 1
        BY <2>1
      <3>2. ((now - c) + 1) % SeasonDuration = 0
        BY <2>2, <3>1 DEF EndsSeason
      <3>3. ((now - c) + 1) \div SeasonDuration - 1 = (now - c) \div SeasonDuration
        BY <3>1, <3>2, DivAtEnd, PeriodAssumption
      <3>4. prv_season(d, now + 1) = (now - c) \div SeasonDuration
        BY <3>1, <3>3 DEF prv_season
      <3>5. CurrentSeason(d) # 0
        BY <1>a
      <3>6. CurrentSeason(d) = (now - c) \div SeasonDuration
        BY <3>5 DEF CurrentSeason, current_season
      <3>7. s # prv_season(d, now + 1)
        BY <1>a, <3>4, <3>6
      <3> QED BY <1>2, <3>7 DEF GraceBlock, on_initialize, SaveStaked
    <2>3. CASE ~EndsSeason(d, now + 1)
      BY <1>2, <2>3 DEF GraceBlock, on_initialize, SaveStaked
    <2> QED BY <2>2, <2>3
  <1>3. CASE UNCHANGED bonuses
    BY <1>3
  <1>4. ASSUME NEW e \in Dominator, NEW a \in Staker, NEW v \in Amount,
               stake_on(a, e, v) \/ unstake_from(a, e, v)
        PROVE  bonuses' = bonuses
    BY <1>4 DEF stake_on, unstake_from
  <1>5. ASSUME NEW e \in Dominator, NEW a \in Staker, claim_shares(a, e)
        PROVE  bonuses' = bonuses
    BY <1>5 DEF claim_shares
  <1>6. ASSUME NEW e \in Dominator, NEW n \in Name, register(e, n)
        PROVE  bonuses' = bonuses
    BY <1>6 DEF register
  <1>7. ASSUME NEW e \in Dominator, evict(e) \/ launch(e)
        PROVE  bonuses' = bonuses
    BY <1>7 DEF evict, launch
  <1>8. CASE OrdinaryBlock \/ UNCHANGED vars
    BY <1>8 DEF OrdinaryBlock, vars
  <1> QED BY <1>1, <1>2, <1>3, <1>4, <1>5, <1>6, <1>7, <1>8 DEF Next, NextBlock, Extrinsic

(* What one step may do to a staker's stake and payments on a dominator:   *)
(* nothing, settle the seasons up to the current one, or open a stake.     *)
Idle(d, a) == stakings'[d][a] = stakings[d][a] /\ paid'[d][a] = paid[d][a]
Settles(d, a) ==
  /\ Registered(d)
  /\ stakings[d][a].amount # 0
  /\ paid' = take_shares(d, a, stakings[d][a].from_season, CurrentSeason(d),
                         stakings[d][a].amount)
  /\ stakings'[d][a].amount = 0 \/ stakings'[d][a].from_season = CurrentSeason(d)
  /\ UNCHANGED <<now, bonuses>>
Opens(d, a) ==
  /\ Registered(d)
  /\ stakings[d][a].amount = 0
  /\ stakings'[d][a].from_season = CurrentSeason(d)
  /\ UNCHANGED <<now, bonuses, paid>>

(* Every step is one of the three for every staker and dominator.          *)
LEMMA StakerStep ==
  ASSUME TypeOK, [Next]_vars, NEW d \in Dominator, NEW a \in Staker
  PROVE  Idle(d, a) \/ Settles(d, a) \/ Opens(d, a)
  <1> DEFINE Goal == Idle(d, a) \/ Settles(d, a) \/ Opens(d, a)
  <1>b. /\ stakings \in [Dominator -> [Staker -> [amount : Nat, from_season : Season]]]
        /\ paid \in [Dominator -> [Staker -> [Season -> [times : Nat, base : Nat, share : Nat]]]]
    BY DEF TypeOK
  <1>1. ASSUME NEW e \in Dominator, NEW x \in Staker, claim_shares(x, e)
        PROVE  Goal
    <2>1. CASE e = d /\ x = a
      <3>1. Registered(d)
        BY <1>1, <2>1 DEF claim_shares, Registered
      <3>2. stakings[d][a].amount # 0 /\ stakings'[d][a].from_season = CurrentSeason(d)
        BY <1>1, <1>b, <2>1 DEF claim_shares
      <3> QED BY <1>1, <2>1, <3>1, <3>2 DEF claim_shares, Settles
    <2>2. CASE e # d \/ x # a
      <3>1. stakings'[d][a] = stakings[d][a]
        BY <1>1, <1>b, <2>2 DEF claim_shares
      <3>2. paid'[d][a] = paid[d][a]
        BY <1>1, <2>2, TakeSharesElsewhere DEF claim_shares
      <3> QED BY <3>1, <3>2 DEF Idle
    <2> QED BY <2>1, <2>2
  <1>2. ASSUME NEW e \in Dominator, NEW x \in Staker, NEW v \in Amount, stake_on(x, e, v)
        PROVE  Goal
    <2>1. CASE e = d /\ x = a
      <3>1. Registered(d)
        BY <1>2, <2>1 DEF stake_on, Registered
      <3>2. stakings'[d][a].from_season = CurrentSeason(d)
        BY <1>2, <1>b, <2>1 DEF stake_on
      <3>3. UNCHANGED <<now, bonuses>> /\ paid' = SettleBeforeStake(d, a)
        BY <1>2, <2>1 DEF stake_on
      <3> QED BY <3>1, <3>2, <3>3 DEF SettleBeforeStake, Settles, Opens
    <2>2. CASE e # d \/ x # a
      <3>1. stakings'[d][a] = stakings[d][a]
        BY <1>2, <1>b, <2>2 DEF stake_on
      <3>2. paid'[d][a] = paid[d][a]
        BY <1>2, <2>2, TakeSharesElsewhere DEF stake_on, SettleBeforeStake
      <3> QED BY <3>1, <3>2 DEF Idle
    <2> QED BY <2>1, <2>2
  <1>3. ASSUME NEW e \in Dominator, NEW x \in Staker, NEW v \in Amount, unstake_from(x, e, v)
        PROVE  Goal
    <2>1. CASE e = d /\ x = a
      <3>1. Registered(d)
        BY <1>3, <2>1 DEF unstake_from, Registered
      <3>2. stakings[d][a].amount # 0
            /\ (\/ stakings'[d][a].amount = 0
                \/ stakings'[d][a].from_season = CurrentSeason(d))
        BY <1>3, <1>b, <2>1 DEF unstake_from, NoStaking
      <3> QED BY <1>3, <2>1, <3>1, <3>2 DEF unstake_from, Settles
    <2>2. CASE e # d \/ x # a
      <3>1. stakings'[d][a] = stakings[d][a]
        BY <1>3, <1>b, <2>2 DEF unstake_from
      <3>2. paid'[d][a] = paid[d][a]
        BY <1>3, <2>2, TakeSharesElsewhere DEF unstake_from
      <3> QED BY <3>1, <3>2 DEF Idle
    <2> QED BY <2>1, <2>2
  <1>4. ASSUME UNCHANGED <<stakings, paid>> PROVE Goal
    BY <1>4 DEF Idle
  <1>5. ASSUME NEW e \in Dominator,
               \/ \E n \in Name : register(e, n)
               \/ evict(e)
               \/ launch(e)
               \/ \E fee \in Fee : put_profit(e, fee)
        PROVE  Goal
    <2>1. UNCHANGED <<stakings, paid>>
      BY <1>5 DEF register, evict, launch, put_profit
    <2> QED BY <1>4, <2>1
  <1>6. ASSUME NextBlock \/ UNCHANGED vars PROVE Goal
    <2>1. UNCHANGED <<stakings, paid>>
      BY <1>6 DEF NextBlock, GraceBlock, OrdinaryBlock, vars
    <2> QED BY <1>4, <2>1
  <1> HIDE DEF Goal
  <1>7. Goal
    BY <1>1, <1>2, <1>3, <1>5, <1>6 DEF Next, Extrinsic
  <1> QED BY <1>7 DEF Goal

(* What settling writes for one season.                                    *)
LEMMA SettledSeason ==
  ASSUME TypeOK, NEW d \in Dominator, NEW a \in Staker, NEW s \in Season, Settles(d, a)
  PROVE  LET p == paid[d][a][s]
             b == bonuses[d][s]
             v == stakings[d][a].amount
         IN  IF s \in Distributed(d, stakings[d][a].from_season, CurrentSeason(d))
             THEN /\ paid'[d][a][s].times = p.times + 1
                  /\ paid'[d][a][s].base = p.base + v
                  /\ paid'[d][a][s].share = p.share + Share(v, b.staked, b.profit)
             ELSE paid'[d][a][s] = p
  <1>1. paid \in [Dominator -> [Staker -> [Season -> [times : Nat, base : Nat, share : Nat]]]]
    BY DEF TypeOK
  <1> QED BY <1>1 DEF Settles, take_shares

(* A payment's share is its part of the profit, rounded to the nearest     *)
(* unit, and nothing is paid that is not recorded.                         *)
PaymentFair(d, a, s) ==
  LET p == paid[d][a][s]
      b == bonuses[d][s]
  IN  /\ p.times = 0 => p.base = 0 /\ p.share = 0
      /\ p.times # 0 =>
           /\ b.staked # 0 /\ b.profit # 0
           /\ 2 * (b.staked * p.share) < 2 * (b.profit * p.base) + b.staked
PaymentsFair == \A d \in Dominator, a \in Staker, s \in Season : PaymentFair(d, a, s)

(* The types of what the pallet stores for one staker and season.          *)
StakerTypes(d, a, s) ==
  /\ paid[d][a][s].times \in Nat /\ paid[d][a][s].base \in Nat /\ paid[d][a][s].share \in Nat
  /\ stakings[d][a].amount \in Nat /\ stakings[d][a].from_season \in Nat
  /\ bonuses[d][s].staked \in Nat /\ bonuses[d][s].profit \in Nat
  /\ s \in Nat /\ CurrentSeason(d) \in Nat

(* They follow from the type invariant.                                    *)
LEMMA StakerTyped ==
  ASSUME TypeOK, NEW d \in Dominator, NEW a \in Staker, NEW s \in Season
  PROVE  StakerTypes(d, a, s)
  <1>1. Season \subseteq Nat
    BY PeriodAssumption, AmountAssumption DEF Season, LastBlock
  <1>2. CurrentSeason(d) \in Season
    BY SeasonType DEF TypeOK, CurrentSeason
  <1>3. paid[d][a][s] \in [times : Nat, base : Nat, share : Nat]
    BY DEF TypeOK
  <1>4. stakings[d][a] \in [amount : Nat, from_season : Season]
    BY DEF TypeOK
  <1>5. bonuses[d][s] \in [staked : Nat, profit : Nat]
    BY DEF TypeOK
  <1> QED BY <1>1, <1>2, <1>3, <1>4, <1>5 DEF StakerTypes

(* Every step keeps payments fair: a season is paid once, and after it is  *)
(* closed.                                                                 *)
LEMMA NextFair ==
  TypeOK /\ StartBefore /\ PaymentsBehind /\ PaymentsFair /\ [Next]_vars => PaymentsFair'
  <1> SUFFICES ASSUME TypeOK, StartBefore, PaymentsBehind, PaymentsFair, [Next]_vars,
                      NEW d \in Dominator, NEW a \in Staker, NEW s \in Season
               PROVE  PaymentFair(d, a, s)'
    BY DEF PaymentsFair
  <1>a. PaymentFair(d, a, s) /\ PaymentBehind(d, a)
    BY DEF PaymentsFair, PaymentsBehind
  <1>b. StakerTypes(d, a, s)
    BY StakerTyped
  <1>1. CASE paid'[d][a][s] = paid[d][a][s]
    <2>1. CASE paid[d][a][s].times = 0
      BY <1>1, <1>a, <2>1 DEF PaymentFair
    <2>2. CASE paid[d][a][s].times # 0
      <3>1. Registered(d) /\ s < CurrentSeason(d)
        BY <1>a, <2>2 DEF PaymentBehind
      <3>2. bonuses'[d][s] = bonuses[d][s]
        BY <3>1, StepClosed
      <3> QED BY <1>1, <1>a, <3>2 DEF PaymentFair
    <2> QED BY <2>1, <2>2
  <1>2. CASE Settles(d, a) /\ s \in Distributed(d, stakings[d][a].from_season, CurrentSeason(d))
    <2> DEFINE v == stakings[d][a].amount
               t == bonuses[d][s].staked
               q == bonuses[d][s].profit
    <2>1. t # 0 /\ q # 0 /\ stakings[d][a].from_season <= s
      BY <1>2, <1>b DEF Distributed, StakerTypes
    <2>2. paid[d][a][s].times = 0 /\ paid[d][a][s].base = 0 /\ paid[d][a][s].share = 0
      BY <1>2, <1>a, <1>b, <2>1 DEF PaymentBehind, PaymentFair, Settles, StakerTypes
    <2>3. /\ paid'[d][a][s].times = paid[d][a][s].times + 1
          /\ paid'[d][a][s].base = paid[d][a][s].base + v
          /\ paid'[d][a][s].share = paid[d][a][s].share + Share(v, t, q)
      BY <1>2, SettledSeason
    <2>4. v \in Nat /\ t \in Nat \ {0} /\ q \in Nat
      BY <1>b, <2>1 DEF StakerTypes
    <2>5. bonuses'[d][s].staked = t /\ bonuses'[d][s].profit = q
      BY <1>2 DEF Settles
    <2> HIDE DEF v, t, q
    <2>6. Share(v, t, q) \in Nat /\ 2 * (t * Share(v, t, q)) < 2 * (q * v) + t
      BY <2>4, ShareRounded
    <2>7. paid'[d][a][s].times = 1 /\ paid'[d][a][s].base = v
          /\ paid'[d][a][s].share = Share(v, t, q)
      BY <2>2, <2>3, <2>4, <2>6
    <2> QED BY <2>1, <2>5, <2>6, <2>7 DEF PaymentFair
  <1>3. CASE Settles(d, a) /\ s \notin Distributed(d, stakings[d][a].from_season, CurrentSeason(d))
    BY <1>1, <1>3, SettledSeason
  <1>4. CASE Idle(d, a) \/ Opens(d, a)
    BY <1>1, <1>4 DEF Idle, Opens
  <1> QED BY <1>2, <1>3, <1>4, StakerStep

(* A stake's part in a closed season only passes from unpaid to paid.      *)
LEMMA CountedKept ==
  ASSUME TypeOK, PaymentsBehind, [Next]_vars,
         NEW d \in Dominator, NEW a \in Staker, NEW s \in Season,
         s < CurrentSeason(d), bonuses[d][s].profit # 0,
         bonuses[d][s].staked = SumFunction([x \in Staker |-> Counted(d, x, s)])
  PROVE  Counted(d, a, s)' = Counted(d, a, s)
  <1>a. StakerTypes(d, a, s)
    BY StakerTyped
  <1>b. \A x \in Staker : Counted(d, x, s) \in Nat
    BY StakerTyped DEF StakerTypes, Counted, Unpaid
  <1>1. CASE Idle(d, a)
    BY <1>1 DEF Idle, Counted, Unpaid
  <1>2. CASE Opens(d, a)
    <2>1. Unpaid(d, a, s) = 0 /\ Unpaid(d, a, s)' = 0
      BY <1>2, <1>a DEF Opens, Unpaid, StakerTypes
    <2> QED BY <1>2, <2>1 DEF Opens, Counted
  <1>3. CASE Settles(d, a)
    <2>1. Unpaid(d, a, s)' = 0
      BY <1>3, <1>a DEF Settles, Unpaid, StakerTypes
    <2>2. CASE stakings[d][a].from_season <= s
      <3>1. Unpaid(d, a, s) = stakings[d][a].amount /\ stakings[d][a].amount # 0
        BY <1>3, <2>2 DEF Settles, Unpaid
      <3>2. Counted(d, a, s) # 0
        BY <1>a, <3>1 DEF Counted, StakerTypes
      <3>3. bonuses[d][s].staked # 0
        <4> DEFINE F == [x \in Staker |-> Counted(d, x, s)]
        <4>1. F \in [Staker -> Nat] /\ F[a] = Counted(d, a, s)
          BY <1>b
        <4>2. F[a] <= SumFunction(F)
          BY <4>1, TotalElement, FiniteIndices
        <4>3. SumFunction(F) = bonuses[d][s].staked
          OBVIOUS
        <4> HIDE DEF F
        <4> QED BY <1>b, <3>2, <4>1, <4>2, <4>3
      <3>4. s \in Distributed(d, stakings[d][a].from_season, CurrentSeason(d))
        BY <1>a, <2>2, <3>3 DEF Distributed, StakerTypes
      <3>5. paid'[d][a][s].base = paid[d][a][s].base + stakings[d][a].amount
        BY <1>3, <3>4, SettledSeason
      <3> QED BY <1>a, <2>1, <3>1, <3>5 DEF Counted, StakerTypes
    <2>3. CASE ~(stakings[d][a].from_season <= s)
      <3>1. Unpaid(d, a, s) = 0
        BY <2>3 DEF Unpaid
      <3>2. s \notin Distributed(d, stakings[d][a].from_season, CurrentSeason(d))
        BY <1>a, <2>3 DEF Distributed, StakerTypes
      <3>3. paid'[d][a][s] = paid[d][a][s]
        BY <1>3, <3>2, SettledSeason
      <3> QED BY <2>1, <3>1, <3>3 DEF Counted
    <2> QED BY <2>2, <2>3
  <1> QED BY <1>1, <1>2, <1>3, StakerStep

(* A season that ends divides its profit by the stakes of that moment.     *)
LEMMA SeasonCloses ==
  ASSUME TypeOK, StakedIsSum, PaymentsBehind, PaymentsFair,
         NEW d \in Dominator, NEW s \in Season, Registered(d),
         GraceBlock, EndsSeason(d, now + 1), prv_season(d, now + 1) = s,
         CurrentSeason(d) = s
  PROVE  bonuses'[d][s].staked = SumFunction([a \in Staker |-> Counted(d, a, s)'])
  <1>1. bonuses'[d][s].staked = dominators[d].staked
    <2>1. bonuses'[d][s] = [bonuses[d][s] EXCEPT !.staked = dominators[d].staked]
      BY DEF GraceBlock, on_initialize, SaveStaked
    <2>2. bonuses[d][s] \in [staked : Nat, profit : Nat]
      BY DEF TypeOK
    <2> QED BY <2>1, <2>2
  <1>2. stakings' = stakings /\ paid' = paid
    BY DEF GraceBlock
  <1>3. ASSUME NEW a \in Staker
        PROVE  Counted(d, a, s)' = stakings[d][a].amount
    <2>a. StakerTypes(d, a, s)
      BY StakerTyped
    <2>b. PaymentBehind(d, a) /\ PaymentFair(d, a, s)
      BY DEF PaymentsBehind, PaymentsFair
    <2>1. paid[d][a][s].times = 0
      BY <2>a, <2>b DEF PaymentBehind, StakerTypes
    <2>2. paid[d][a][s].base = 0
      BY <2>b, <2>1 DEF PaymentFair
    <2>3. Unpaid(d, a, s) = stakings[d][a].amount
      BY <2>b DEF PaymentBehind, Unpaid
    <2>4. Counted(d, a, s)' = Counted(d, a, s)
      BY <1>2 DEF Counted, Unpaid
    <2> QED BY <2>a, <2>2, <2>3, <2>4 DEF Counted, StakerTypes
  <1>4. [a \in Staker |-> Counted(d, a, s)'] = [a \in Staker |-> stakings[d][a].amount]
    BY <1>3
  <1> QED BY <1>1, <1>4 DEF StakedIsSum

(* A newly registered dominator is in its first season.                    *)
LEMMA FirstSeason ==
  ASSUME TypeOK, [Next]_vars, NEW d \in Dominator, ~Registered(d), Registered(d)'
  PROVE  CurrentSeason(d)' = 0
  <1> DEFINE G == DominatorCheckGracePeriod
             m == now % G
  <1>1. now' = now /\ dominators'[d].start_from = RoundDown(now)
    <2>1. LifeStep(d)
      BY StepLife
    <2> QED BY <2>1 DEF LifeStep
  <1>2. now \in Nat /\ G \in Nat \ {0} /\ SeasonDuration \in Nat \ {0}
    BY PeriodAssumption, AmountAssumption DEF TypeOK, Block, LastBlock
  <1>3. m \in Nat /\ m < G /\ m <= now
    BY <1>2, DivMod
  <1>4. G <= SeasonDuration
    <2>1. SeasonDuration % G = 0
      BY PeriodAssumption
    <2>2. CASE SeasonDuration < G
      <3>1. SeasonDuration = G * (SeasonDuration \div G) /\ SeasonDuration \div G \in Nat
        BY <1>2, <2>1, DivMod
      <3> HIDE DEF G
      <3> QED BY <1>2, <2>2, <3>1
    <2> QED BY <1>2, <2>2
  <1>5. RoundDown(now) = now - m
    BY DEF RoundDown
  <1> HIDE DEF m, G
  <1>6. now - (now - m) = m /\ m < SeasonDuration
    BY <1>2, <1>3, <1>4
  <1>7. m \div SeasonDuration = 0
    <2>1. m = SeasonDuration * (m \div SeasonDuration) + (m % SeasonDuration)
          /\ m \div SeasonDuration \in Nat /\ m % SeasonDuration \in Nat
      BY <1>2, <1>3, DivMod
    <2> QED BY <1>2, <1>3, <1>6, <2>1
  <1> QED BY <1>1, <1>5, <1>6, <1>7 DEF CurrentSeason, current_season

(* Every step keeps closed seasons accounted for.                          *)
LEMMA NextAccounted ==
  TypeOK /\ StartBefore /\ StartAligned /\ StakedIsSum /\ PaymentsBehind /\ PaymentsFair
    /\ SeasonAccounted /\ [Next]_vars => SeasonAccounted'
  <1> SUFFICES ASSUME TypeOK, StartBefore, StartAligned, StakedIsSum, PaymentsBehind,
                      PaymentsFair, SeasonAccounted, [Next]_vars,
                      NEW d \in Dominator, NEW s \in Season,
                      Registered(d)', s < CurrentSeason(d)', bonuses'[d][s].profit # 0
               PROVE  bonuses'[d][s].staked = SumFunction([a \in Staker |-> Counted(d, a, s)'])
    BY DEF SeasonAccounted
  <1>a. s \in Nat /\ CurrentSeason(d) \in Nat
    <2>1. Season \subseteq Nat
      BY PeriodAssumption, AmountAssumption DEF Season, LastBlock
    <2>2. CurrentSeason(d) \in Season
      BY SeasonType DEF TypeOK, CurrentSeason
    <2> QED BY <2>1, <2>2
  <1>1. Registered(d)
    BY <1>a, FirstSeason
  <1>2. CASE s < CurrentSeason(d)
    <2>1. bonuses'[d][s] = bonuses[d][s]
      BY <1>1, <1>2, StepClosed
    <2>2. bonuses[d][s].staked = SumFunction([a \in Staker |-> Counted(d, a, s)])
      BY <1>1, <1>2, <2>1 DEF SeasonAccounted
    <2>3. \A a \in Staker : Counted(d, a, s)' = Counted(d, a, s)
      BY <1>2, <2>1, <2>2, CountedKept
    <2>4. [a \in Staker |-> Counted(d, a, s)'] = [a \in Staker |-> Counted(d, a, s)]
      BY <2>3
    <2> QED BY <2>1, <2>2, <2>4
  <1>3. CASE ~(s < CurrentSeason(d))
    <2>1. /\ GraceBlock
          /\ EndsSeason(d, now + 1)
          /\ prv_season(d, now + 1) = CurrentSeason(d)
          /\ CurrentSeason(d)' = CurrentSeason(d) + 1
      BY <1>1, <1>3, SeasonStep
    <2>2. s = CurrentSeason(d)
      BY <1>a, <1>3, <2>1
    <2> QED BY <1>1, <2>1, <2>2, SeasonCloses
  <1> QED BY <1>2, <1>3

(* Shares of a season: each is its part of the profit rounded to nearest,  *)
(* and the parts are of at most the stake the season was closed with.      *)
LEMMA SharesBounded ==
  TypeOK /\ PaymentsBehind /\ PaymentsFair /\ SeasonAccounted => ShareBound
  <1> SUFFICES ASSUME TypeOK, PaymentsBehind, PaymentsFair, SeasonAccounted,
                      NEW d \in Dominator, NEW s \in Season,
                      SumFunction([a \in Staker |-> paid[d][a][s].share]) > 0
               PROVE  2 * SumFunction([a \in Staker |-> paid[d][a][s].share])
                        < 2 * bonuses[d][s].profit
                            + SumFunction([a \in Staker |-> paid[d][a][s].times])
    BY DEF ShareBound
  <1> DEFINE T == bonuses[d][s].staked
             P == bonuses[d][s].profit
             Sh == [a \in Staker |-> paid[d][a][s].share]
             Ti == [a \in Staker |-> paid[d][a][s].times]
             Ba == [a \in Staker |-> paid[d][a][s].base]
             Co == [a \in Staker |-> Counted(d, a, s)]
  <1>f. IsFiniteSet(Staker)
    BY FiniteIndices
  <1>a. \A a \in Staker : StakerTypes(d, a, s)
    BY StakerTyped
  <1>b. bonuses[d][s] \in [staked : Nat, profit : Nat]
    BY DEF TypeOK
  <1>c. T \in Nat /\ P \in Nat
    BY <1>b
  <1>d. /\ Sh \in [Staker -> Nat] /\ Ti \in [Staker -> Nat]
        /\ Ba \in [Staker -> Nat] /\ Co \in [Staker -> Nat]
    BY <1>a DEF StakerTypes, Counted, Unpaid
  <1>e. \A a \in Staker : PaymentFair(d, a, s) /\ PaymentBehind(d, a)
    BY DEF PaymentsBehind, PaymentsFair
  <1>g. \A a \in Staker : Ba[a] <= Co[a]
    BY <1>a DEF StakerTypes, Counted, Unpaid
  <1>1. PICK x \in Staker : Sh[x] # 0
    <2>1. CASE \A y \in Staker : Sh[y] = 0
      <3>1. Sh \in [Staker -> Int]
        BY <1>d
      <3>2. SumFunction(Sh) = 0
        BY <1>f, <2>1, <3>1, TotalZero
      <3> QED BY <3>2
    <2> QED BY <2>1
  <1>2. paid[d][x][s].times # 0
    BY <1>1, <1>e DEF PaymentFair
  <1>3. T # 0 /\ P # 0 /\ Registered(d) /\ s < CurrentSeason(d)
    BY <1>2, <1>e DEF PaymentFair, PaymentBehind
  <1>4. SumFunction(Co) = T
    BY <1>3 DEF SeasonAccounted
  <1>6. \A a \in Staker : /\ Ti[a] <= 1
                          /\ Ti[a] = 0 => Sh[a] = 0 /\ Ba[a] = 0
                          /\ Ti[a] # 0 => 2 * (T * Sh[a]) < 2 * (P * Ba[a]) + T
    BY <1>a, <1>e DEF PaymentFair, PaymentBehind
  <1> HIDE DEF T, P, Sh, Ti, Ba, Co
  <1>7. SumFunction(Ba) <= T
    <2>1. Ba \in [Staker -> Int] /\ Co \in [Staker -> Int]
      BY <1>d
    <2> QED BY <1>f, <1>g, <1>4, <2>1, TotalMono
  <1>8. SumFunction(Sh) > 0
    BY DEF Sh
  <1>9. 2 * SumFunction(Sh) < 2 * P + SumFunction(Ti)
    BY <1>c, <1>d, <1>f, <1>3, <1>6, <1>7, <1>8, TotalRounded
  <1> QED BY <1>9 DEF Sh, Ti, P

-----------------------------------------------------------------------------
(* The theorems.                                                           *)

(* The inductive invariant: the clocks, the funds, what was paid so far    *)
(* and the seasons that are closed.                                        *)
IInv ==
  /\ TypeOK /\ StatusFollowsStake /\ PendingAhead
  /\ StartBefore /\ StartAligned
  /\ StakedIsSum /\ StakeBacked /\ PendingBacked /\ ReservedIsBacking
  /\ PaymentsBehind /\ PaymentsFair /\ SeasonAccounted

(* The initial state satisfies the inductive invariant.                    *)
LEMMA InitInv == Init => IInv
  <1> SUFFICES ASSUME Init PROVE IInv
    OBVIOUS
  <1>1. TypeOK
    BY InitType
  <1>2. StartBefore /\ StatusFollowsStake
    BY DEF Init, StartBefore, StatusFollowsStake
  <1>3. StakeBacked
    BY DEF Init, StakeBacked, EmptyReserves, Holder, ReserveId, NoStaking
  <1>4. PaymentsBehind
    BY DEF Init, PaymentsBehind, PaymentBehind, NoStaking
  <1>5. PendingAhead
    BY DEF Init, PendingAhead
  <1>6. StartAligned
    <2>1. 0 % DominatorCheckGracePeriod = 0
      BY DivMod, PeriodAssumption
    <2> QED BY <2>1 DEF Init, StartAligned
  <1>7. StakedIsSum
    <2> SUFFICES ASSUME NEW d \in Dominator
                 PROVE  SumFunction([a \in Staker |-> stakings[d][a].amount]) = 0
      BY DEF StakedIsSum, Init
    <2> DEFINE F == [a \in Staker |-> stakings[d][a].amount]
    <2>1. F \in [Staker -> Int] /\ \A a \in Staker : F[a] = 0
      BY DEF Init, NoStaking
    <2> HIDE DEF F
    <2>2. SumFunction(F) = 0
      BY <2>1, TotalZero, FiniteIndices
    <2> QED BY <2>2 DEF F
  <1>8. PendingBacked
    <2> SUFFICES ASSUME NEW a \in Staker
                 PROVE  SumFunction([b \in Block |-> pending[b][a]]) = 0
      BY DEF PendingBacked, Init, EmptyReserves, ReserveId, Holder
    <2> DEFINE F == [b \in Block |-> pending[b][a]]
    <2>1. F \in [Block -> Int] /\ \A b \in Block : F[b] = 0
      BY DEF Init
    <2> HIDE DEF F
    <2>2. SumFunction(F) = 0
      BY <2>1, TotalZero, FiniteIndices
    <2> QED BY <2>2 DEF F
  <1>9. ReservedIsBacking
    <2> SUFFICES ASSUME NEW a \in Staker
                 PROVE  TotalReserves(ledger, Native, a) = 0
      BY DEF ReservedIsBacking, Init
    <2> DEFINE F(id) == ledger.reserves[id][a][Native]
               G == [id \in ReserveId |-> SumFunction(F(id))]
    <2>1. ASSUME NEW id \in ReserveId PROVE SumFunction(F(id)) = 0
      <3>1. F(id) = [h \in Holder |-> 0]
        BY DEF Init, EmptyReserves
      <3> HIDE DEF F
      <3>2. F(id) \in [Holder -> Int] /\ \A h \in Holder : F(id)[h] = 0
        BY <3>1
      <3> QED BY <3>2, TotalZero, FiniteIndices
    <2>2. G \in [ReserveId -> Int] /\ \A id \in ReserveId : G[id] = 0
      BY <2>1
    <2>3. DOMAIN ledger.reserves = ReserveId
      BY DEF Init, EmptyReserves
    <2>4. TotalReserves(ledger, Native, a) = SumFunction(G)
      BY <2>3 DEF TotalReserves
    <2> HIDE DEF G
    <2> QED BY <2>2, <2>4, TotalZero, FiniteIndices
  <1>10. PaymentsFair
    BY DEF Init, PaymentsFair, PaymentFair
  <1>11. SeasonAccounted
    BY DEF Init, SeasonAccounted, Registered
  <1> QED BY <1>1, <1>2, <1>3, <1>4, <1>5, <1>6, <1>7, <1>8, <1>9, <1>10, <1>11 DEF IInv

(* Every step preserves the inductive invariant.                           *)
LEMMA NextInv == IInv /\ [Next]_vars => IInv'
  BY NextType, NextStart, NextAligned, NextStakeBacked, NextStatus, NextPayments, NextPending,
     NextStakedIsSum, NextBacking, NextFair, NextAccounted DEF IInv

(* The inductive invariant holds for ever.                                 *)
LEMMA Invariance == Spec => []IInv
  BY InitInv, NextInv, PTL DEF Spec

(* Every reachable state of the staking pallet is well typed: in           *)
(* particular no balance, stake or reserve is ever driven below zero.      *)
THEOREM TypeCorrect == Spec => []TypeOK
  BY InitType, NextType, PTL DEF Spec

(* Every stake and every unstaked amount still waiting is locked in full   *)
(* in the owner's account, nothing else is, and a dominator's total is the *)
(* sum of its stakes: unstake_from and on_initialize can always release    *)
(* what Stakings and PendingUnstakings record.                             *)
THEOREM FundsAreBacked == Spec => []FundsBacked
  BY Invariance, PTL DEF IInv, FundsBacked

(* ACTIVE and INACTIVE follow the stake and the threshold in every state.  *)
THEOREM StatusIsStake == Spec => []StatusFollowsStake
  BY Invariance, PTL DEF IInv

(* take_shares never pays a staker twice for one season of a dominator.    *)
THEOREM NoDoublePayment == Spec => []PaidOnce
  <1>1. IInv => PaidOnce
    BY DEF IInv, PaymentsBehind, PaymentBehind, PaidOnce
  <1> QED BY <1>1, Invariance, PTL

(* The stakes paid for a closed season and those still to be paid add up   *)
(* to the total on_initialize saved for it.                                *)
THEOREM SeasonsAccounted == Spec => []SeasonAccounted
  BY Invariance, PTL DEF IInv

(* The stakers of a season never receive more than its profit, but for     *)
(* less than half a unit each that rounding may add.                       *)
THEOREM SharesWithinProfit == Spec => []ShareBound
  <1>1. IInv => ShareBound
    BY SharesBounded DEF IInv
  <1> QED BY <1>1, Invariance, PTL

(* No unstaked amount is left behind: each one waits for a later block     *)
(* that on_initialize will process.                                        *)
THEOREM PendingIsAhead == Spec => []PendingAhead
  BY Invariance, PTL DEF IInv

(* Eviction is final and a dominator's season clock is set once.           *)
THEOREM EvictionIsFinal == Spec => EvictedIsFinal
  <1>1. TypeOK /\ [Next]_vars =>
          [\A d \in Dominator :
             /\ dominators[d].status = "EVICTED" => dominators'[d].status = "EVICTED"
             /\ Registered(d) => dominators'[d].start_from = dominators[d].start_from]_vars
    BY StepLife DEF LifeStep
  <1> QED BY <1>1, TypeCorrect, PTL DEF Spec, EvictedIsFinal

(* Whenever a claim for a closed season is made, it pays the same share.   *)
THEOREM ClosedSeasonsFrozen == Spec => ClosedSeasonFrozen
  <1>1. IInv /\ [Next]_vars =>
          [\A d \in Dominator, s \in Season :
             Registered(d) /\ s < CurrentSeason(d) => bonuses'[d][s] = bonuses[d][s]]_vars
    BY StepClosed DEF IInv
  <1> QED BY <1>1, Invariance, PTL DEF Spec, ClosedSeasonFrozen
=============================================================================
