--------------------------- MODULE Custody_proofs ---------------------------
(***************************************************************************)
(* Proofs about Custody for any users, dominators, amounts and fee rates.  *)
(* The laws of the ledger operators come first: each keeps the type, keeps *)
(* the ledger solvent, and changes the sum of all balances by a known      *)
(* amount.  One section per invariant follows, then the theorems.          *)
(***************************************************************************)
EXTENDS Custody, SumTheorems

-----------------------------------------------------------------------------
(* Ledger values and what the properties observe of them.                  *)

CustodyLedger == LedgerType(User, Dominator, Token, ReserveId)
Solvent(l) == \A u \in User, t \in Token : l.reserved[t][u] >= TotalReserves(l, t, u)
Wealth(l, t) == SumFunction([u \in User |-> l.free[t][u] + l.reserved[t][u]])

(* m differs from l at most in one entry of each map.                      *)
OnlyEntry(l, m, id, u, t, d) ==
  \A i \in ReserveId, x \in User, s \in Token, k \in Dominator :
    (i # id \/ x # u \/ s # t \/ k # d) => m.reserves[i][x][s][k] = l.reserves[i][x][s][k]
OnlyReserved(l, m, u, t) ==
  \A s \in Token, x \in User : (s # t \/ x # u) => m.reserved[s][x] = l.reserved[s][x]
OnlyFree(l, m, u, t) ==
  \A s \in Token, x \in User : (s # t \/ x # u) => m.free[s][x] = l.free[s][x]

(* The sets that totals are taken over are finite.                         *)
LEMMA FiniteIndices ==
  IsFiniteSet(User) /\ IsFiniteSet(Dominator) /\ IsFiniteSet(ReserveId)
  <1>1. IsFiniteSet({"AUTHORIZING"})
    BY FS_Singleton
  <1>2. IsFiniteSet({"AUTHORIZING"} \cup {"AUTHORIZING_STASH"})
    BY <1>1, FS_AddElement
  <1>3. ReserveId = {"AUTHORIZING"} \cup {"AUTHORIZING_STASH"}
    BY DEF ReserveId
  <1> QED BY <1>2, <1>3, CustodyAssumption

(* The entries of a ledger are natural numbers.                            *)
LEMMA EntryTypes ==
  ASSUME NEW l \in CustodyLedger
  PROVE  /\ \A t \in Token, u \in User : l.free[t][u] \in Nat /\ l.reserved[t][u] \in Nat
         /\ \A i \in ReserveId, u \in User, t \in Token, d \in Dominator :
              l.reserves[i][u][t][d] \in Nat
         /\ l.free \in [Token -> [User -> Nat]]
         /\ l.reserved \in [Token -> [User -> Nat]]
         /\ l.reserves \in [ReserveId -> [User -> [Token -> [Dominator -> Nat]]]]
  BY DEF CustodyLedger, LedgerType

(* No purpose entry exceeds its owner's total.                             *)
LEMMA TotalBound ==
  ASSUME NEW l \in CustodyLedger, NEW u \in User, NEW t \in Token
  PROVE  /\ TotalReserves(l, t, u) \in Nat
         /\ \A id \in ReserveId, d \in Dominator :
              l.reserves[id][u][t][d] <= TotalReserves(l, t, u)
  <1> DEFINE F == [i \in ReserveId |-> SumFunction(l.reserves[i][u][t])]
  <1>1. \A i \in ReserveId : l.reserves[i][u][t] \in [Dominator -> Nat]
    BY EntryTypes
  <1>2. \A i \in ReserveId : SumFunction(l.reserves[i][u][t]) \in Nat
    BY <1>1, TotalNat, FiniteIndices
  <1>3. F \in [ReserveId -> Nat] /\ \A i \in ReserveId : F[i] = SumFunction(l.reserves[i][u][t])
    BY <1>2
  <1>4. TotalReserves(l, t, u) = SumFunction(F)
    BY EntryTypes DEF TotalReserves
  <1> HIDE DEF F
  <1>5. SumFunction(F) \in Nat
    BY <1>3, TotalNat, FiniteIndices
  <1>6. ASSUME NEW id \in ReserveId, NEW d \in Dominator
        PROVE  l.reserves[id][u][t][d] <= SumFunction(F)
    <2>1. l.reserves[id][u][t][d] <= F[id]
      BY <1>1, <1>3, TotalElement, FiniteIndices
    <2>2. F[id] <= SumFunction(F)
      BY <1>3, TotalElement, FiniteIndices
    <2>3. F[id] \in Nat /\ l.reserves[id][u][t][d] \in Nat
      BY <1>3, EntryTypes
    <2> QED BY <1>5, <2>1, <2>2, <2>3
  <1> QED BY <1>4, <1>5, <1>6

(* A change of one purpose entry changes its owner's total by as much, and *)
(* no other total.                                                         *)
LEMMA TotalChange ==
  ASSUME NEW l \in CustodyLedger, NEW m \in CustodyLedger, NEW id \in ReserveId,
         NEW u \in User, NEW t \in Token, NEW d \in Dominator,
         OnlyEntry(l, m, id, u, t, d)
  PROVE  /\ TotalReserves(m, t, u) = TotalReserves(l, t, u)
              + m.reserves[id][u][t][d] - l.reserves[id][u][t][d]
         /\ \A x \in User, s \in Token : (x # u \/ s # t) =>
              TotalReserves(m, s, x) = TotalReserves(l, s, x)
  <1>a. DOMAIN l.reserves = ReserveId /\ DOMAIN m.reserves = ReserveId
    BY EntryTypes
  <1>b. \A i \in ReserveId, x \in User, s \in Token :
          l.reserves[i][x][s] \in [Dominator -> Int] /\ m.reserves[i][x][s] \in [Dominator -> Int]
    BY EntryTypes
  <1>1. ASSUME NEW i \in ReserveId, NEW x \in User, NEW s \in Token, i # id \/ x # u \/ s # t
        PROVE  m.reserves[i][x][s] = l.reserves[i][x][s]
    <2>1. \A k \in Dominator : m.reserves[i][x][s][k] = l.reserves[i][x][s][k]
      BY <1>1 DEF OnlyEntry
    <2> QED BY <1>b, <2>1
  <1>2. ASSUME NEW x \in User, NEW s \in Token, x # u \/ s # t
        PROVE  TotalReserves(m, s, x) = TotalReserves(l, s, x)
    <2>1. [i \in ReserveId |-> SumFunction(m.reserves[i][x][s])]
            = [i \in ReserveId |-> SumFunction(l.reserves[i][x][s])]
      BY <1>1, <1>2
    <2> QED BY <1>a, <2>1 DEF TotalReserves
  <1>3. TotalReserves(m, t, u) = TotalReserves(l, t, u)
              + m.reserves[id][u][t][d] - l.reserves[id][u][t][d]
    <2> DEFINE F == [i \in ReserveId |-> SumFunction(l.reserves[i][u][t])]
               G == [i \in ReserveId |-> SumFunction(m.reserves[i][u][t])]
    <2>1. F \in [ReserveId -> Int] /\ G \in [ReserveId -> Int]
      <3>1. \A i \in ReserveId : SumFunction(l.reserves[i][u][t]) \in Int
                                 /\ SumFunction(m.reserves[i][u][t]) \in Int
        BY <1>b, TotalInt, FiniteIndices
      <3> QED BY <3>1
    <2>2. \A i \in ReserveId \ {id} : G[i] = F[i]
      BY <1>1
    <2>3. G[id] = F[id] + m.reserves[id][u][t][d] - l.reserves[id][u][t][d]
      <3>1. \A k \in Dominator \ {d} : m.reserves[id][u][t][k] = l.reserves[id][u][t][k]
        BY DEF OnlyEntry
      <3>2. SumFunction(m.reserves[id][u][t]) = SumFunction(l.reserves[id][u][t])
              + m.reserves[id][u][t][d] - l.reserves[id][u][t][d]
        BY <1>b, <3>1, TotalUpdate, FiniteIndices
      <3> QED BY <3>2
    <2>4. TotalReserves(l, t, u) = SumFunction(F) /\ TotalReserves(m, t, u) = SumFunction(G)
      BY <1>a DEF TotalReserves
    <2> HIDE DEF F, G
    <2>5. SumFunction(G) = SumFunction(F) + G[id] - F[id]
      BY <2>1, <2>2, TotalUpdate, FiniteIndices
    <2>6. SumFunction(F) \in Int /\ F[id] \in Int
      BY <2>1, TotalInt, FiniteIndices
    <2>7. m.reserves[id][u][t][d] \in Int /\ l.reserves[id][u][t][d] \in Int
      BY EntryTypes
    <2> QED BY <2>3, <2>4, <2>5, <2>6, <2>7
  <1> QED BY <1>2, <1>3

(* A solvent ledger stays so when one entry grows by no more than its      *)
(* owner's reserved balance.                                               *)
LEMMA SolventChange ==
  ASSUME NEW l \in CustodyLedger, NEW m \in CustodyLedger, NEW id \in ReserveId,
         NEW u \in User, NEW t \in Token, NEW d \in Dominator,
         OnlyEntry(l, m, id, u, t, d), OnlyReserved(l, m, u, t), Solvent(l),
         m.reserves[id][u][t][d] - l.reserves[id][u][t][d]
           <= m.reserved[t][u] - l.reserved[t][u]
  PROVE  Solvent(m)
  <1> SUFFICES ASSUME NEW x \in User, NEW s \in Token
               PROVE  m.reserved[s][x] >= TotalReserves(m, s, x)
    BY DEF Solvent
  <1>1. l.reserved[s][x] >= TotalReserves(l, s, x)
    BY DEF Solvent
  <1>2. CASE x # u \/ s # t
    BY <1>1, <1>2, TotalChange DEF OnlyReserved
  <1>3. CASE x = u /\ s = t
    <2>1. TotalReserves(m, t, u) = TotalReserves(l, t, u)
              + m.reserves[id][u][t][d] - l.reserves[id][u][t][d]
      BY TotalChange
    <2>2. /\ m.reserves[id][u][t][d] \in Int /\ l.reserves[id][u][t][d] \in Int
          /\ m.reserved[t][u] \in Int /\ l.reserved[t][u] \in Int
      BY EntryTypes
    <2>3. TotalReserves(l, t, u) \in Int
      BY TotalBound
    <2> QED BY <1>1, <1>3, <2>1, <2>2, <2>3
  <1> QED BY <1>2, <1>3

(* A ledger that changes the balances of one user changes the sum of all   *)
(* balances by as much.                                                    *)
LEMMA WealthChange ==
  ASSUME NEW l \in CustodyLedger, NEW m \in CustodyLedger, NEW u \in User, NEW t \in Token,
         OnlyFree(l, m, u, t), OnlyReserved(l, m, u, t)
  PROVE  /\ Wealth(m, t) = Wealth(l, t) + (m.free[t][u] + m.reserved[t][u])
                                        - (l.free[t][u] + l.reserved[t][u])
         /\ \A s \in Token : s # t => Wealth(m, s) = Wealth(l, s)
         /\ \A s \in Token : Wealth(m, s) \in Int /\ Wealth(l, s) \in Int
  <1> DEFINE W(k, s) == [x \in User |-> k.free[s][x] + k.reserved[s][x]]
  <1>1. ASSUME NEW s \in Token
        PROVE  W(l, s) \in [User -> Int] /\ W(m, s) \in [User -> Int]
    BY EntryTypes
  <1>2. ASSUME NEW s \in Token, s # t
        PROVE  W(m, s) = W(l, s)
    BY <1>2 DEF OnlyFree, OnlyReserved
  <1>3. \A x \in User \ {u} : W(m, t)[x] = W(l, t)[x]
    BY DEF OnlyFree, OnlyReserved
  <1>4. /\ W(m, t)[u] = m.free[t][u] + m.reserved[t][u]
        /\ W(l, t)[u] = l.free[t][u] + l.reserved[t][u]
    OBVIOUS
  <1>5. \A s \in Token : Wealth(m, s) = SumFunction(W(m, s)) /\ Wealth(l, s) = SumFunction(W(l, s))
    BY DEF Wealth
  <1> HIDE DEF W
  <1>6. SumFunction(W(m, t)) = SumFunction(W(l, t)) + W(m, t)[u] - W(l, t)[u]
    BY <1>1, <1>3, TotalUpdate, FiniteIndices
  <1>7. \A s \in Token : SumFunction(W(m, s)) \in Int /\ SumFunction(W(l, s)) \in Int
    BY <1>1, TotalInt, FiniteIndices
  <1> QED BY <1>2, <1>4, <1>5, <1>6, <1>7

(* The sum of all balances is a number.                                    *)
LEMMA WealthInt ==
  ASSUME NEW l \in CustodyLedger, NEW t \in Token
  PROVE  Wealth(l, t) \in Int
  <1> DEFINE W == [x \in User |-> l.free[t][x] + l.reserved[t][x]]
  <1>1. W \in [User -> Int]
    BY EntryTypes
  <1> HIDE DEF W
  <1>2. SumFunction(W) \in Int
    BY <1>1, TotalInt, FiniteIndices
  <1> QED BY <1>2 DEF W, Wealth

-----------------------------------------------------------------------------
(* The laws of the ledger operators.                                       *)

(* v units move from the free balance of u to one of its purposes, or back *)
(* when v is negative.                                                     *)
Shifted(l, m, id, u, t, d, v) ==
  /\ OnlyEntry(l, m, id, u, t, d) /\ OnlyReserved(l, m, u, t) /\ OnlyFree(l, m, u, t)
  /\ m.free[t][u] = l.free[t][u] - v
  /\ m.reserved[t][u] = l.reserved[t][u] + v
  /\ m.reserves[id][u][t][d] = l.reserves[id][u][t][d] + v

(* What such a move keeps: solvency and the sum of all balances.           *)
Kept(l, m) ==
  /\ m \in CustodyLedger
  /\ Solvent(l) => Solvent(m)
  /\ \A s \in Token : Wealth(m, s) = Wealth(l, s)

(* A shift keeps both.                                                     *)
LEMMA ShiftKeeps ==
  ASSUME NEW l \in CustodyLedger, NEW m \in CustodyLedger, NEW id \in ReserveId,
         NEW u \in User, NEW t \in Token, NEW d \in Dominator, NEW v \in Int,
         Shifted(l, m, id, u, t, d, v)
  PROVE  Kept(l, m)
  <1>a. /\ m.reserves[id][u][t][d] \in Int /\ l.reserves[id][u][t][d] \in Int
        /\ m.reserved[t][u] \in Int /\ l.reserved[t][u] \in Int
        /\ m.free[t][u] \in Int /\ l.free[t][u] \in Int
    BY EntryTypes
  <1>1. Solvent(l) => Solvent(m)
    <2>1. m.reserves[id][u][t][d] - l.reserves[id][u][t][d]
            <= m.reserved[t][u] - l.reserved[t][u]
      BY <1>a DEF Shifted
    <2> QED BY <2>1, SolventChange DEF Shifted
  <1>2. \A s \in Token : Wealth(m, s) = Wealth(l, s)
    <2>1. /\ Wealth(m, t) = Wealth(l, t) + (m.free[t][u] + m.reserved[t][u])
                                         - (l.free[t][u] + l.reserved[t][u])
          /\ \A s \in Token : s # t => Wealth(m, s) = Wealth(l, s)
          /\ \A s \in Token : Wealth(m, s) \in Int /\ Wealth(l, s) \in Int
      BY WealthChange DEF Shifted
    <2>2. m.free[t][u] + m.reserved[t][u] = l.free[t][u] + l.reserved[t][u]
      BY <1>a DEF Shifted
    <2> QED BY <1>a, <2>1, <2>2
  <1> QED BY <1>1, <1>2 DEF Kept

(* reserve moves v from free to a purpose.                                 *)
LEMMA ReserveLaw ==
  ASSUME NEW l \in CustodyLedger, NEW id \in ReserveId, NEW u \in User, NEW t \in Token,
         NEW d \in Dominator, NEW v \in Nat, can_reserve(l, t, u, v)
  PROVE  /\ Shifted(l, reserve(l, id, u, t, v, d), id, u, t, d, v)
         /\ Kept(l, reserve(l, id, u, t, v, d))
  <1> DEFINE m == reserve(l, id, u, t, v, d)
  <1>1. /\ l.free \in [Token -> [User -> Nat]]
        /\ l.reserved \in [Token -> [User -> Nat]]
        /\ l.reserves \in [ReserveId -> [User -> [Token -> [Dominator -> Nat]]]]
    BY EntryTypes
  <1>2. m.free \in [Token -> [User -> Nat]] /\ m.reserved \in [Token -> [User -> Nat]]
    BY <1>1 DEF can_reserve, reserve
  <1>3. m.reserves \in [ReserveId -> [User -> [Token -> [Dominator -> Nat]]]]
    BY <1>1 DEF reserve
  <1>4. m \in CustodyLedger
    BY <1>2, <1>3 DEF CustodyLedger, LedgerType, reserve
  <1>5. OnlyEntry(l, m, id, u, t, d) /\ m.reserves[id][u][t][d] = l.reserves[id][u][t][d] + v
    BY <1>1 DEF reserve, OnlyEntry
  <1>6. OnlyReserved(l, m, u, t) /\ m.reserved[t][u] = l.reserved[t][u] + v
    BY <1>1 DEF reserve, OnlyReserved
  <1>7. OnlyFree(l, m, u, t) /\ m.free[t][u] = l.free[t][u] - v
    BY <1>1 DEF reserve, OnlyFree
  <1>8. Shifted(l, m, id, u, t, d, v)
    BY <1>5, <1>6, <1>7 DEF Shifted
  <1> HIDE DEF m
  <1>9. Kept(l, m)
    BY <1>4, <1>8, ShiftKeeps
  <1> QED BY <1>8, <1>9 DEF m

(* unreserve moves v back.                                                 *)
LEMMA UnreserveLaw ==
  ASSUME NEW l \in CustodyLedger, NEW id \in ReserveId, NEW u \in User, NEW t \in Token,
         NEW d \in Dominator, NEW v \in Nat, can_unreserve(l, id, u, t, v, d)
  PROVE  /\ Shifted(l, unreserve(l, id, u, t, v, d), id, u, t, d, -v)
         /\ Kept(l, unreserve(l, id, u, t, v, d))
  <1> DEFINE m == unreserve(l, id, u, t, v, d)
             w == -v
  <1>1. /\ l.free \in [Token -> [User -> Nat]]
        /\ l.reserved \in [Token -> [User -> Nat]]
        /\ l.reserves \in [ReserveId -> [User -> [Token -> [Dominator -> Nat]]]]
    BY EntryTypes
  <1>2. m.free \in [Token -> [User -> Nat]] /\ m.reserved \in [Token -> [User -> Nat]]
    BY <1>1 DEF can_unreserve, unreserve
  <1>3. m.reserves \in [ReserveId -> [User -> [Token -> [Dominator -> Nat]]]]
    BY <1>1 DEF can_unreserve, unreserve
  <1>4. m \in CustodyLedger
    BY <1>2, <1>3 DEF CustodyLedger, LedgerType, unreserve
  <1>5. OnlyEntry(l, m, id, u, t, d) /\ m.reserves[id][u][t][d] = l.reserves[id][u][t][d] + w
    BY <1>1 DEF unreserve, OnlyEntry
  <1>6. OnlyReserved(l, m, u, t) /\ m.reserved[t][u] = l.reserved[t][u] + w
    BY <1>1 DEF unreserve, OnlyReserved
  <1>7. OnlyFree(l, m, u, t) /\ m.free[t][u] = l.free[t][u] - w
    BY <1>1 DEF unreserve, OnlyFree
  <1>a. w \in Int
    OBVIOUS
  <1> HIDE DEF w
  <1>8. Shifted(l, m, id, u, t, d, w)
    BY <1>5, <1>6, <1>7 DEF Shifted
  <1> HIDE DEF m
  <1>9. Kept(l, m)
    BY <1>4, <1>8, <1>a, ShiftKeeps
  <1> QED BY <1>8, <1>9 DEF m, w

(* Moving an amount between the two purposes of a user, or dropping part   *)
(* of it, touches no balance and leaves a solvent ledger solvent.          *)
Restashed(l, m, u, t, d) ==
  /\ m.free = l.free /\ m.reserved = l.reserved
  /\ \A i \in ReserveId, x \in User, s \in Token, k \in Dominator :
       (x # u \/ s # t \/ k # d) => m.reserves[i][x][s][k] = l.reserves[i][x][s][k]
  /\ m.reserves["AUTHORIZING"][u][t][d] + m.reserves["AUTHORIZING_STASH"][u][t][d]
       <= l.reserves["AUTHORIZING"][u][t][d] + l.reserves["AUTHORIZING_STASH"][u][t][d]

(* Such a move keeps solvency and the sum of all balances.                 *)
LEMMA RestashKeeps ==
  ASSUME NEW l \in CustodyLedger, NEW m \in CustodyLedger,
         NEW u \in User, NEW t \in Token, NEW d \in Dominator, Restashed(l, m, u, t, d)
  PROVE  Kept(l, m)
  <1>1. \A s \in Token : Wealth(m, s) = Wealth(l, s)
    BY DEF Restashed, Wealth
  <1>2. ASSUME Solvent(l) PROVE Solvent(m)
    <2> DEFINE A == "AUTHORIZING"
               S == "AUTHORIZING_STASH"
               k == [free |-> l.free, reserved |-> l.reserved,
                     reserves |-> [l.reserves EXCEPT ![S][u][t][d] = m.reserves[S][u][t][d]]]
    <2>a. A \in ReserveId /\ S \in ReserveId /\ A # S /\ \A i \in ReserveId : i = A \/ i = S
      BY DEF ReserveId
    <2>b. /\ m.reserves[S][u][t][d] \in Nat /\ m.reserves[A][u][t][d] \in Nat
          /\ l.reserves[S][u][t][d] \in Nat /\ l.reserves[A][u][t][d] \in Nat
      BY <2>a, EntryTypes
    <2>c. l \in [free : [Token -> [User -> Nat]], reserved : [Token -> [User -> Nat]],
                 reserves : [ReserveId -> [User -> [Token -> [Dominator -> Nat]]]]]
      BY DEF CustodyLedger, LedgerType
    <2>1. k.reserves \in [ReserveId -> [User -> [Token -> [Dominator -> Nat]]]]
          /\ k.reserved = l.reserved /\ k.free = l.free
      BY <2>a, <2>b, <2>c
    <2>2. k \in CustodyLedger
      BY <2>c, <2>1 DEF CustodyLedger, LedgerType
    <2>d. k.reserves = [l.reserves EXCEPT ![S][u][t][d] = m.reserves[S][u][t][d]]
          /\ l.reserves \in [ReserveId -> [User -> [Token -> [Dominator -> Nat]]]]
      BY <2>c
    <2> HIDE DEF k
    <2>e. /\ k.reserves[S][u][t][d] = m.reserves[S][u][t][d]
          /\ k.reserves[A][u][t][d] = l.reserves[A][u][t][d]
      BY <2>a, <2>d
    <2>f. OnlyEntry(l, k, S, u, t, d)
      BY <2>a, <2>d DEF OnlyEntry
    <2>3. /\ k.reserves[S][u][t][d] = m.reserves[S][u][t][d]
          /\ k.reserves[A][u][t][d] = l.reserves[A][u][t][d]
          /\ OnlyEntry(l, k, S, u, t, d)
      BY <2>e, <2>f
    <2> HIDE DEF A, S
    <2>4. OnlyEntry(k, m, A, u, t, d)
      BY <2>a, <2>3 DEF OnlyEntry, Restashed
    <2>5. TotalReserves(k, t, u) = TotalReserves(l, t, u)
            + m.reserves[S][u][t][d] - l.reserves[S][u][t][d]
      BY <2>a, <2>2, <2>3, TotalChange
    <2>6. TotalReserves(m, t, u) = TotalReserves(k, t, u)
            + m.reserves[A][u][t][d] - l.reserves[A][u][t][d]
      BY <2>a, <2>2, <2>3, <2>4, TotalChange
    <2>7. m.reserves[A][u][t][d] + m.reserves[S][u][t][d]
            <= l.reserves[A][u][t][d] + l.reserves[S][u][t][d]
      BY DEF Restashed, A, S
    <2>8. TotalReserves(m, t, u) <= TotalReserves(l, t, u)
      <3>1. TotalReserves(l, t, u) \in Int
        BY TotalBound
      <3>2. TotalReserves(m, t, u) = (TotalReserves(l, t, u)
              + m.reserves[S][u][t][d] - l.reserves[S][u][t][d])
              + m.reserves[A][u][t][d] - l.reserves[A][u][t][d]
        BY ONLY <2>5, <2>6
      <3>3. \A x, y, z, v, w \in Int : v + y <= w + z => (x + y - z) + v - w <= x
        OBVIOUS
      <3> QED BY ONLY <2>7, <2>b, <3>1, <3>2, <3>3
    <2>9. ASSUME NEW x \in User, NEW s \in Token, x # u \/ s # t
          PROVE  TotalReserves(m, s, x) = TotalReserves(l, s, x)
      <3>1. TotalReserves(k, s, x) = TotalReserves(l, s, x)
        BY <2>a, <2>2, <2>3, <2>9, TotalChange
      <3>2. TotalReserves(m, s, x) = TotalReserves(k, s, x)
        BY <2>a, <2>2, <2>4, <2>9, TotalChange
      <3> QED BY <3>1, <3>2
    <2> SUFFICES ASSUME NEW x \in User, NEW s \in Token
                 PROVE  m.reserved[s][x] >= TotalReserves(m, s, x)
      BY DEF Solvent
    <2>10. l.reserved[s][x] >= TotalReserves(l, s, x) /\ m.reserved[s][x] = l.reserved[s][x]
           /\ l.reserved[s][x] \in Nat
      BY <1>2, EntryTypes DEF Solvent, Restashed
    <2>11. TotalReserves(m, s, x) \in Nat /\ TotalReserves(l, s, x) \in Nat
      BY TotalBound
    <2> QED BY <2>8, <2>9, <2>10, <2>11
  <1> QED BY <1>1, <1>2 DEF Kept

(* The two purposes of a user after one of them was emptied into, or next  *)
(* to, the other.                                                          *)
LEMMA StashEmptied ==
  ASSUME NEW l \in CustodyLedger, NEW u \in User, NEW t \in Token, NEW d \in Dominator,
         NEW v \in Nat, v <= l.reserves["AUTHORIZING_STASH"][u][t][d]
  PROVE  LET m == StashToAuthorizing(l, d, u, t, v) IN
         /\ Kept(l, m) /\ Restashed(l, m, u, t, d)
         /\ m.reserves["AUTHORIZING"][u][t][d] = l.reserves["AUTHORIZING"][u][t][d] + v
         /\ m.reserves["AUTHORIZING_STASH"][u][t][d] = 0
  <1> DEFINE A == "AUTHORIZING"
             S == "AUTHORIZING_STASH"
             m == StashToAuthorizing(l, d, u, t, v)
  <1>a. A \in ReserveId /\ S \in ReserveId /\ A # S /\ \A i \in ReserveId : i = A \/ i = S
    BY DEF ReserveId
  <1>b. l \in [free : [Token -> [User -> Nat]], reserved : [Token -> [User -> Nat]],
               reserves : [ReserveId -> [User -> [Token -> [Dominator -> Nat]]]]]
    BY DEF CustodyLedger, LedgerType
  <1>c. l.reserves \in [ReserveId -> [User -> [Token -> [Dominator -> Nat]]]]
    BY <1>b
  <1> DEFINE r1 == [l.reserves EXCEPT ![A][u][t][d] = @ + v]
             r2 == [r1 EXCEPT ![S][u][t][d] = 0]
  <1>1. m = [free |-> l.free, reserved |-> l.reserved, reserves |-> r2]
    <2>1. m = [l EXCEPT !.reserves[A][u][t][d] = @ + v, !.reserves[S][u][t][d] = 0]
      BY DEF StashToAuthorizing
    <2> HIDE DEF m
    <2> QED BY <1>b, <2>1
  <1> HIDE DEF m
  <1>2. r1 \in [ReserveId -> [User -> [Token -> [Dominator -> Nat]]]]
    BY <1>a, <1>c
  <1>3. r1[A][u][t][d] = l.reserves[A][u][t][d] + v
    BY <1>a, <1>c
  <1>4. \A i \in ReserveId, x \in User, s \in Token, k \in Dominator :
          (i # A \/ x # u \/ s # t \/ k # d) => r1[i][x][s][k] = l.reserves[i][x][s][k]
    BY <1>a, <1>c
  <1> HIDE DEF r1
  <1>5. r2 \in [ReserveId -> [User -> [Token -> [Dominator -> Nat]]]]
    BY <1>a, <1>2
  <1>6. r2[S][u][t][d] = 0
    BY <1>a, <1>2
  <1>7. \A i \in ReserveId, x \in User, s \in Token, k \in Dominator :
          (i # S \/ x # u \/ s # t \/ k # d) => r2[i][x][s][k] = r1[i][x][s][k]
    BY <1>a, <1>2
  <1> HIDE DEF r2
  <1>8. m \in CustodyLedger
    BY ONLY <1>1, <1>5, <1>b DEF CustodyLedger, LedgerType
  <1>9. m.reserves[A][u][t][d] = l.reserves[A][u][t][d] + v /\ m.reserves[S][u][t][d] = 0
    <2>1. r2[A][u][t][d] = r1[A][u][t][d]
      BY <1>7, <1>a
    <2> QED BY ONLY <1>1, <1>3, <1>6, <2>1
  <1>10. Restashed(l, m, u, t, d)
    <2>1. \A i \in ReserveId, x \in User, s \in Token, k \in Dominator :
            (x # u \/ s # t \/ k # d) => m.reserves[i][x][s][k] = l.reserves[i][x][s][k]
      <3>1. \A i \in ReserveId, x \in User, s \in Token, k \in Dominator :
              (x # u \/ s # t \/ k # d) => r2[i][x][s][k] = l.reserves[i][x][s][k]
        BY ONLY <1>4, <1>7
      <3> QED BY ONLY <1>1, <3>1
    <2>2. m.free = l.free /\ m.reserved = l.reserved
      BY ONLY <1>1
    <2>3. l.reserves[A][u][t][d] \in Nat /\ l.reserves[S][u][t][d] \in Nat
      BY <1>a, EntryTypes
    <2>4. m.reserves[A][u][t][d] + m.reserves[S][u][t][d]
            <= l.reserves[A][u][t][d] + l.reserves[S][u][t][d]
      BY ONLY <1>9, <2>3, v \in Nat, v <= l.reserves[S][u][t][d]
    <2> QED BY <2>1, <2>2, <2>4 DEF Restashed
  <1>11. Kept(l, m)
    BY <1>8, <1>10, RestashKeeps
  <1> QED BY <1>9, <1>10, <1>11 DEF m

(* m is l after the purpose AUTHORIZING of u on d became b, for token t.   *)
Cleared(l, m, d, u, t, b) ==
  LET r == l.reserves["AUTHORIZING"][u][t][d] IN
  /\ m \in CustodyLedger /\ Solvent(m)
  /\ OnlyEntry(l, m, "AUTHORIZING", u, t, d) /\ OnlyReserved(l, m, u, t)
  /\ m.free = l.free
  /\ m.reserves["AUTHORIZING"][u][t][d] = b
  /\ m.reserved[t][u] = l.reserved[t][u] - r + b
  /\ Wealth(m, t) = Wealth(l, t) + b - r
  /\ \A s \in Token : s # t => Wealth(m, s) = Wealth(l, s)

(* On a solvent ledger clear replaces the old amount by the new one.       *)
LEMMA ClearLaw ==
  ASSUME NEW l \in CustodyLedger, Solvent(l), NEW d \in Dominator, NEW u \in User,
         NEW t \in Token, NEW b \in Nat
  PROVE  Cleared(l, clear(l, d, u, t, b), d, u, t, b)
  <1> DEFINE A == "AUTHORIZING"
             m == clear(l, d, u, t, b)
             r == l.reserves[A][u][t][d]
             n == l.reserved[t][u] - r + b
             rd == [l.reserved EXCEPT ![t][u] = n]
             rs == [l.reserves EXCEPT ![A][u][t][d] = b]
  <1>a. A \in ReserveId
    BY DEF ReserveId
  <1>b. l \in [free : [Token -> [User -> Nat]], reserved : [Token -> [User -> Nat]],
               reserves : [ReserveId -> [User -> [Token -> [Dominator -> Nat]]]]]
    BY DEF CustodyLedger, LedgerType
  <1>c. r \in Nat /\ l.reserved[t][u] \in Nat /\ l.free[t][u] \in Nat
    BY <1>a, EntryTypes
  <1>1. r <= l.reserved[t][u]
    <2>1. TotalReserves(l, t, u) \in Nat /\ r <= TotalReserves(l, t, u)
      BY <1>a, TotalBound
    <2>2. l.reserved[t][u] >= TotalReserves(l, t, u)
      BY DEF Solvent
    <2> QED BY <1>c, <2>1, <2>2
  <1>2. m = [free |-> l.free, reserved |-> rd, reserves |-> rs]
    <2>1. (IF l.reserved[t][u] >= r THEN l.reserved[t][u] - r ELSE 0) + b = n
      BY <1>1, <1>c
    <2>2. m = [l EXCEPT !.reserved[t][u] = n, !.reserves[A][u][t][d] = b]
      BY <2>1 DEF clear
    <2> HIDE DEF n, m
    <2> QED BY ONLY <1>b, <2>2
  <1>3. rd \in [Token -> [User -> Nat]] /\ rd[t][u] = l.reserved[t][u] - r + b
    BY <1>1, <1>b, <1>c
  <1>4. \A s \in Token, x \in User : (s # t \/ x # u) => rd[s][x] = l.reserved[s][x]
    BY <1>b
  <1>5. rs \in [ReserveId -> [User -> [Token -> [Dominator -> Nat]]]] /\ rs[A][u][t][d] = b
    BY <1>a, <1>b
  <1>6. \A i \in ReserveId, x \in User, s \in Token, k \in Dominator :
          (i # A \/ x # u \/ s # t \/ k # d) => rs[i][x][s][k] = l.reserves[i][x][s][k]
    BY <1>a, <1>b
  <1> HIDE DEF m, rd, rs
  <1>7. m \in CustodyLedger
    BY <1>2, <1>3, <1>5, <1>b DEF CustodyLedger, LedgerType
  <1>8. OnlyEntry(l, m, A, u, t, d) /\ OnlyReserved(l, m, u, t) /\ OnlyFree(l, m, u, t)
    BY <1>2, <1>4, <1>6 DEF OnlyEntry, OnlyReserved, OnlyFree
  <1>9. /\ m.free = l.free
        /\ m.reserves[A][u][t][d] = b
        /\ m.reserved[t][u] = l.reserved[t][u] - r + b
    BY <1>2, <1>3, <1>5
  <1>10. Solvent(m)
    <2>1. m.reserves[A][u][t][d] - l.reserves[A][u][t][d] <= m.reserved[t][u] - l.reserved[t][u]
      BY <1>9, <1>c
    <2> QED BY <1>7, <1>8, <1>a, <2>1, SolventChange
  <1>11. /\ Wealth(m, t) = Wealth(l, t) + b - r
         /\ \A s \in Token : s # t => Wealth(m, s) = Wealth(l, s)
    <2>1. /\ Wealth(m, t) = Wealth(l, t) + (m.free[t][u] + m.reserved[t][u])
                                         - (l.free[t][u] + l.reserved[t][u])
          /\ \A s \in Token : s # t => Wealth(m, s) = Wealth(l, s)
          /\ Wealth(l, t) \in Int
      BY <1>7, <1>8, WealthChange
    <2> QED BY <1>9, <1>c, <2>1
  <1> QED BY <1>7, <1>8, <1>9, <1>10, <1>11 DEF Cleared, m

Leaf == [available : Nat, frozen : Nat]
SumOf(leaf) == leaf.available + leaf.frozen

(* m is l after both tokens of u on d were cleared to the given leaves.    *)
ClearedBoth(l, m, d, u, leaves) ==
  /\ m \in CustodyLedger /\ Solvent(m)
  /\ m.free = l.free
  /\ \A i \in ReserveId, x \in User, s \in Token, k \in Dominator :
       m.reserves[i][x][s][k] = IF i = "AUTHORIZING" /\ x = u /\ k = d
                                THEN SumOf(leaves[s]) ELSE l.reserves[i][x][s][k]
  /\ \A s \in Token : Wealth(m, s) = Wealth(l, s) + SumOf(leaves[s])
                                       - l.reserves["AUTHORIZING"][u][s][d]

(* The law of the two calls of clear for one account.                      *)
LEMMA ClearBothLaw ==
  ASSUME NEW l \in CustodyLedger, Solvent(l), NEW d \in Dominator, NEW u \in User,
         NEW leaves \in [Token -> Leaf]
  PROVE  ClearedBoth(l, ClearBoth(l, d, u, leaves), d, u, leaves)
  <1> DEFINE A == "AUTHORIZING"
             b == SumOf(leaves[Base])
             q == SumOf(leaves[Quote])
             k == clear(l, d, u, Base, b)
             m == clear(k, d, u, Quote, q)
  <1>a. A \in ReserveId /\ Base \in Token /\ Quote \in Token /\ Base # Quote
        /\ \A s \in Token : s = Base \/ s = Quote
    BY CustodyAssumption DEF ReserveId, Token
  <1>b. b \in Nat /\ q \in Nat
    BY <1>a DEF Leaf, SumOf
  <1>c. ClearBoth(l, d, u, leaves) = m
    BY DEF ClearBoth, SumOf
  <1> HIDE DEF k, m, b, q
  <1>1. Cleared(l, k, d, u, Base, b)
    BY <1>a, <1>b, ClearLaw DEF k
  <1>2. Cleared(k, m, d, u, Quote, q)
    BY <1>1, <1>a, <1>b, ClearLaw DEF m, Cleared
  <1>3. m \in CustodyLedger /\ Solvent(m) /\ m.free = l.free
    BY <1>1, <1>2 DEF Cleared
  <1>4. \A i \in ReserveId, x \in User, s \in Token, e \in Dominator :
          k.reserves[i][x][s][e] = IF i = A /\ x = u /\ e = d /\ s = Base
                                   THEN b ELSE l.reserves[i][x][s][e]
    BY <1>1 DEF Cleared, OnlyEntry
  <1>5. \A i \in ReserveId, x \in User, s \in Token, e \in Dominator :
          m.reserves[i][x][s][e] = IF i = A /\ x = u /\ e = d /\ s = Quote
                                   THEN q ELSE k.reserves[i][x][s][e]
    BY <1>2 DEF Cleared, OnlyEntry
  <1>6. \A i \in ReserveId, x \in User, s \in Token, e \in Dominator :
          m.reserves[i][x][s][e] = IF i = A /\ x = u /\ e = d
                                   THEN SumOf(leaves[s]) ELSE l.reserves[i][x][s][e]
    BY <1>4, <1>5, <1>a DEF b, q
  <1>7. k.reserves[A][u][Quote][d] = l.reserves[A][u][Quote][d]
    BY <1>4, <1>a
  <1>8. /\ Wealth(m, Base) = Wealth(l, Base) + b - l.reserves[A][u][Base][d]
        /\ Wealth(m, Quote) = Wealth(l, Quote) + q - l.reserves[A][u][Quote][d]
    BY <1>1, <1>2, <1>7, <1>a DEF Cleared
  <1> QED BY <1>3, <1>6, <1>8, <1>a, <1>c DEF ClearedBoth, b, q

-----------------------------------------------------------------------------
(* The inductive invariant.  The properties are inductive together, but    *)
(* for ReceiptResolvable: of it the proof carries that a stash covers its  *)
(* Authorize receipt, which TransferIn relies on; that a Revoke can be     *)
(* executed follows from the other parts.                                  *)

ReceiptCovered ==
  \A d \in Dominator, u \in User :
    receipts[d][u].kind = "Authorize" =>
      Stash(d, u, receipts[d][u].token) >= receipts[d][u].amount

IInv ==
  /\ TypeOK /\ ReservesBacked /\ BookMatchesReserves
  /\ ReceiptCovered /\ TokenConserved

(* The step EvictedReturns allows, and what is shown of every step.        *)
EvictedStep ==
  \A d \in Dominator, u \in User, t \in Token :
    (status[d] = "EVICTED" /\ Claim(d, u, t)' # Claim(d, u, t)) =>
      ledger'.free[t][u] - ledger.free[t][u] = Claim(d, u, t) - Claim(d, u, t)'
Keeps == IInv' /\ EvictedStep

(* A step that leaves the reserves kept for evicted dominators alone.      *)
LEMMA EvictedUntouched ==
  ASSUME \A i \in ReserveId, u \in User, t \in Token, d \in Dominator :
           status[d] = "EVICTED" => ledger'.reserves[i][u][t][d] = ledger.reserves[i][u][t][d]
  PROVE  EvictedStep
  <1>1. "AUTHORIZING" \in ReserveId /\ "AUTHORIZING_STASH" \in ReserveId
    BY DEF ReserveId
  <1> QED BY <1>1 DEF EvictedStep, Claim, Authorizing, Stash

(* The types of what the proofs look at.                                   *)
LEMMA StateTypes ==
  ASSUME TypeOK
  PROVE  /\ ledger \in CustodyLedger
         /\ \A d \in Dominator, u \in User, t \in Token :
              /\ book[d][u][t] \in Leaf
              /\ book[d][u][t].available \in Nat /\ book[d][u][t].frozen \in Nat
              /\ Authorizing(d, u, t) \in Nat /\ Stash(d, u, t) \in Nat
         /\ \A d \in Dominator, u \in User :
              receipts[d][u].kind \in Kind =>
                receipts[d][u].token \in Token /\ receipts[d][u].amount \in Nat
         /\ "AUTHORIZING" \in ReserveId /\ "AUTHORIZING_STASH" \in ReserveId
  <1>1. ledger \in CustodyLedger
    BY DEF TypeOK, CustodyLedger
  <1>2. "AUTHORIZING" \in ReserveId /\ "AUTHORIZING_STASH" \in ReserveId
    BY DEF ReserveId
  <1>3. \A d \in Dominator, u \in User, t \in Token :
          Authorizing(d, u, t) \in Nat /\ Stash(d, u, t) \in Nat
    BY <1>1, <1>2, EntryTypes DEF Authorizing, Stash
  <1>4. \A d \in Dominator, u \in User, t \in Token :
          /\ book[d][u][t] \in Leaf
          /\ book[d][u][t].available \in Nat /\ book[d][u][t].frozen \in Nat
    BY DEF TypeOK, Leaf
  <1>5. ASSUME NEW d \in Dominator, NEW u \in User, receipts[d][u].kind \in Kind
        PROVE  receipts[d][u].token \in Token /\ receipts[d][u].amount \in Nat
    <2>1. receipts[d][u] \in Receipt \cup {NoReceipt}
      BY DEF TypeOK
    <2>2. receipts[d][u] # NoReceipt
      BY <1>5 DEF Kind, NoReceipt
    <2> QED BY <2>1, <2>2 DEF Receipt
  <1> QED BY <1>1, <1>2, <1>3, <1>4, <1>5

(* A step whose ledger change is Kept, and which takes no fee and spends   *)
(* nothing, keeps the properties of balances.                              *)
LEMMA KeptBalances ==
  ASSUME TypeOK, ReservesBacked, TokenConserved, Kept(ledger, ledger'),
         UNCHANGED <<fees, bridged>>
  PROVE  ReservesBacked' /\ TokenConserved'
  <1>1. ReservesBacked'
    BY DEF ReservesBacked, Kept, Solvent
  <1>2. TokenConserved'
    <2> SUFFICES ASSUME NEW t \in Token
                 PROVE  Wealth(ledger', t) + fees[t] + bridged[t]
                          = SumFunction([u \in User |-> Endowment[t][u]])
      BY DEF TokenConserved, Wealth
    <2>1. Wealth(ledger, t) + fees[t] + bridged[t]
            = SumFunction([u \in User |-> Endowment[t][u]])
      BY DEF TokenConserved, Wealth
    <2>2. Wealth(ledger', t) = Wealth(ledger, t)
      BY DEF Kept
    <2> QED BY <2>1, <2>2
  <1> QED BY <1>1, <1>2

(* What writing one leaf does to the books.                                *)
LEMMA LeafWritten ==
  ASSUME TypeOK, NEW d \in Dominator, NEW u \in User, NEW t \in Token, NEW leaf \in Leaf,
         book' = SetLeaf(d, u, t, leaf)
  PROVE  /\ book' \in [Dominator -> [User -> [Token -> [available : Nat, frozen : Nat]]]]
         /\ \A e \in Dominator, x \in User, s \in Token :
              LeafSum(e, x, s)' = IF e = d /\ x = u /\ s = t
                                  THEN SumOf(leaf) ELSE LeafSum(e, x, s)
  <1>1. book \in [Dominator -> [User -> [Token -> [available : Nat, frozen : Nat]]]]
    BY DEF TypeOK
  <1>2. book' \in [Dominator -> [User -> [Token -> [available : Nat, frozen : Nat]]]]
    BY <1>1 DEF SetLeaf, Leaf
  <1>3. \A e \in Dominator, x \in User, s \in Token :
          book'[e][x][s] = IF e = d /\ x = u /\ s = t THEN leaf ELSE book[e][x][s]
    BY <1>1 DEF SetLeaf
  <1> QED BY <1>2, <1>3 DEF LeafSum, SumOf

(* What writing one receipt does to them.                                  *)
LEMMA ReceiptWritten ==
  ASSUME TypeOK, NEW d \in Dominator, NEW u \in User, NEW r \in Receipt \cup {NoReceipt},
         receipts' = [receipts EXCEPT ![d][u] = r]
  PROVE  /\ receipts' \in [Dominator -> [User -> Receipt \cup {NoReceipt}]]
         /\ \A e \in Dominator, x \in User :
              receipts'[e][x] = IF e = d /\ x = u THEN r ELSE receipts[e][x]
  <1>1. receipts \in [Dominator -> [User -> Receipt \cup {NoReceipt}]]
    BY DEF TypeOK
  <1> QED BY <1>1

-----------------------------------------------------------------------------
(* Every step preserves it, one lemma per kind of action.                  *)

(* A change of status touches no funds; EVICTED is never left.             *)
LEMMA StatusKeeps ==
  ASSUME IInv, NEW d \in Dominator, NEW s \in Status, set_status(d, s)
  PROVE  Keeps
  <1>1. TypeOK'
    BY DEF IInv, TypeOK, set_status
  <1>2. ReservesBacked' /\ TokenConserved' /\ ReceiptCovered'
    BY DEF IInv, set_status, ReservesBacked, TokenConserved, ReceiptCovered, Stash
  <1>3. BookMatchesReserves'
    <2> SUFFICES ASSUME NEW e \in Dominator, NEW u \in User, NEW t \in Token,
                        status'[e] # "EVICTED"
                 PROVE  LeafSum(e, u, t) = Authorizing(e, u, t)
      BY DEF BookMatchesReserves, set_status, LeafSum, Authorizing
    <2>1. status[e] # "EVICTED"
      BY DEF IInv, TypeOK, set_status, RootMove, StakeMove
    <2> QED BY <2>1 DEF IInv, BookMatchesReserves
  <1>4. EvictedStep
    BY EvictedUntouched DEF set_status
  <1> QED BY <1>1, <1>2, <1>3, <1>4 DEF IInv, Keeps

(* authorize_to puts the amount into the stash with its receipt.           *)
LEMMA AuthorizeKeeps ==
  ASSUME IInv, NEW d \in Dominator, NEW u \in User, NEW t \in Token, NEW v \in Amount,
         authorize_to(u, d, t, v)
  PROVE  Keeps
  <1> DEFINE S == "AUTHORIZING_STASH"
             r == [kind |-> "Authorize", token |-> t, amount |-> v]
  <1>a. TypeOK /\ v \in Nat /\ r \in Receipt
    BY CustodyAssumption DEF IInv, Receipt, Kind
  <1>b. ledger \in CustodyLedger /\ S \in ReserveId /\ "AUTHORIZING" \in ReserveId
    BY <1>a, StateTypes
  <1>1. Shifted(ledger, ledger', S, u, t, d, v) /\ Kept(ledger, ledger')
    BY <1>a, <1>b, ReserveLaw DEF authorize_to
  <1>2. /\ receipts' \in [Dominator -> [User -> Receipt \cup {NoReceipt}]]
        /\ \A e \in Dominator, x \in User :
             receipts'[e][x] = IF e = d /\ x = u THEN r ELSE receipts[e][x]
    BY <1>a, ReceiptWritten DEF authorize_to
  <1>3. TypeOK'
    BY <1>1, <1>2, <1>a DEF authorize_to, TypeOK, Kept, CustodyLedger
  <1>4. ReservesBacked' /\ TokenConserved'
    BY <1>1, KeptBalances DEF IInv, authorize_to
  <1>5. BookMatchesReserves'
    <2>1. \A e \in Dominator, x \in User, s \in Token :
            Authorizing(e, x, s)' = Authorizing(e, x, s)
      BY <1>1, <1>b DEF Shifted, OnlyEntry, Authorizing
    <2> QED BY <2>1 DEF IInv, BookMatchesReserves, authorize_to, LeafSum
  <1>6. ReceiptCovered'
    <2> SUFFICES ASSUME NEW e \in Dominator, NEW x \in User, receipts'[e][x].kind = "Authorize"
                 PROVE  Stash(e, x, receipts[e][x].token)' >= receipts'[e][x].amount
      BY DEF ReceiptCovered
    <2>1. CASE e = d /\ x = u
      <3>1. Stash(d, u, t)' = Stash(d, u, t) + v /\ Stash(d, u, t) \in Nat
        BY <1>1, <1>a, StateTypes DEF Shifted, Stash
      <3> QED BY <1>2, <1>a, <2>1, <3>1
    <2>2. CASE e # d \/ x # u
      <3>1. receipts'[e][x] = receipts[e][x]
        BY <1>2, <2>2
      <3>2. receipts[e][x].token \in Token
        BY <1>a, <3>1, StateTypes DEF Kind
      <3>3. Stash(e, x, receipts[e][x].token)' = Stash(e, x, receipts[e][x].token)
        BY <1>1, <1>b, <2>2, <3>1, <3>2 DEF Shifted, OnlyEntry, Stash
      <3>4. receipts[e][x].kind = "Authorize" => Stash(e, x, receipts[e][x].token) >= receipts[e][x].amount
        BY DEF IInv, ReceiptCovered
      <3> QED BY <3>1, <3>3, <3>4
    <2> QED BY <2>1, <2>2
  <1>7. EvictedStep
    <2>1. status[d] # "EVICTED"
      BY DEF authorize_to
    <2> QED BY <1>1, <2>1, EvictedUntouched DEF Shifted, OnlyEntry
  <1> QED BY <1>3, <1>4, <1>5, <1>6, <1>7 DEF IInv, Keeps

(* A receipt that goes, or that asks for a revoke, needs no stash.         *)
LEMMA ReceiptOnlyKeeps ==
  ASSUME IInv, NEW d \in Dominator, NEW u \in User, NEW r \in Receipt \cup {NoReceipt},
         r.kind # "Authorize", receipts' = [receipts EXCEPT ![d][u] = r],
         UNCHANGED <<status, ledger, book, fees, bridged>>
  PROVE  Keeps
  <1>1. /\ receipts' \in [Dominator -> [User -> Receipt \cup {NoReceipt}]]
        /\ \A e \in Dominator, x \in User :
             receipts'[e][x] = IF e = d /\ x = u THEN r ELSE receipts[e][x]
    BY ReceiptWritten DEF IInv
  <1>2. TypeOK'
    BY <1>1 DEF IInv, TypeOK
  <1>3. ReservesBacked' /\ TokenConserved' /\ BookMatchesReserves'
    BY DEF IInv, ReservesBacked, TokenConserved, BookMatchesReserves, LeafSum, Authorizing
  <1>4. ReceiptCovered'
    BY <1>1 DEF IInv, ReceiptCovered, Stash
  <1>5. EvictedStep
    BY EvictedUntouched
  <1> QED BY <1>2, <1>3, <1>4, <1>5 DEF IInv, Keeps

(* revoke_from on a live dominator only leaves a receipt.                  *)
LEMMA RequestKeeps ==
  ASSUME IInv, NEW d \in Dominator, NEW u \in User, NEW t \in Token, NEW v \in Amount,
         NEW kind \in Kind \ {"Authorize"}, revoke_request(u, d, t, v, kind)
  PROVE  Keeps
  <1> DEFINE r == [kind |-> kind, token |-> t, amount |-> v]
  <1>1. r \in Receipt /\ r.kind # "Authorize"
    BY CustodyAssumption DEF Receipt
  <1> QED BY <1>1, ReceiptOnlyKeeps DEF revoke_request

(* A rejected request only loses its receipt.                              *)
LEMMA RejectKeeps ==
  ASSUME IInv, NEW d \in Dominator, NEW u \in User,
         RejectTransferOut(d, u) \/ RejectTransferIn(d, u)
  PROVE  Keeps
  <1>1. NoReceipt.kind # "Authorize"
    BY DEF NoReceipt
  <1> QED BY <1>1, ReceiptOnlyKeeps DEF RejectTransferOut, RejectTransferIn

(* A step that drops the receipt of u on d, and changes purposes of u on d *)
(* only, leaves the other receipts covered.                                *)
LEMMA ReceiptDropped ==
  ASSUME TypeOK, ReceiptCovered, NEW d \in Dominator, NEW u \in User,
         receipts' = [receipts EXCEPT ![d][u] = NoReceipt],
         \A i \in ReserveId, x \in User, s \in Token, e \in Dominator : (e # d \/ x # u) =>
            ledger'.reserves[i][x][s][e] = ledger.reserves[i][x][s][e]
  PROVE  ReceiptCovered' /\ receipts' \in [Dominator -> [User -> Receipt \cup {NoReceipt}]]
  <1>1. /\ receipts' \in [Dominator -> [User -> Receipt \cup {NoReceipt}]]
        /\ \A e \in Dominator, x \in User :
             receipts'[e][x] = IF e = d /\ x = u THEN NoReceipt ELSE receipts[e][x]
    BY ReceiptWritten
  <1>2. ASSUME NEW e \in Dominator, NEW x \in User, receipts'[e][x].kind = "Authorize"
        PROVE  Stash(e, x, receipts[e][x].token)' >= receipts'[e][x].amount
    <2>1. e # d \/ x # u
      BY <1>1, <1>2 DEF NoReceipt
    <2>2. receipts'[e][x] = receipts[e][x]
      BY <1>1, <2>1
    <2>3. PICK s \in Token : s = receipts[e][x].token
      BY <1>2, <2>2, StateTypes DEF Kind
    <2>4. Stash(e, x, s)' = Stash(e, x, s)
      BY <2>1, StateTypes DEF Stash
    <2>5. Stash(e, x, receipts[e][x].token)' = Stash(e, x, s)'
      BY <2>2, <2>3 DEF Stash
    <2>6. Stash(e, x, s) >= receipts[e][x].amount
      BY <1>2, <2>2, <2>3 DEF ReceiptCovered
    <2> QED BY <2>2, <2>4, <2>5, <2>6
  <1> QED BY <1>1, <1>2 DEF ReceiptCovered

(* revoke_from after eviction merges the stash and releases the amount.    *)
LEMMA EvictedKeeps ==
  ASSUME IInv, NEW d \in Dominator, NEW u \in User, NEW t \in Token, NEW v \in Amount,
         revoke_evicted(u, d, t, v)
  PROVE  Keeps
  <1> DEFINE A == "AUTHORIZING"
             S == "AUTHORIZING_STASH"
             g == MergeStash(ledger, d, u, t)
  <1>a. TypeOK /\ v \in Nat
    BY CustodyAssumption DEF IInv
  <1>b. ledger \in CustodyLedger /\ A \in ReserveId /\ S \in ReserveId
        /\ ledger.reserves[S][u][t][d] \in Nat
    BY <1>a, StateTypes DEF Stash
  <1>1. /\ Kept(ledger, g) /\ Restashed(ledger, g, u, t, d)
        /\ g.reserves[A][u][t][d] = ledger.reserves[A][u][t][d] + ledger.reserves[S][u][t][d]
        /\ g.reserves[S][u][t][d] = 0
    <2>1. ledger.reserves[S][u][t][d] <= ledger.reserves[S][u][t][d]
      BY <1>b
    <2>2. g = StashToAuthorizing(ledger, d, u, t, ledger.reserves[S][u][t][d])
      BY DEF MergeStash, StashToAuthorizing
    <2> HIDE DEF g
    <2> QED BY <1>b, <2>1, <2>2, StashEmptied
  <1>2. can_unreserve(g, A, u, t, v, d) /\ ledger' = unreserve(g, A, u, t, v, d)
    BY DEF revoke_evicted
  <1> HIDE DEF g
  <1>3. Shifted(g, ledger', A, u, t, d, -v) /\ Kept(g, ledger')
    BY <1>1, <1>2, <1>a, <1>b, UnreserveLaw DEF Kept
  <1>4. Kept(ledger, ledger')
    BY <1>1, <1>3 DEF Kept
  <1>5. \A i \in ReserveId, x \in User, s \in Token, e \in Dominator : (e # d \/ x # u) =>
          ledger'.reserves[i][x][s][e] = ledger.reserves[i][x][s][e]
    BY <1>1, <1>3 DEF Shifted, OnlyEntry, Restashed
  <1>6. ReceiptCovered' /\ receipts' \in [Dominator -> [User -> Receipt \cup {NoReceipt}]]
    BY <1>5, ReceiptDropped DEF IInv, revoke_evicted
  <1>7. TypeOK'
    BY <1>4, <1>6, <1>a DEF revoke_evicted, TypeOK, Kept, CustodyLedger
  <1>8. ReservesBacked' /\ TokenConserved'
    BY <1>4, KeptBalances DEF IInv, revoke_evicted
  <1>9. BookMatchesReserves'
    <2> SUFFICES ASSUME NEW e \in Dominator, NEW x \in User, NEW s \in Token,
                        status[e] # "EVICTED"
                 PROVE  LeafSum(e, x, s) = Authorizing(e, x, s)'
      BY DEF BookMatchesReserves, revoke_evicted, LeafSum
    <2>1. e # d
      BY DEF revoke_evicted
    <2>2. Authorizing(e, x, s)' = Authorizing(e, x, s)
      BY <1>5, <1>b, <2>1 DEF Authorizing
    <2> QED BY <2>2 DEF IInv, BookMatchesReserves
  <1>10. EvictedStep
    <2> SUFFICES ASSUME NEW e \in Dominator, NEW x \in User, NEW s \in Token,
                        Claim(e, x, s)' # Claim(e, x, s)
                 PROVE  ledger'.free[s][x] - ledger.free[s][x] = Claim(e, x, s) - Claim(e, x, s)'
      BY DEF EvictedStep
    <2>1. /\ g.reserves[A][u][t][d] = ledger.reserves[A][u][t][d] + ledger.reserves[S][u][t][d]
          /\ g.reserves[S][u][t][d] = 0
          /\ g.free = ledger.free
      BY <1>1 DEF Restashed
    <2>2. /\ ledger'.reserves[A][u][t][d] = g.reserves[A][u][t][d] + (-v)
          /\ ledger'.reserves[S][u][t][d] = g.reserves[S][u][t][d]
          /\ ledger'.free[t][u] = g.free[t][u] - (-v)
      BY <1>3, <1>b DEF Shifted, OnlyEntry
    <2>3. ledger.reserves[A][u][t][d] \in Nat /\ ledger.reserves[S][u][t][d] \in Nat
          /\ ledger.free[t][u] \in Nat
      BY <1>b, EntryTypes
    <2>4. CASE e = d /\ x = u /\ s = t
      <3>1. ledger'.free[t][u] - ledger.free[t][u] = v
        BY <1>a, <2>1, <2>2, <2>3
      <3>2. /\ Claim(d, u, t) = ledger.reserves[A][u][t][d] + ledger.reserves[S][u][t][d]
            /\ Claim(d, u, t)' = ledger'.reserves[A][u][t][d] + ledger'.reserves[S][u][t][d]
        BY DEF Claim, Authorizing, Stash
      <3>3. Claim(d, u, t) - Claim(d, u, t)' = v
        BY <1>a, <2>1, <2>2, <2>3, <3>2
      <3> QED BY <2>4, <3>1, <3>3
    <2>5. CASE ~(e = d /\ x = u /\ s = t)
      <3>1. \A i \in ReserveId : ledger'.reserves[i][x][s][e] = ledger.reserves[i][x][s][e]
        BY <1>1, <1>3, <2>5 DEF Shifted, OnlyEntry, Restashed
      <3> QED BY <1>b, <3>1 DEF Claim, Authorizing, Stash
    <2> QED BY <2>4, <2>5
  <1> QED BY <1>6, <1>7, <1>8, <1>9, <1>10 DEF IInv, Keeps

(* TransferIn moves the receipt's amount from the stash into the book.     *)
LEMMA TransferInKeeps ==
  ASSUME IInv, NEW d \in Dominator, NEW u \in User, TransferIn(d, u)
  PROVE  Keeps
  <1> DEFINE A == "AUTHORIZING"
             S == "AUTHORIZING_STASH"
  <1>t. PICK t \in Token, v \in Nat : t = receipts[d][u].token /\ v = receipts[d][u].amount
    BY StateTypes DEF IInv, TransferIn, Kind
  <1>l. PICK leaf \in Leaf : leaf = book[d][u][t]
    BY StateTypes DEF IInv
  <1> DEFINE new == verify_transfer_in(leaf, v)
  <1>a. TypeOK /\ receipts[d][u].kind = "Authorize"
    BY DEF IInv, TransferIn
  <1>b. ledger \in CustodyLedger /\ A \in ReserveId /\ S \in ReserveId
        /\ Authorizing(d, u, t) \in Nat
    BY <1>a, StateTypes
  <1>c. v <= ledger.reserves[S][u][t][d]
    <2>1. Stash(d, u, t) >= v /\ Stash(d, u, t) \in Nat
      BY <1>a, <1>t, StateTypes DEF IInv, ReceiptCovered
    <2> QED BY <1>a, <2>1 DEF Stash
  <1>d. new \in Leaf /\ SumOf(new) = SumOf(leaf) + v
    BY DEF verify_transfer_in, Leaf, SumOf
  <1>e. /\ ledger' = StashToAuthorizing(ledger, d, u, t, v)
        /\ book' = SetLeaf(d, u, t, new)
        /\ receipts' = [receipts EXCEPT ![d][u] = NoReceipt]
        /\ UNCHANGED <<status, fees, bridged>>
    BY <1>t, <1>l DEF TransferIn
  <1> HIDE DEF new
  <1>1. /\ Kept(ledger, ledger') /\ Restashed(ledger, ledger', u, t, d)
        /\ ledger'.reserves[A][u][t][d] = ledger.reserves[A][u][t][d] + v
    BY <1>b, <1>c, <1>e, StashEmptied
  <1>2. \A i \in ReserveId, x \in User, s \in Token, e \in Dominator : (e # d \/ x # u) =>
          ledger'.reserves[i][x][s][e] = ledger.reserves[i][x][s][e]
    BY <1>1 DEF Restashed
  <1>3. ReceiptCovered' /\ receipts' \in [Dominator -> [User -> Receipt \cup {NoReceipt}]]
    BY <1>2, <1>e, ReceiptDropped DEF IInv
  <1>4. /\ book' \in [Dominator -> [User -> [Token -> [available : Nat, frozen : Nat]]]]
        /\ \A e \in Dominator, x \in User, s \in Token :
             LeafSum(e, x, s)' = IF e = d /\ x = u /\ s = t
                                 THEN SumOf(new) ELSE LeafSum(e, x, s)
    BY <1>a, <1>d, <1>e, LeafWritten
  <1>5. TypeOK'
    BY <1>1, <1>3, <1>4, <1>a, <1>e DEF TypeOK, Kept, CustodyLedger
  <1>6. ReservesBacked' /\ TokenConserved'
    BY <1>1, <1>e, KeptBalances DEF IInv
  <1>7. BookMatchesReserves'
    <2> SUFFICES ASSUME NEW e \in Dominator, NEW x \in User, NEW s \in Token,
                        status[e] # "EVICTED"
                 PROVE  LeafSum(e, x, s)' = Authorizing(e, x, s)'
      BY <1>e DEF BookMatchesReserves
    <2>1. LeafSum(e, x, s) = Authorizing(e, x, s)
      BY DEF IInv, BookMatchesReserves
    <2>2. CASE e = d /\ x = u /\ s = t
      <3>1. SumOf(leaf) = LeafSum(d, u, t)
        BY <1>l DEF SumOf, LeafSum
      <3>2. Authorizing(d, u, t)' = Authorizing(d, u, t) + v
        BY <1>1, <1>e DEF Authorizing
      <3> QED BY <1>4, <1>a, <1>d, <2>1, <2>2, <3>1, <3>2
    <2>3. CASE ~(e = d /\ x = u /\ s = t)
      <3>1. Authorizing(e, x, s)' = Authorizing(e, x, s)
        BY <1>1, <1>b, <2>3 DEF Restashed, Authorizing
      <3> QED BY <1>4, <2>1, <2>3, <3>1
    <2> QED BY <2>2, <2>3
  <1>8. EvictedStep
    <2>1. status[d] # "EVICTED"
      BY DEF TransferIn
    <2> QED BY <1>2, <2>1, EvictedUntouched
  <1> QED BY <1>3, <1>5, <1>6, <1>7, <1>8 DEF IInv, Keeps

(* What leaves a free balance leaves the sum of all balances.              *)
Spent(l, u, t, v) == [l EXCEPT !.free[t][u] = @ - v]

(* Spending keeps the ledger solvent.                                      *)
LEMMA SpendLaw ==
  ASSUME NEW l \in CustodyLedger, NEW u \in User, NEW t \in Token, NEW v \in Nat,
         v <= l.free[t][u]
  PROVE  /\ Spent(l, u, t, v) \in CustodyLedger
         /\ Spent(l, u, t, v).reserves = l.reserves
         /\ Solvent(l) => Solvent(Spent(l, u, t, v))
         /\ Wealth(Spent(l, u, t, v), t) = Wealth(l, t) - v
         /\ \A s \in Token : s # t => Wealth(Spent(l, u, t, v), s) = Wealth(l, s)
  <1> DEFINE m == Spent(l, u, t, v)
             n == l.free[t][u] - v
             f == [l.free EXCEPT ![t][u] = n]
  <1>a. l \in [free : [Token -> [User -> Nat]], reserved : [Token -> [User -> Nat]],
               reserves : [ReserveId -> [User -> [Token -> [Dominator -> Nat]]]]]
    BY DEF CustodyLedger, LedgerType
  <1>b. l.free[t][u] \in Nat /\ l.reserved[t][u] \in Nat
    BY EntryTypes
  <1>1. m = [free |-> f, reserved |-> l.reserved, reserves |-> l.reserves]
    <2>1. m = [l EXCEPT !.free[t][u] = n]
      BY DEF Spent
    <2> HIDE DEF m, n
    <2> QED BY <1>a, <2>1
  <1>2. f \in [Token -> [User -> Nat]] /\ f[t][u] = l.free[t][u] - v
    BY <1>a, <1>b
  <1>3. \A s \in Token, x \in User : (s # t \/ x # u) => f[s][x] = l.free[s][x]
    BY <1>a
  <1> HIDE DEF m, f
  <1>4. m \in CustodyLedger
    BY <1>1, <1>2, <1>a DEF CustodyLedger, LedgerType
  <1>5. m.free = f /\ m.reserved = l.reserved /\ m.reserves = l.reserves
    BY <1>1
  <1>6. Solvent(l) => Solvent(m)
    BY <1>5 DEF Solvent, TotalReserves
  <1>7. /\ Wealth(m, t) = Wealth(l, t) + (m.free[t][u] + m.reserved[t][u])
                                       - (l.free[t][u] + l.reserved[t][u])
        /\ \A s \in Token : s # t => Wealth(m, s) = Wealth(l, s)
        /\ Wealth(l, t) \in Int
    BY <1>3, <1>4, <1>5, WealthChange DEF OnlyFree, OnlyReserved
  <1>8. Wealth(m, t) = Wealth(l, t) - v
    BY <1>2, <1>5, <1>7, <1>b
  <1> QED BY <1>4, <1>5, <1>6, <1>7, <1>8 DEF m

(* TransferOut releases what the leaf proves; the callback may spend it or *)
(* hand it to a dominator again before anything else happens.              *)
LEMMA TransferOutKeeps ==
  ASSUME IInv, NEW d \in Dominator, NEW u \in User, NEW callback \in Callback,
         TransferOut(d, u, callback)
  PROVE  Keeps
  <1> DEFINE A == "AUTHORIZING"
             S == "AUTHORIZING_STASH"
  <1>t. PICK t \in Token, v \in Nat : t = receipts[d][u].token /\ v = receipts[d][u].amount
    BY StateTypes DEF IInv, TransferOut, IsRevoke, Kind
  <1>l. PICK leaf \in Leaf : leaf = book[d][u][t]
    BY StateTypes DEF IInv
  <1> DEFINE new == verify_transfer_out(leaf, v)
             released == unreserve(ledger, A, u, t, v, d)
             removed == [receipts EXCEPT ![d][u] = NoReceipt]
             spent == IF callback = "spend" THEN v ELSE 0
             r == [kind |-> "Authorize", token |-> t, amount |-> v]
             Goal == /\ ledger' \in CustodyLedger
                     /\ receipts' \in [Dominator -> [User -> Receipt \cup {NoReceipt}]]
                     /\ bridged' \in [Token -> Nat]
                     /\ ReservesBacked' /\ TokenConserved' /\ ReceiptCovered'
                     /\ \A x \in User, s \in Token, e \in Dominator :
                          ledger'.reserves[A][x][s][e] = released.reserves[A][x][s][e]
                     /\ EvictedStep
  <1>a. TypeOK /\ ledger \in CustodyLedger /\ A \in ReserveId /\ S \in ReserveId /\ A # S
    BY StateTypes DEF IInv
  <1>b. /\ leaf.available >= v
        /\ can_unreserve(ledger, A, u, t, v, d)
        /\ bridged' = [bridged EXCEPT ![t] = @ + spent]
        /\ book' = SetLeaf(d, u, t, new)
        /\ UNCHANGED <<status, fees>>
    BY <1>t, <1>l DEF TransferOut
  <1>c. callback \in Dominator =>
          /\ ledger' = reserve(released, S, u, t, v, callback)
          /\ receipts' = [removed EXCEPT ![callback][u] = r]
    BY <1>t DEF TransferOut
  <1>d. callback \notin Dominator => ledger' = Spent(released, u, t, spent) /\ receipts' = removed
    BY <1>t DEF TransferOut, Spent
  <1>e. new \in Leaf /\ SumOf(new) = SumOf(leaf) - v
    BY <1>b DEF verify_transfer_out, Leaf, SumOf
  <1>f. spent \in Nat /\ spent <= v /\ (callback \in Dominator => spent = 0)
    BY CustodyAssumption
  <1>1. Shifted(ledger, released, A, u, t, d, -v) /\ Kept(ledger, released)
    BY <1>a, <1>b, UnreserveLaw
  <1>2. released.free[t][u] \in Nat /\ released.free[t][u] >= v
    <2>1. ledger.free[t][u] \in Nat
      BY <1>a, EntryTypes
    <2>2. released.free[t][u] = ledger.free[t][u] - (-v)
      BY <1>1 DEF Shifted
    <2> HIDE DEF released
    <2> QED BY <2>1, <2>2
  <1>3. \A i \in ReserveId, x \in User, s \in Token, e \in Dominator :
          (i # A \/ x # u \/ s # t \/ e # d) =>
            released.reserves[i][x][s][e] = ledger.reserves[i][x][s][e]
    BY <1>1 DEF Shifted, OnlyEntry
  <1>4. released.reserves[A][u][t][d] = ledger.reserves[A][u][t][d] - v
    <2>1. ledger.reserves[A][u][t][d] \in Nat
      BY <1>a, EntryTypes
    <2>2. released.reserves[A][u][t][d] = ledger.reserves[A][u][t][d] + (-v)
      BY <1>1 DEF Shifted
    <2> HIDE DEF released
    <2> QED BY <2>1, <2>2
  <1>5. removed \in [Dominator -> [User -> Receipt \cup {NoReceipt}]]
        /\ \A e \in Dominator, x \in User :
             removed[e][x] = IF e = d /\ x = u THEN NoReceipt ELSE receipts[e][x]
    BY <1>a DEF TypeOK
  <1> HIDE DEF new, released, removed, spent
  <1>6. ASSUME callback \in Dominator PROVE Goal
    <2>1. can_reserve(released, t, u, v)
      BY <1>2 DEF can_reserve
    <2>2. Shifted(released, ledger', S, u, t, callback, v) /\ Kept(released, ledger')
      BY <1>1, <1>6, <1>a, <1>c, <2>1, ReserveLaw DEF Kept
    <2>3. Kept(ledger, ledger')
      BY <1>1, <2>2 DEF Kept
    <2>4. bridged' = bridged
      BY <1>6, <1>a, <1>b, <1>f DEF TypeOK
    <2>5. ReservesBacked' /\ TokenConserved'
      BY <1>b, <2>3, <2>4, KeptBalances DEF IInv
    <2>6. \A x \in User, s \in Token, e \in Dominator :
            /\ ledger'.reserves[A][x][s][e] = released.reserves[A][x][s][e]
            /\ (e # callback \/ x # u \/ s # t) =>
                 ledger'.reserves[S][x][s][e] = released.reserves[S][x][s][e]
      BY <1>a, <2>2 DEF Shifted, OnlyEntry
    <2>7. ledger'.reserves[S][u][t][callback] = ledger.reserves[S][u][t][callback] + v
      BY <1>3, <1>6, <1>a, <2>2 DEF Shifted
    <2>8. r \in Receipt
      BY DEF Receipt, Kind
    <2>9. receipts' \in [Dominator -> [User -> Receipt \cup {NoReceipt}]]
          /\ \A e \in Dominator, x \in User :
               receipts'[e][x] = IF e = callback /\ x = u THEN r ELSE removed[e][x]
      BY <1>5, <1>6, <1>c, <2>8
    <2>10. ReceiptCovered'
      <3> SUFFICES ASSUME NEW e \in Dominator, NEW x \in User, receipts'[e][x].kind = "Authorize"
                   PROVE  Stash(e, x, receipts[e][x].token)' >= receipts'[e][x].amount
        BY DEF ReceiptCovered
      <3>1. CASE e = callback /\ x = u
        <4>1. ledger.reserves[S][u][t][callback] \in Nat
          BY <1>6, <1>a, EntryTypes
        <4> QED BY <2>7, <2>9, <3>1, <4>1 DEF Stash
      <3>2. CASE e # callback \/ x # u
        <4>1. receipts'[e][x] = receipts[e][x]
          BY <1>5, <2>9, <3>2 DEF NoReceipt
        <4>2. PICK s \in Token : s = receipts[e][x].token
          BY <1>a, <4>1, StateTypes DEF Kind
        <4>3. Stash(e, x, s)' = Stash(e, x, s)
          BY <1>3, <1>a, <2>6, <3>2 DEF Stash
        <4>4. Stash(e, x, receipts[e][x].token)' = Stash(e, x, s)'
          BY <4>1, <4>2 DEF Stash
        <4>5. Stash(e, x, s) >= receipts[e][x].amount
          BY <4>1, <4>2 DEF IInv, ReceiptCovered
        <4> QED BY <4>1, <4>3, <4>4, <4>5
      <3> QED BY <3>1, <3>2
    <2>11. bridged' \in [Token -> Nat]
      BY <1>a, <2>4 DEF TypeOK
    <2>12. EvictedStep
      <3>1. status[d] # "EVICTED" /\ status[callback] # "EVICTED"
        BY <1>6 DEF TransferOut, CallbackRuns
      <3> QED BY <1>3, <2>2, <3>1, EvictedUntouched, SMTT(30) DEF Shifted, OnlyEntry
    <2> QED BY <2>3, <2>5, <2>6, <2>9, <2>10, <2>11, <2>12 DEF Kept
  <1>7. ASSUME callback \notin Dominator PROVE Goal
    <2>1. spent <= released.free[t][u] /\ released \in CustodyLedger
      BY <1>1, <1>2, <1>f DEF Kept
    <2>2. /\ ledger' \in CustodyLedger
          /\ ledger'.reserves = released.reserves
          /\ Solvent(released) => Solvent(ledger')
          /\ Wealth(ledger', t) = Wealth(released, t) - spent
          /\ \A s \in Token : s # t => Wealth(ledger', s) = Wealth(released, s)
      BY <1>7, <1>d, <1>f, <2>1, SpendLaw
    <2>3. ReservesBacked'
      BY <1>1, <2>2 DEF IInv, ReservesBacked, Kept, Solvent
    <2>4. bridged' \in [Token -> Nat] /\ bridged'[t] = bridged[t] + spent
          /\ \A s \in Token : s # t => bridged'[s] = bridged[s]
      BY <1>a, <1>b, <1>f DEF TypeOK
    <2>5. TokenConserved'
      <3> SUFFICES ASSUME NEW s \in Token
                   PROVE  Wealth(ledger', s) + fees[s] + bridged'[s]
                            = SumFunction([x \in User |-> Endowment[s][x]])
        BY <1>b DEF TokenConserved, Wealth
      <3>1. Wealth(ledger, s) + fees[s] + bridged[s]
              = SumFunction([x \in User |-> Endowment[s][x]])
        BY DEF IInv, TokenConserved, Wealth
      <3>2. Wealth(released, s) = Wealth(ledger, s)
        BY <1>1 DEF Kept
      <3>3. Wealth(ledger, s) \in Int
        BY <1>a, WealthInt
      <3>4. fees[s] \in Nat /\ bridged[s] \in Nat
        BY <1>a DEF TypeOK
      <3>5. CASE s = t
        BY <1>f, <2>2, <2>4, <3>1, <3>2, <3>3, <3>4, <3>5
      <3>6. CASE s # t
        BY <2>2, <2>4, <3>1, <3>2, <3>6
      <3> QED BY <3>5, <3>6
    <2>6. \A i \in ReserveId, x \in User, s \in Token, e \in Dominator : (e # d \/ x # u) =>
            ledger'.reserves[i][x][s][e] = ledger.reserves[i][x][s][e]
      BY <1>3, <2>2
    <2>7. ReceiptCovered' /\ receipts' \in [Dominator -> [User -> Receipt \cup {NoReceipt}]]
      BY <1>7, <1>d, <2>6, ReceiptDropped DEF IInv, removed
    <2>8. EvictedStep
      <3>1. status[d] # "EVICTED"
        BY DEF TransferOut
      <3> QED BY <2>6, <3>1, EvictedUntouched
    <2> QED BY <2>2, <2>3, <2>4, <2>5, <2>7, <2>8
  <1> HIDE DEF Goal
  <1>8. Goal
    BY <1>6, <1>7
  <1>9. /\ book' \in [Dominator -> [User -> [Token -> [available : Nat, frozen : Nat]]]]
        /\ \A e \in Dominator, x \in User, s \in Token :
             LeafSum(e, x, s)' = IF e = d /\ x = u /\ s = t
                                 THEN SumOf(new) ELSE LeafSum(e, x, s)
    BY <1>a, <1>b, <1>e, LeafWritten
  <1>10. TypeOK'
    BY <1>8, <1>9, <1>a, <1>b DEF Goal, TypeOK, CustodyLedger
  <1>11. BookMatchesReserves'
    <2> SUFFICES ASSUME NEW e \in Dominator, NEW x \in User, NEW s \in Token,
                        status[e] # "EVICTED"
                 PROVE  LeafSum(e, x, s)' = Authorizing(e, x, s)'
      BY <1>b DEF BookMatchesReserves
    <2>1. LeafSum(e, x, s) = Authorizing(e, x, s)
      BY DEF IInv, BookMatchesReserves
    <2>2. Authorizing(e, x, s)' = released.reserves[A][x][s][e]
      BY <1>8 DEF Goal, Authorizing
    <2>3. CASE e = d /\ x = u /\ s = t
      <3>1. SumOf(leaf) = LeafSum(d, u, t)
        BY <1>l DEF SumOf, LeafSum
      <3>2. Authorizing(d, u, t)' = Authorizing(d, u, t) - v
        BY <1>4, <2>2, <2>3 DEF Authorizing
      <3> QED BY <1>9, <1>e, <2>1, <2>3, <3>1, <3>2
    <2>4. CASE ~(e = d /\ x = u /\ s = t)
      <3>1. Authorizing(e, x, s)' = Authorizing(e, x, s)
        BY <1>3, <1>a, <2>2, <2>4 DEF Authorizing
      <3> QED BY <1>9, <2>1, <2>4, <3>1
    <2> QED BY <2>3, <2>4
  <1> QED BY <1>8, <1>10, <1>11 DEF Goal, IInv, Keeps

(* Placing and cancelling an order move funds within a leaf.               *)
LEMMA LeafOnlyKeeps ==
  ASSUME IInv, NEW d \in Dominator, NEW u \in User, NEW t \in Token, NEW leaf \in Leaf,
         SumOf(leaf) = LeafSum(d, u, t), book' = SetLeaf(d, u, t, leaf),
         UNCHANGED <<status, ledger, receipts, fees, bridged>>
  PROVE  Keeps
  <1>1. /\ book' \in [Dominator -> [User -> [Token -> [available : Nat, frozen : Nat]]]]
        /\ \A e \in Dominator, x \in User, s \in Token : LeafSum(e, x, s)' = LeafSum(e, x, s)
    BY LeafWritten DEF IInv
  <1>2. TypeOK'
    BY <1>1 DEF IInv, TypeOK
  <1>3. ReservesBacked' /\ TokenConserved' /\ ReceiptCovered'
    BY DEF IInv, ReservesBacked, TokenConserved, ReceiptCovered, Stash
  <1>4. BookMatchesReserves'
    BY <1>1 DEF IInv, BookMatchesReserves, Authorizing
  <1>5. EvictedStep
    BY EvictedUntouched
  <1> QED BY <1>2, <1>3, <1>4, <1>5 DEF IInv, Keeps

(* Place freezes and Cancel thaws an amount of one leaf.                   *)
LEMMA OrderKeeps ==
  ASSUME IInv, NEW d \in Dominator, NEW u \in User, NEW t \in Token, NEW v \in Amount,
         Place(d, u, t, v) \/ Cancel(d, u, t, v)
  PROVE  Keeps
  <1>a. v \in Nat /\ book[d][u][t].available \in Nat /\ book[d][u][t].frozen \in Nat
    BY CustodyAssumption, StateTypes DEF IInv
  <1>1. CASE Place(d, u, t, v)
    <2> DEFINE leaf == [available |-> book[d][u][t].available - v,
                        frozen |-> book[d][u][t].frozen + v]
    <2>1. leaf \in Leaf /\ SumOf(leaf) = LeafSum(d, u, t)
      BY <1>1, <1>a DEF Place, Leaf, SumOf, LeafSum
    <2>2. book' = SetLeaf(d, u, t, leaf) /\ UNCHANGED <<status, ledger, receipts, fees, bridged>>
      BY <1>1 DEF Place
    <2> HIDE DEF leaf
    <2> QED BY <2>1, <2>2, LeafOnlyKeeps
  <1>2. CASE Cancel(d, u, t, v)
    <2> DEFINE leaf == [available |-> book[d][u][t].available + v,
                        frozen |-> book[d][u][t].frozen - v]
    <2>1. leaf \in Leaf /\ SumOf(leaf) = LeafSum(d, u, t)
      BY <1>2, <1>a DEF Cancel, Leaf, SumOf, LeafSum
    <2>2. book' = SetLeaf(d, u, t, leaf) /\ UNCHANGED <<status, ledger, receipts, fees, bridged>>
      BY <1>2 DEF Cancel
    <2> HIDE DEF leaf
    <2> QED BY <2>1, <2>2, LeafOnlyKeeps
  <1> QED BY <1>1, <1>2

(* A fee rounded up is a natural number.                                   *)
LEMMA CeilType ==
  ASSUME NEW rate \in Nat, NEW x \in Nat
  PROVE  mul_ceil(rate, x) \in Nat
  <1> DEFINE n == rate * x + Parts - 1
  <1>1. Parts \in Nat \ {0}
    BY CustodyAssumption
  <1>2. rate * x \in Nat
    OBVIOUS
  <1>3. n \in Nat
    BY <1>1, <1>2
  <1> HIDE DEF n
  <1>4. n \div Parts \in Nat
    BY <1>1, <1>3
  <1> QED BY <1>4 DEF mul_ceil, n

(* The leaves a trade leaves to its two sides.                             *)
TakerLeaves(leaves, pay, get, paid, rest, got) ==
  [leaves EXCEPT ![pay].available = @ - (paid + rest), ![pay].frozen = @ + rest,
                 ![get].available = @ + got]
MakerLeaves(leaves, pay, get, paid, got) ==
  [leaves EXCEPT ![pay].available = @ + paid, ![get].frozen = @ - got]

(* The sums they prove: what each side pays and receives.                  *)
TakerTraded(a, c, pay, get, paid, out) ==
  /\ c \in [Token -> Leaf]
  /\ SumOf(c[pay]) = SumOf(a[pay]) - paid
  /\ SumOf(c[get]) = SumOf(a[get]) + out
MakerTraded(b, c, pay, get, in, got) ==
  /\ c \in [Token -> Leaf]
  /\ SumOf(c[pay]) = SumOf(b[pay]) + in
  /\ SumOf(c[get]) = SumOf(b[get]) - got

(* The taker's leaves.                                                     *)
LEMMA TakerSums ==
  ASSUME NEW pay \in Token, NEW get \in Token, pay # get, NEW a \in [Token -> Leaf],
         NEW paid \in Nat, NEW rest \in Nat, NEW out \in Nat, a[pay].available >= paid + rest
  PROVE  TakerTraded(a, TakerLeaves(a, pay, get, paid, rest, out), pay, get, paid, out)
  <1> DEFINE ta == TakerLeaves(a, pay, get, paid, rest, out)
             v1 == a[pay].available - (paid + rest)
             v2 == a[pay].frozen + rest
             v3 == a[get].available + out
             a1 == [a EXCEPT ![pay].available = v1]
             a2 == [a1 EXCEPT ![pay].frozen = v2]
             a3 == [a2 EXCEPT ![get].available = v3]
  <1>a. \A s \in Token : a[s] \in [available : Nat, frozen : Nat]
    BY DEF Leaf
  <1>b. v1 \in Nat /\ v2 \in Nat /\ v3 \in Nat
    BY <1>a
  <1>c. /\ v1 + v2 = (a[pay].available + a[pay].frozen) - paid
        /\ v3 + a[get].frozen = (a[get].available + a[get].frozen) + out
    BY <1>a
  <1>1. ta = a3
    BY DEF TakerLeaves
  <1> HIDE DEF v1, v2, v3, ta
  <1>3. a1 \in [Token -> Leaf] /\ a1[get] = a[get]
        /\ a1[pay].available = v1 /\ a1[pay].frozen = a[pay].frozen
    BY <1>a, <1>b DEF Leaf
  <1> HIDE DEF a1
  <1>5. a2 \in [Token -> Leaf] /\ a2[get] = a[get]
        /\ a2[pay].available = v1 /\ a2[pay].frozen = v2
    BY <1>3, <1>b DEF Leaf
  <1> HIDE DEF a2
  <1>7. a3 \in [Token -> Leaf] /\ a3[pay] = a2[pay]
        /\ a3[get].available = v3 /\ a3[get].frozen = a[get].frozen
    BY <1>5, <1>b DEF Leaf
  <1> HIDE DEF a3
  <1> QED BY <1>1, <1>5, <1>7, <1>c DEF SumOf, TakerTraded, ta

(* The maker's leaves.                                                     *)
LEMMA MakerSums ==
  ASSUME NEW pay \in Token, NEW get \in Token, pay # get, NEW b \in [Token -> Leaf],
         NEW in \in Nat, NEW got \in Nat, b[get].frozen >= got
  PROVE  MakerTraded(b, MakerLeaves(b, pay, get, in, got), pay, get, in, got)
  <1> DEFINE mb == MakerLeaves(b, pay, get, in, got)
             w1 == b[pay].available + in
             w2 == b[get].frozen - got
             b1 == [b EXCEPT ![pay].available = w1]
             b2 == [b1 EXCEPT ![get].frozen = w2]
  <1>a. \A s \in Token : b[s] \in [available : Nat, frozen : Nat]
    BY DEF Leaf
  <1>b. w1 \in Nat /\ w2 \in Nat
    BY <1>a
  <1>c. /\ w1 + b[pay].frozen = (b[pay].available + b[pay].frozen) + in
        /\ b[get].available + w2 = (b[get].available + b[get].frozen) - got
    BY <1>a
  <1>2. mb = b2
    BY DEF MakerLeaves
  <1> HIDE DEF w1, w2, mb
  <1>4. b1 \in [Token -> Leaf] /\ b1[get] = b[get]
        /\ b1[pay].available = w1 /\ b1[pay].frozen = b[pay].frozen
    BY <1>a, <1>b DEF Leaf
  <1> HIDE DEF b1
  <1>6. b2 \in [Token -> Leaf] /\ b2[pay] = b1[pay]
        /\ b2[get].available = b[get].available /\ b2[get].frozen = w2
    BY <1>4, <1>b DEF Leaf
  <1> HIDE DEF b2
  <1> QED BY <1>2, <1>4, <1>6, <1>c DEF SumOf, MakerTraded, mb

(* A trade moves what was proved between the two accounts and the fees.    *)
LEMMA TradeKeeps ==
  ASSUME IInv, NEW d \in Dominator, NEW taker \in User, NEW maker \in User \ {taker},
         NEW pay \in Token, NEW get \in Token, pay # get,
         NEW paid \in Nat, NEW got \in Nat, NEW rest \in Nat,
         NEW maker_fee \in Nat, NEW taker_fee \in Nat,
         Trade(d, taker, maker, pay, get, paid, got, maker_fee, taker_fee, rest)
  PROVE  Keeps
  <1> DEFINE A == "AUTHORIZING"
             mc == mul_ceil(maker_fee, paid)
             tc == mul_ceil(taker_fee, got)
             tl == TakerLeaves(book[d][taker], pay, get, paid, rest, got - tc)
             ml == MakerLeaves(book[d][maker], pay, get, paid - mc, got)
             l == ClearBoth(ledger, d, maker, ml)
  <1>a. TypeOK /\ ledger \in CustodyLedger /\ A \in ReserveId /\ Solvent(ledger)
        /\ "AUTHORIZING_STASH" \in ReserveId
    BY StateTypes DEF IInv, ReservesBacked, Solvent
  <1>b. mc \in Nat /\ tc \in Nat
    BY CeilType
  <1>c. \A s \in Token : s = pay \/ s = get
    BY DEF Token
  <1>d. /\ mc <= paid /\ tc <= got
        /\ book[d][taker][pay].available >= paid + rest
        /\ book[d][maker][get].frozen >= got
        /\ \A s \in Token : /\ Authorizing(d, taker, s) = LeafSum(d, taker, s)
                             /\ Authorizing(d, maker, s) = LeafSum(d, maker, s)
        /\ fees' = [fees EXCEPT ![pay] = @ + mc, ![get] = @ + tc]
        /\ UNCHANGED <<status, receipts, bridged>>
    BY DEF Trade, has_authorized_exactly_on
  <1>e. /\ book' = [book EXCEPT ![d] = [@ EXCEPT ![taker] = tl, ![maker] = ml]]
        /\ ledger' = ClearBoth(l, d, taker, tl)
    BY DEF Trade, TakerLeaves, MakerLeaves
  <1>f. book[d][taker] \in [Token -> Leaf] /\ book[d][maker] \in [Token -> Leaf]
        /\ book \in [Dominator -> [User -> [Token -> Leaf]]]
    BY <1>a DEF TypeOK, Leaf
  <1>1. /\ tl \in [Token -> Leaf] /\ ml \in [Token -> Leaf]
        /\ SumOf(tl[pay]) = LeafSum(d, taker, pay) - paid
        /\ SumOf(tl[get]) = LeafSum(d, taker, get) + (got - tc)
        /\ SumOf(ml[pay]) = LeafSum(d, maker, pay) + (paid - mc)
        /\ SumOf(ml[get]) = LeafSum(d, maker, get) - got
    <2> DEFINE in == paid - mc
               out == got - tc
    <2>1. in \in Nat /\ out \in Nat
      BY <1>b, <1>d
    <2>2. \A x \in User, s \in Token : SumOf(book[d][x][s]) = LeafSum(d, x, s)
      BY DEF SumOf, LeafSum
    <2> HIDE DEF in, out
    <2> DEFINE a == book[d][taker]
               b == book[d][maker]
    <2>3. a \in [Token -> Leaf] /\ b \in [Token -> Leaf]
      BY <1>f
    <2>4. a[pay].available >= paid + rest /\ b[get].frozen >= got
      BY <1>d
    <2> HIDE DEF a, b
    <2>5. TakerTraded(a, TakerLeaves(a, pay, get, paid, rest, out), pay, get, paid, out)
      BY <2>1, <2>3, <2>4, TakerSums
    <2>6. MakerTraded(b, MakerLeaves(b, pay, get, in, got), pay, get, in, got)
      BY <2>1, <2>3, <2>4, MakerSums
    <2> QED BY <2>2, <2>5, <2>6 DEF in, out, a, b, TakerTraded, MakerTraded
  <1> HIDE DEF mc, tc, tl, ml
  <1>2. ClearedBoth(ledger, l, d, maker, ml)
    BY <1>1, <1>a, ClearBothLaw
  <1> HIDE DEF l
  <1>3. ClearedBoth(l, ledger', d, taker, tl)
    <2>1. l \in CustodyLedger /\ Solvent(l)
      BY <1>2 DEF ClearedBoth
    <2> QED BY <1>1, <1>e, <2>1, ClearBothLaw
  <1>4. \A i \in ReserveId, x \in User, s \in Token, e \in Dominator :
          ledger'.reserves[i][x][s][e] =
            IF i = A /\ e = d /\ x = taker THEN SumOf(tl[s])
            ELSE IF i = A /\ e = d /\ x = maker THEN SumOf(ml[s])
            ELSE ledger.reserves[i][x][s][e]
    BY <1>2, <1>3 DEF ClearedBoth
  <1>5. \A e \in Dominator, x \in User, s \in Token :
          book'[e][x][s] = IF e = d /\ x = taker THEN tl[s]
                           ELSE IF e = d /\ x = maker THEN ml[s] ELSE book[e][x][s]
    BY <1>e, <1>f
  <1>6. book' \in [Dominator -> [User -> [Token -> Leaf]]]
    BY <1>1, <1>e, <1>f
  <1>7. fees' \in [Token -> Nat] /\ fees'[pay] = fees[pay] + mc /\ fees'[get] = fees[get] + tc
    <2>1. fees \in [Token -> Nat]
      BY <1>a DEF TypeOK
    <2> QED BY <1>b, <1>d, <2>1
  <1>8. TypeOK'
    BY <1>3, <1>6, <1>7, <1>a, <1>d DEF TypeOK, ClearedBoth, CustodyLedger, Leaf
  <1>9. ReservesBacked'
    BY <1>3 DEF ReservesBacked, ClearedBoth, Solvent
  <1>10. BookMatchesReserves'
    <2> SUFFICES ASSUME NEW e \in Dominator, NEW x \in User, NEW s \in Token,
                        status[e] # "EVICTED"
                 PROVE  LeafSum(e, x, s)' = Authorizing(e, x, s)'
      BY <1>d DEF BookMatchesReserves
    <2>1. LeafSum(e, x, s) = Authorizing(e, x, s)
      BY DEF IInv, BookMatchesReserves
    <2>2. Authorizing(e, x, s)' = IF e = d /\ x = taker THEN SumOf(tl[s])
                                  ELSE IF e = d /\ x = maker THEN SumOf(ml[s])
                                  ELSE Authorizing(e, x, s)
      BY <1>4, <1>a DEF Authorizing
    <2>3. LeafSum(e, x, s)' = IF e = d /\ x = taker THEN SumOf(tl[s])
                              ELSE IF e = d /\ x = maker THEN SumOf(ml[s])
                              ELSE LeafSum(e, x, s)
      BY <1>5 DEF LeafSum, SumOf
    <2> QED BY <2>1, <2>2, <2>3
  <1>11. ReceiptCovered'
    <2> SUFFICES ASSUME NEW e \in Dominator, NEW x \in User, receipts[e][x].kind = "Authorize"
                 PROVE  Stash(e, x, receipts[e][x].token)' >= receipts[e][x].amount
      BY <1>d DEF ReceiptCovered
    <2>1. PICK s \in Token : s = receipts[e][x].token
      BY <1>a, StateTypes DEF Kind
    <2>2. Stash(e, x, s)' = Stash(e, x, s)
      BY <1>4, <1>a DEF Stash
    <2>3. Stash(e, x, receipts[e][x].token)' = Stash(e, x, s)'
      BY <1>d, <2>1 DEF Stash
    <2>4. Stash(e, x, s) >= receipts[e][x].amount
      BY <2>1 DEF IInv, ReceiptCovered
    <2> QED BY <2>2, <2>3, <2>4
  <1>12. TokenConserved'
    <2> SUFFICES ASSUME NEW s \in Token
                 PROVE  Wealth(ledger', s) + fees'[s] + bridged[s]
                          = SumFunction([x \in User |-> Endowment[s][x]])
      BY <1>d DEF TokenConserved, Wealth
    <2>1. Wealth(ledger, s) + fees[s] + bridged[s]
            = SumFunction([x \in User |-> Endowment[s][x]])
      BY DEF IInv, TokenConserved, Wealth
    <2>2. /\ Wealth(l, s) = Wealth(ledger, s) + SumOf(ml[s]) - LeafSum(d, maker, s)
          /\ l.reserves[A][taker][s][d] = LeafSum(d, taker, s)
      BY <1>2, <1>a, <1>d DEF ClearedBoth, Authorizing
    <2>3. Wealth(ledger', s) = Wealth(l, s) + SumOf(tl[s]) - LeafSum(d, taker, s)
      BY <1>3, <2>2 DEF ClearedBoth
    <2>4. /\ Wealth(ledger, s) \in Int /\ fees[s] \in Int /\ bridged[s] \in Int
          /\ LeafSum(d, taker, s) \in Int /\ LeafSum(d, maker, s) \in Int
      <3>1. Wealth(ledger, s) \in Int
        BY <1>a, WealthInt
      <3>2. fees[s] \in Int /\ bridged[s] \in Int
        BY <1>a DEF TypeOK
      <3>3. LeafSum(d, taker, s) \in Int /\ LeafSum(d, maker, s) \in Int
        BY <1>a, <1>d, StateTypes
      <3> QED BY <3>1, <3>2, <3>3
    <2>5. CASE s = pay
      BY <1>1, <1>7, <1>b, <2>1, <2>2, <2>3, <2>4, <2>5
    <2>6. CASE s = get
      BY <1>1, <1>7, <1>b, <2>1, <2>2, <2>3, <2>4, <2>6
    <2> QED BY <1>c, <2>5, <2>6
  <1>13. EvictedStep
    <2>1. status[d] # "EVICTED"
      BY DEF Trade
    <2> QED BY <1>4, <2>1, EvictedUntouched
  <1> QED BY <1>8, <1>9, <1>10, <1>11, <1>12, <1>13 DEF IInv, Keeps

(* Every step keeps the inductive invariant and returns evicted funds.     *)
LEMMA NextKeeps == IInv /\ [Next]_vars => Keeps
  <1> SUFFICES ASSUME IInv, [Next]_vars PROVE Keeps
    OBVIOUS
  <1>1. ASSUME NEW d \in Dominator, NEW u \in User, UserCall(d, u) PROVE Keeps
    BY <1>1, AuthorizeKeeps, RequestKeeps, EvictedKeeps DEF UserCall
  <1>2. ASSUME NEW d \in Dominator, NEW u \in User, VerifyTransfer(d, u) PROVE Keeps
    BY <1>2, TransferOutKeeps, TransferInKeeps, RejectKeeps DEF VerifyTransfer
  <1>3. ASSUME NEW d \in Dominator, NEW u \in User, NEW maker \in User \ {u},
               VerifyTrade(d, u, maker)
        PROVE  Keeps
    <2>1. Base \in Token /\ Quote \in Token /\ Base # Quote
      BY CustodyAssumption DEF Token
    <2>2. PICK base \in Amount, quote \in Amount, rest \in Amount, mf \in MakerFee,
               tf \in TakerFee :
            \/ AskLimit(d, u, maker, base, quote, mf, tf, rest)
            \/ BidLimit(d, u, maker, base, quote, mf, tf, rest)
      BY <1>3 DEF VerifyTrade
    <2>3. base \in Nat /\ quote \in Nat /\ rest \in Nat /\ mf \in Nat /\ tf \in Nat
      BY CustodyAssumption
    <2>4. CASE Trade(d, u, maker, Base, Quote, base, quote, mf, tf, rest)
      BY <2>1, <2>3, <2>4, TradeKeeps
    <2>5. CASE Trade(d, u, maker, Quote, Base, quote, base, mf, tf, rest)
      BY <2>1, <2>3, <2>5, TradeKeeps
    <2> QED BY <2>2, <2>4, <2>5 DEF AskLimit, BidLimit
  <1>4. CASE UNCHANGED vars
    BY <1>4 DEF vars, IInv, TypeOK, ReservesBacked, BookMatchesReserves, ReceiptCovered,
                TokenConserved, LeafSum, Authorizing, Stash, Keeps, EvictedStep, Claim
  <1> QED BY <1>1, <1>2, <1>3, <1>4, StatusKeeps, OrderKeeps DEF Next

(* So the invariant is inductive.                                          *)
LEMMA NextInv == IInv /\ [Next]_vars => IInv'
  BY NextKeeps DEF Keeps

-----------------------------------------------------------------------------
(* The theorems.                                                           *)

(* The initial state satisfies the inductive invariant.                    *)
LEMMA InitInv == Init => IInv
  <1> SUFFICES ASSUME Init PROVE IInv
    OBVIOUS
  <1>1. TypeOK
    <2>1. Endowment \in [Token -> [User -> Nat]]
      BY CustodyAssumption DEF Token
    <2>2. ledger \in LedgerType(User, Dominator, Token, ReserveId)
      BY <2>1 DEF Init, LedgerType, EmptyReserves
    <2> QED BY <2>2 DEF Init, TypeOK, Status
  <1>a. ledger \in CustodyLedger /\ \A i \in ReserveId, u \in User, t \in Token, d \in Dominator :
          ledger.reserves[i][u][t][d] = 0
    BY <1>1 DEF Init, TypeOK, CustodyLedger, EmptyReserves
  <1>2. ReservesBacked
    <2> SUFFICES ASSUME NEW u \in User, NEW t \in Token
                 PROVE  ledger.reserved[t][u] >= TotalReserves(ledger, t, u)
      BY DEF ReservesBacked
    <2> DEFINE F == [i \in ReserveId |-> SumFunction(ledger.reserves[i][u][t])]
    <2>1. ASSUME NEW i \in ReserveId PROVE SumFunction(ledger.reserves[i][u][t]) = 0
      <3>1. ledger.reserves[i][u][t] \in [Dominator -> Int]
        BY <1>a, EntryTypes
      <3>2. \A d \in Dominator : ledger.reserves[i][u][t][d] = 0
        BY <1>a
      <3> QED BY <3>1, <3>2, TotalZero, FiniteIndices
    <2>2. F \in [ReserveId -> Int] /\ \A i \in ReserveId : F[i] = 0
      BY <2>1
    <2>3. TotalReserves(ledger, t, u) = SumFunction(F)
      BY <1>a, EntryTypes DEF TotalReserves
    <2> HIDE DEF F
    <2>4. TotalReserves(ledger, t, u) = 0
      BY <2>2, <2>3, TotalZero, FiniteIndices
    <2>5. ledger.reserved[t][u] = 0
      BY DEF Init
    <2> QED BY <2>4, <2>5
  <1>3. BookMatchesReserves
    <2>1. "AUTHORIZING" \in ReserveId
      BY DEF ReserveId
    <2> QED BY <1>a, <2>1 DEF Init, BookMatchesReserves, LeafSum, Authorizing
  <1>4. ReceiptCovered
    BY DEF Init, ReceiptCovered, NoReceipt
  <1>5. TokenConserved
    <2> SUFFICES ASSUME NEW t \in Token
                 PROVE  Wealth(ledger, t) + fees[t] + bridged[t]
                          = SumFunction([u \in User |-> Endowment[t][u]])
      BY DEF TokenConserved, Wealth
    <2>1. fees[t] = 0 /\ bridged[t] = 0
      BY DEF Init
    <2>2. \A u \in User : Endowment[t][u] \in Nat
      BY CustodyAssumption DEF Token
    <2>3. [u \in User |-> ledger.free[t][u] + ledger.reserved[t][u]]
            = [u \in User |-> Endowment[t][u]]
      BY <2>2 DEF Init
    <2>4. Wealth(ledger, t) = SumFunction([u \in User |-> Endowment[t][u]])
      BY <2>3 DEF Wealth
    <2>5. Wealth(ledger, t) \in Int
      BY <1>a, WealthInt
    <2> QED BY <2>1, <2>4, <2>5
  <1> QED BY <1>1, <1>2, <1>3, <1>4, <1>5 DEF IInv

(* The inductive invariant holds for ever.                                 *)
LEMMA Invariance == Spec => []IInv
  BY InitInv, NextInv, PTL DEF Spec

(* Every reachable state is well typed: no balance, reserve or leaf ever   *)
(* goes below zero, although most subtractions in the code are unguarded   *)
(* where they happen.                                                      *)
THEOREM TypeCorrect == Spec => []TypeOK
  BY Invariance, PTL DEF IInv

(* A user's reserved balance always covers what the purposes promise.      *)
THEOREM ReservesAreBacked == Spec => []ReservesBacked
  BY Invariance, PTL DEF IInv

(* The books the merkle root commits to say what the chain has locked.     *)
THEOREM BooksMatch == Spec => []BookMatchesReserves
  BY Invariance, PTL DEF IInv

(* No token is created or destroyed by custody and trading.                *)
THEOREM TokensConserved == Spec => []TokenConserved
  BY Invariance, PTL DEF IInv

(* No receipt is ever stuck: verify can always execute or reject it.       *)
THEOREM ReceiptsResolve == Spec => []ReceiptResolvable
  <1>1. IInv => ReceiptResolvable
    <2> SUFFICES ASSUME IInv, NEW d \in Dominator, NEW u \in User,
                        IsRevoke(receipts[d][u]), status[d] # "EVICTED",
                        book[d][u][receipts[d][u].token].available >= receipts[d][u].amount
                 PROVE  can_unreserve(ledger, "AUTHORIZING", u, receipts[d][u].token,
                                      receipts[d][u].amount, d)
      BY DEF ReceiptResolvable, IInv, ReceiptCovered
    <2>1. PICK t \in Token, v \in Nat : t = receipts[d][u].token /\ v = receipts[d][u].amount
      BY StateTypes DEF IInv, IsRevoke, Kind
    <2>2. /\ ledger \in CustodyLedger /\ "AUTHORIZING" \in ReserveId
          /\ book[d][u][t].available \in Nat /\ book[d][u][t].frozen \in Nat
      BY StateTypes DEF IInv
    <2>3. ledger.reserves["AUTHORIZING"][u][t][d] = LeafSum(d, u, t)
      BY DEF IInv, BookMatchesReserves, Authorizing
    <2>4. ledger.reserves["AUTHORIZING"][u][t][d] >= v
      BY <2>1, <2>2, <2>3 DEF LeafSum
    <2>5. /\ TotalReserves(ledger, t, u) \in Nat
          /\ ledger.reserves["AUTHORIZING"][u][t][d] <= TotalReserves(ledger, t, u)
      BY <2>2, TotalBound
    <2>6. ledger.reserved[t][u] >= TotalReserves(ledger, t, u)
      BY DEF IInv, ReservesBacked
    <2>7. ledger.reserved[t][u] \in Nat /\ ledger.reserves["AUTHORIZING"][u][t][d] \in Nat
      BY <2>2, EntryTypes
    <2>8. ledger.reserved[t][u] >= v
      BY <2>4, <2>5, <2>6, <2>7
    <2> QED BY <2>1, <2>4, <2>8 DEF can_unreserve
  <1> QED BY <1>1, Invariance, PTL

(* Whatever leaves the reserves kept for an evicted dominator reaches the  *)
(* free balance of its owner, in the same step.                            *)
THEOREM EvictedFundsReturn == Spec => EvictedReturns
  <1>1. IInv /\ [Next]_vars =>
          [\A d \in Dominator, u \in User, t \in Token :
             (status[d] = "EVICTED" /\ Claim(d, u, t)' # Claim(d, u, t)) =>
               ledger'.free[t][u] - ledger.free[t][u] = Claim(d, u, t) - Claim(d, u, t)']_vars
    BY NextKeeps DEF Keeps, EvictedStep
  <1> QED BY <1>1, Invariance, PTL DEF Spec, EvictedReturns
=============================================================================
